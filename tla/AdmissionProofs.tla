-------------------------- MODULE AdmissionProofs --------------------------
(***************************************************************************)
(* Admission, sessions and erasure for every number of identities, codes,  *)
(* sessions and logins under way, and every lifetime and limit.            *)
(*                                                                         *)
(* A login's transaction runs in steps, so what it has read must stay true *)
(* until it commits.  LocksOK says what the identity lock and the lock on  *)
(* the invitation keep true; the seats are then counted one at a time, and *)
(* a session is compared with the ledger row of its subject.               *)
(***************************************************************************)
EXTENDS Admission, FiniteSetTheorems, TLAPS

Holding == {"locked", "redeeming"}

\* A login inside its transaction has an identity of its own, and one that redeems
\* has an invitation of its own, made, with a seat left, for a subject that has none.
LocksOK ==
  /\ \A l \in Logins : login[l].pc \in Holding => login[l].subject \in Subjects
  /\ \A l, k \in Logins : l # k /\ login[l].pc \in Holding /\ login[k].pc \in Holding
       => login[l].subject # login[k].subject
  /\ \A l \in Logins : login[l].pc = "redeeming" =>
       /\ login[l].code \in Codes /\ code[login[l].code].made
       /\ code[login[l].code].uses < code[login[l].code].max
       /\ ~access[login[l].subject].granted
  /\ \A l, k \in Logins : l # k /\ login[l].pc = "redeeming" /\ login[k].pc = "redeeming"
       => login[l].code # login[k].code

\* create_google_session makes no account without its ledger row.
AccountsOK == \A s \in Subjects : account[s] # "NONE" => access[s].granted

SeatsOK ==
  /\ SeatsAccounted
  /\ \A c \in Codes : /\ IsFiniteSet(RedeemedBy(c))
                      /\ ~code[c].made => code[c].uses = 0

SessionsOK == SessionsWithinAccess /\ RevocationHolds

IInv == TypeOK /\ LocksOK /\ AccountsOK /\ SeatsOK /\ SessionsOK

-----------------------------------------------------------------------------
(* Instants and rows.                                                        *)

\* Never is the last instant; sums are cut off there.
LEMMA InstantsOK ==
  /\ Never \in Instants /\ Instants \subseteq Nat /\ \A t \in Instants : t <= Never
  /\ \A t, u \in Instants : Least(t, u) \in Instants /\ Least(t, u) <= t /\ Least(t, u) <= u
  /\ \A t \in Instants, n \in Nat : Later(t, n) \in Instants
BY AdmissionAssumption DEF Instants, Never, Least, Later

\* The rows written for want of one are rows.
LEMMA EmptyRowsOK ==
  /\ NoInvitation \in CodeRow /\ NoAccess \in AccessRow
  /\ NoSession \in SessionRow /\ NoSession.owner = NoSubject
  /\ NoLogin \in Login /\ NoLogin.pc = "idle"
<1>1. Never \in Instants /\ 0 \in Instants /\ Never \in 1 .. Never
  BY AdmissionAssumption DEF Instants, Never
<1> QED BY <1>1 DEF NoInvitation, NoAccess, NoSession, NoLogin, CodeRow, AccessRow, SessionRow, Login

\* A session that is there belongs to a subject.
LEMMA OwnerOK ==
  ASSUME TypeOK, NEW x \in Sessions
  PROVE  Present(x) <=> sess[x].owner \in Subjects
BY AdmissionAssumption DEF TypeOK, SessionRow, Present

-----------------------------------------------------------------------------
(* Steps that leave accounts, ledger and invitations alone.                  *)

\* Sessions end or are revoked, and nothing else happens to them.
Dwindle ==
  /\ sess' \in [Sessions -> SessionRow]
  /\ \A x \in Sessions : \/ sess'[x].owner = NoSubject
                         \/ /\ sess'[x].owner = sess[x].owner /\ sess'[x].exp = sess[x].exp
                            /\ sess[x].revoked => sess'[x].revoked

\* Logins start, go on to Google, or end.
Unlock ==
  /\ login' \in [Logins -> Login]
  /\ \A l \in Logins : login'[l] = login[l] \/ login'[l].pc \notin Holding

\* prune_auth_records removes sessions.
LEMMA PruneOK ==
  ASSUME TypeOK, NEW gone
  PROVE  /\ PrunedSessions(gone) \in [Sessions -> SessionRow]
         /\ \A x \in Sessions : PrunedSessions(gone)[x] = IF x \in gone THEN NoSession ELSE sess[x]
BY EmptyRowsOK DEF TypeOK, PrunedSessions

\* It removes login attempts that have run out, none of them inside a transaction.
LEMMA PruneLoginsOK ==
  ASSUME TypeOK, NEW old
  PROVE  /\ PrunedLogins(old) \in [Logins -> Login]
         /\ \A l \in Logins : PrunedLogins(old)[l] = IF l \in old THEN NoLogin ELSE login[l]
BY EmptyRowsOK DEF TypeOK, PrunedLogins

\* A step that is quiet: no account, ledger row, invitation or lock is new.
Quiet ==
  /\ Dwindle /\ Unlock /\ now' \in 0 .. MaxTime /\ now <= now' /\ erasing' \subseteq Subjects
  /\ UNCHANGED <<required, code, access, account>>

\* Quiet steps keep the invariant.
LEMMA QuietOK ==
  ASSUME IInv, Quiet
  PROVE  IInv'
<1>1. \A x \in Sessions : Present(x)' => /\ Present(x) /\ sess'[x].owner = sess[x].owner
                                         /\ sess'[x].exp = sess[x].exp
                                         /\ sess[x].revoked => sess'[x].revoked
  BY DEF Quiet, Dwindle, Present
<1>2. TypeOK'
  BY <1>1 DEF IInv, TypeOK, Quiet, Dwindle, Unlock
<1>3. LocksOK'
  BY DEF IInv, LocksOK, Quiet, Unlock, Holding
<1>4. AccountsOK' /\ SeatsOK'
  BY DEF Quiet, IInv, AccountsOK, SeatsOK, SeatsAccounted, RedeemedBy
<1>5. SessionsOK'
  BY <1>1 DEF Quiet, IInv, SessionsOK, SessionsWithinAccess, RevocationHolds
<1> QED BY <1>2, <1>3, <1>4, <1>5 DEF IInv

\* The cleanup, the steps of a login outside its transaction, logout and the revocation
\* of sessions, the authentication of an erasure and the clock.
Outside ==
  \/ \E gone \in SUBSET Sessions, old \in SUBSET Logins : Cleanup(gone, old)
  \/ \E l \in Logins :
       \/ ConsumeAttempt(l) \/ AbandonLogin(l)
       \/ \E gone \in SUBSET Sessions, old \in SUBSET Logins :
            Deny(l, gone, old) \/ \E c \in Codes \cup {NoCode} : StartLogin(l, c, gone, old)
  \/ \E x \in Sessions : RevokeSession(x) \/ AuthenticateErasure(x)
  \/ \E s \in Subjects : RevokeSessions(s)
  \/ Tick

\* They are quiet.
LEMMA OutsideIsQuiet == ASSUME IInv, Outside PROVE Quiet
<1>1. /\ sess \in [Sessions -> SessionRow] /\ login \in [Logins -> Login]
      /\ now \in 0 .. MaxTime /\ erasing \subseteq Subjects /\ TypeOK /\ now \in Instants
      /\ now <= now
  BY AdmissionAssumption DEF IInv, TypeOK, Instants, Never
<1>2. UNCHANGED <<required, code, access, account>>
  BY DEF Outside, Cleanup, StartLogin, Deny, ConsumeAttempt, AbandonLogin, RevokeSession, RevokeSessions,
         AuthenticateErasure, Tick
<1>3. ASSUME sess' = sess \/ \E gone : sess' = PrunedSessions(gone) PROVE Dwindle
  BY <1>1, <1>3, PruneOK, EmptyRowsOK DEF Dwindle
<1>4. ASSUME login' = login \/ \E old : login' = PrunedLogins(old) PROVE Unlock
  BY <1>1, <1>4, PruneLoginsOK, EmptyRowsOK DEF Unlock, Holding
<1>5. ASSUME NEW gone \in SUBSET Sessions, NEW old \in SUBSET Logins, Cleanup(gone, old)
      PROVE  Quiet
  BY <1>1, <1>2, <1>3, <1>4, <1>5 DEF Quiet, Cleanup
<1>6. ASSUME NEW l \in Logins, NEW c \in Codes \cup {NoCode},
             NEW gone \in SUBSET Sessions, NEW old \in SUBSET Logins,
             StartLogin(l, c, gone, old)
      PROVE  Quiet
  <2> DEFINE row == [NoLogin EXCEPT !.pc = "attempt", !.code = c, !.exp = Later(now, AttemptLife)]
  <2>1. row \in Login /\ row.pc = "attempt"
    <3>1. Later(now, AttemptLife) \in Instants
      BY <1>1, InstantsOK, AdmissionAssumption
    <3> QED BY <3>1, EmptyRowsOK DEF Login
  <2>2. login' = [PrunedLogins(old) EXCEPT ![l] = row]
    BY <1>6 DEF StartLogin
  <2> HIDE DEF row
  <2>3. Unlock
    BY <1>1, <2>1, <2>2, PruneLoginsOK, EmptyRowsOK DEF Unlock, Holding
  <2> QED BY <1>1, <1>2, <1>3, <1>6, <2>3 DEF Quiet, StartLogin
<1>7. ASSUME NEW l \in Logins, NEW gone \in SUBSET Sessions, NEW old \in SUBSET Logins,
             Deny(l, gone, old)
      PROVE  Quiet
  <2>1. Unlock
    BY <1>1, <1>7, PruneLoginsOK, EmptyRowsOK DEF Deny, Unlock, Holding
  <2> QED BY <1>1, <1>2, <1>3, <1>7, <2>1 DEF Quiet, Deny
<1>8. ASSUME NEW l \in Logins, ConsumeAttempt(l)
      PROVE  Quiet
  <2>1. login' \in [Logins -> Login]
    BY <1>1, <1>8 DEF ConsumeAttempt, Login
  <2>2. Unlock
    BY <1>1, <1>8, <2>1 DEF ConsumeAttempt, Unlock, Holding, Login
  <2> QED BY <1>1, <1>2, <1>3, <1>8, <2>2 DEF Quiet, ConsumeAttempt
<1>9. ASSUME NEW l \in Logins, AbandonLogin(l)
      PROVE  Quiet
  <2>1. Unlock
    BY <1>1, <1>9, EmptyRowsOK DEF AbandonLogin, Unlock, Holding
  <2> QED BY <1>1, <1>2, <1>3, <1>9, <2>1 DEF Quiet, AbandonLogin
<1>10. ASSUME NEW x \in Sessions, RevokeSession(x)
      PROVE  Quiet
  <2>1. Dwindle
    BY <1>1, <1>10 DEF RevokeSession, Dwindle, SessionRow
  <2> QED BY <1>1, <1>2, <1>4, <1>10, <2>1 DEF Quiet, RevokeSession
<1>11. ASSUME NEW s \in Subjects, RevokeSessions(s)
      PROVE  Quiet
  <2>1. Dwindle
    BY <1>1, <1>11 DEF RevokeSessions, Dwindle, SessionRow
  <2> QED BY <1>1, <1>2, <1>4, <1>11, <2>1 DEF Quiet, RevokeSessions
<1>12. ASSUME NEW x \in Sessions, AuthenticateErasure(x)
      PROVE  Quiet
  <2>1. erasing' \subseteq Subjects
    BY <1>1, <1>12, OwnerOK DEF AuthenticateErasure, Usable
  <2> QED BY <1>1, <1>2, <1>3, <1>4, <1>12, <2>1 DEF Quiet, AuthenticateErasure
<1>13. CASE Tick
  BY <1>1, <1>2, <1>3, <1>4, <1>13, AdmissionAssumption DEF Quiet, Tick
<1> QED BY <1>5, <1>6, <1>7, <1>8, <1>9, <1>10, <1>11, <1>12, <1>13 DEF Outside

-----------------------------------------------------------------------------
(* The transaction of create_google_session.                                 *)

\* lock_identity gives a login an identity no other login has.
LEMMA LockIdentityOK ==
  ASSUME IInv, NEW l \in Logins, NEW s \in Subjects, LockIdentity(l, s)
  PROVE  IInv'
<1> DEFINE row == [login[l] EXCEPT !.pc = "locked", !.subject = s]
<1>1. /\ login \in [Logins -> Login] /\ login' = [login EXCEPT ![l] = row]
      /\ UNCHANGED <<required, now, code, access, account, sess, erasing>>
  BY DEF IInv, TypeOK, LockIdentity
<1>2. row \in Login /\ row.pc = "locked" /\ row.subject = s /\ login[l].pc = "callback"
  BY <1>1 DEF Login, LockIdentity
<1> HIDE DEF row
<1>3. login' \in [Logins -> Login] /\ login'[l] = row /\ \A k \in Logins : k # l => login'[k] = login[k]
  BY <1>1, <1>2
<1>4. \A k \in Logins : login[k].pc \in Holding => login[k].subject # s
  BY DEF LockIdentity, IdentityLocked, Holding
<1>5. LocksOK'
  BY <1>1, <1>2, <1>3, <1>4 DEF IInv, LocksOK, Holding
<1>6. TypeOK'
  BY <1>1, <1>3 DEF IInv, TypeOK, Present
<1>7. AccountsOK' /\ SeatsOK' /\ SessionsOK'
  BY <1>1 DEF IInv, AccountsOK, SeatsOK, SeatsAccounted, RedeemedBy, SessionsOK, SessionsWithinAccess,
              RevocationHolds, Present
<1> QED BY <1>5, <1>6, <1>7 DEF IInv

\* The lock on the invitation keeps the seat the login has seen.
LEMMA RedeemOK ==
  ASSUME IInv, NEW l \in Logins, Redeem(l)
  PROVE  IInv'
<1> DEFINE row == [login[l] EXCEPT !.pc = "redeeming", !.at = now]
           c   == login[l].code
<1>1. /\ login \in [Logins -> Login] /\ login' = [login EXCEPT ![l] = row]
      /\ UNCHANGED <<required, now, code, access, account, sess, erasing>>
      /\ login[l].pc = "locked" /\ ~access[login[l].subject].granted
      /\ c # NoCode /\ code[c].uses < code[c].max /\ code[c].made
  BY DEF IInv, TypeOK, Redeem, Standing, Admitted, Redeemable
<1>n. now \in Instants
  BY AdmissionAssumption DEF IInv, TypeOK, Instants, Never
<1>2. row \in Login /\ row.pc = "redeeming" /\ row.subject = login[l].subject /\ row.code = c /\ c \in Codes
  BY <1>1, <1>n DEF Login
<1>3. \A k \in Logins : login[k].pc = "redeeming" => login[k].code # c
  BY DEF Redeem, CodeLocked
<1> HIDE DEF row, c
<1>4. login' \in [Logins -> Login] /\ login'[l] = row /\ \A k \in Logins : k # l => login'[k] = login[k]
  BY <1>1, <1>2
<1>5. LocksOK'
  BY <1>1, <1>2, <1>3, <1>4 DEF IInv, LocksOK, Holding
<1>6. TypeOK'
  BY <1>1, <1>4 DEF IInv, TypeOK, Present
<1>7. AccountsOK' /\ SeatsOK' /\ SessionsOK'
  BY <1>1 DEF IInv, AccountsOK, SeatsOK, SeatsAccounted, RedeemedBy, SessionsOK, SessionsWithinAccess,
              RevocationHolds, Present
<1> QED BY <1>5, <1>6, <1>7 DEF IInv

\* What a login that commits writes besides the invitation: an account, the ledger
\* row, a session capped at the access, and the end of the attempt.
Commits(l, x, row) ==
  LET s == login[l].subject IN
  /\ login[l].pc \in Holding /\ account[s] # "DEACTIVATED" /\ ~Present(x)
  /\ row \in AccessRow /\ row.granted
  /\ row = access[s] \/ ~access[s].granted
  /\ ~(required /\ row.revoked)
  /\ account' = [account EXCEPT ![s] = IF @ = "NONE" THEN "ACTIVE" ELSE @]
  /\ access' = [access EXCEPT ![s] = row]
  /\ Present(x)' /\ sess'[x].owner = s /\ sess'[x].exp <= row.exp
  /\ sess' \in [Sessions -> SessionRow]
  /\ \A y \in Sessions : y # x => sess'[y] = NoSession \/ sess'[y] = sess[y]
  /\ Unlock /\ login'[l].pc \notin Holding
  /\ UNCHANGED <<required, now, erasing>>

\* IssueSession with a proper ledger row commits.
LEMMA IssueCommits ==
  ASSUME IInv, NEW l \in Logins, NEW x \in Sessions, NEW row \in AccessRow,
         NEW gone, NEW old, IssueSession(l, x, row, gone, old),
         login[l].pc \in Holding, account[login[l].subject] # "DEACTIVATED", row.granted,
         row = access[login[l].subject] \/ ~access[login[l].subject].granted,
         ~(required /\ row.revoked)
  PROVE  Commits(l, x, row)
<1> DEFINE s   == login[l].subject
           new == [owner |-> s, exp |-> Least(Later(now, SessionLife), row.exp), revoked |-> FALSE]
<1>1. /\ TypeOK /\ s \in Subjects /\ now \in Instants /\ row.exp \in Instants
  BY AdmissionAssumption DEF IInv, LocksOK, TypeOK, Instants, Never, AccessRow
<1>2. new \in SessionRow /\ new.owner = s /\ new.exp <= row.exp
  <2>1. Later(now, SessionLife) \in Instants
    BY <1>1, InstantsOK, AdmissionAssumption
  <2> QED BY <1>1, <2>1, InstantsOK DEF SessionRow
<1>3. /\ account' = [account EXCEPT ![s] = IF @ = "NONE" THEN "ACTIVE" ELSE @]
      /\ access' = [access EXCEPT ![s] = row]
      /\ sess' = [PrunedSessions(gone) EXCEPT ![x] = new]
      /\ login' = [PrunedLogins(old) EXCEPT ![l] = NoLogin]
      /\ UNCHANGED <<required, now, erasing>> /\ ~Present(x)
  BY DEF IssueSession
<1> HIDE DEF new
<1>4. /\ sess' \in [Sessions -> SessionRow] /\ sess'[x] = new
      /\ \A y \in Sessions : y # x => sess'[y] = NoSession \/ sess'[y] = sess[y]
  BY <1>1, <1>2, <1>3, PruneOK
<1>5. Unlock /\ login'[l].pc \notin Holding
  BY <1>1, <1>3, PruneLoginsOK, EmptyRowsOK DEF Unlock, Holding
<1>6. Present(x)'
  BY <1>1, <1>2, <1>4, AdmissionAssumption DEF Present
<1> QED BY <1>2, <1>3, <1>4, <1>5, <1>6 DEF Commits

\* A commit leaves everyone else's transaction, account and sessions as they were.
LEMMA CommitOK ==
  ASSUME IInv, NEW l \in Logins, NEW x \in Sessions, NEW row, Commits(l, x, row),
         code' \in [Codes -> CodeRow],
         \A c \in Codes : \/ code'[c] = code[c]
                          \/ login[l].pc = "redeeming" /\ c = login[l].code
  PROVE  TypeOK' /\ LocksOK' /\ AccountsOK' /\ SessionsOK'
<1> DEFINE s == login[l].subject
<1>1. /\ TypeOK /\ s \in Subjects /\ account[s] # "DEACTIVATED" /\ ~Present(x)
      /\ row \in AccessRow /\ row.granted /\ (row = access[s] \/ ~access[s].granted)
      /\ ~(required /\ row.revoked) /\ login[l].pc \in Holding
  BY DEF IInv, LocksOK, Commits
<1>2. /\ account' \in [Subjects -> {"NONE", "ACTIVE", "DEACTIVATED"}] /\ account'[s] = "ACTIVE"
      /\ access' \in [Subjects -> AccessRow] /\ access'[s] = row
      /\ \A t \in Subjects : t # s => account'[t] = account[t] /\ access'[t] = access[t]
  BY <1>1 DEF Commits, TypeOK
<1>3. /\ sess' \in [Sessions -> SessionRow] /\ sess'[x].owner = s /\ sess'[x].exp <= row.exp
      /\ \A y \in Sessions : y # x => sess'[y] = NoSession \/ sess'[y] = sess[y]
      /\ Unlock /\ login'[l].pc \notin Holding /\ UNCHANGED <<required, now, erasing>>
  BY DEF Commits
<1>4. \A y \in Sessions : Present(y)' => /\ sess'[y].owner \in Subjects
                                         /\ y # x => Present(y) /\ sess'[y] = sess[y]
  BY <1>3, EmptyRowsOK DEF Present, SessionRow
<1>5. \A y \in Sessions : Present(y) /\ sess[y].owner = s => account[s] = "ACTIVE" /\ row = access[s]
  BY <1>1, <1>2 DEF IInv, TypeOK, AccountsOK
<1>6. TypeOK'
  <2>1. \A y \in Sessions : Present(y)' => account'[sess'[y].owner] # "NONE"
    BY <1>1, <1>2, <1>3, <1>4 DEF TypeOK
  <2> QED BY <1>1, <1>2, <1>3, <2>1 DEF TypeOK, Unlock
<1>7. LocksOK'
  <2>1. \A k \in Logins : login'[k].pc \in Holding =>
          /\ k # l /\ login'[k] = login[k] /\ login[k].subject \in Subjects /\ login[k].subject # s
    BY <1>1, <1>3 DEF Unlock, IInv, LocksOK
  <2>2. ASSUME NEW k \in Logins, login'[k].pc = "redeeming"
        PROVE  /\ login'[k].code \in Codes /\ code'[login'[k].code].made
               /\ code'[login'[k].code].uses < code'[login'[k].code].max
               /\ ~access'[login'[k].subject].granted
    <3>1. k # l /\ login'[k] = login[k] /\ login[k].subject \in Subjects \ {s}
      BY <2>1, <2>2 DEF Holding
    <3>2. login[k].code \in Codes /\ code'[login[k].code] = code[login[k].code]
      BY <2>2, <3>1 DEF IInv, LocksOK
    <3> QED BY <1>2, <2>2, <3>1, <3>2 DEF IInv, LocksOK
  <2> QED BY <2>1, <2>2 DEF IInv, LocksOK, Holding
<1>8. AccountsOK'
  BY <1>1, <1>2 DEF IInv, AccountsOK
<1>9. SessionsWithinAccess'
  <2> SUFFICES ASSUME NEW y \in Sessions, Present(y)' PROVE sess'[y].exp <= access'[sess'[y].owner].exp
    BY DEF SessionsWithinAccess
  <2>1. CASE y = x
    BY <1>2, <1>3, <2>1
  <2>2. CASE y # x
    <3>1. Present(y) /\ sess'[y] = sess[y] /\ sess[y].owner \in Subjects /\ sess[y].exp <= access[sess[y].owner].exp
      BY <1>4, <2>2 DEF IInv, SessionsOK, SessionsWithinAccess
    <3> QED BY <1>2, <1>5, <3>1
  <2> QED BY <2>1, <2>2
<1>10. RevocationHolds'
  <2> SUFFICES ASSUME NEW y \in Sessions, Present(y)',
                      \/ account'[sess'[y].owner] = "DEACTIVATED"
                      \/ required /\ access'[sess'[y].owner].revoked
               PROVE  sess'[y].revoked
    BY <1>3 DEF RevocationHolds
  <2>1. y # x
    BY <1>1, <1>2, <1>3
  <2>2. Present(y) /\ sess'[y] = sess[y] /\ sess[y].owner \in Subjects \ {s}
    BY <1>1, <1>2, <1>4, <2>1
  <2> QED BY <1>2, <2>2 DEF IInv, SessionsOK, RevocationHolds
<1> QED BY <1>6, <1>7, <1>8, <1>9, <1>10 DEF SessionsOK

\* Seats stay accounted while nobody comes in by a code and no count or limit moves.
LEMMA SeatsKept ==
  ASSUME SeatsOK, \A c \in Codes : /\ RedeemedBy(c)' = RedeemedBy(c)
                                   /\ code'[c].uses = code[c].uses /\ code[c].uses <= code'[c].max
                                   /\ code[c].made => code'[c].made
  PROVE  SeatsOK'
BY DEF SeatsOK, SeatsAccounted

\* An identity of the ledger comes back under the row it has.
LEMMA ReadmitOK ==
  ASSUME IInv, NEW l \in Logins, NEW x \in Sessions, NEW gone, NEW old, Readmit(l, x, gone, old)
  PROVE  IInv' /\ \E row : Commits(l, x, row)
<1> DEFINE s == login[l].subject
<1>1. /\ login[l].pc = "locked" /\ account[s] # "DEACTIVATED" /\ access[s].granted
      /\ IssueSession(l, x, access[s], gone, old) /\ code' = code
      /\ ~(required /\ access[s].revoked)
  BY DEF Readmit, Standing, Admitted, Admissible
<1>2. s \in Subjects /\ access[s] \in AccessRow /\ code' \in [Codes -> CodeRow]
  BY <1>1 DEF IInv, LocksOK, TypeOK, Holding
<1>3. Commits(l, x, access[s])
  BY <1>1, <1>2, IssueCommits DEF Holding
<1>4. TypeOK' /\ LocksOK' /\ AccountsOK' /\ SessionsOK'
  BY <1>1, <1>2, <1>3, CommitOK
<1>5. access' = access
  BY <1>2, <1>3 DEF Commits, IInv, TypeOK
<1>6. SeatsOK'
  BY <1>1, <1>5 DEF IInv, SeatsOK, SeatsAccounted, RedeemedBy
<1> QED BY <1>3, <1>4, <1>6 DEF IInv

\* A LEGACY identity takes no seat.
LEMMA AdmitLegacyOK ==
  ASSUME IInv, NEW l \in Logins, NEW x \in Sessions, NEW gone, NEW old, AdmitLegacy(l, x, gone, old)
  PROVE  IInv' /\ \E row : Commits(l, x, row)
<1> DEFINE s == login[l].subject
<1>1. PICK row \in AccessRow : /\ row = [NoAccess EXCEPT !.granted = TRUE]
                               /\ row.granted /\ row.code = NoCode /\ ~row.revoked
  <2> DEFINE new == [NoAccess EXCEPT !.granted = TRUE]
  <2>1. NoAccess \in AccessRow /\ NoAccess.code = NoCode /\ NoAccess.revoked = FALSE
    BY EmptyRowsOK DEF NoAccess
  <2>2. new \in AccessRow /\ new.granted = TRUE /\ new.code = NoAccess.code /\ new.revoked = NoAccess.revoked
    BY <2>1 DEF AccessRow
  <2>3. new \in AccessRow /\ new.granted /\ new.code = NoCode /\ ~new.revoked
    <3> HIDE DEF new
    <3> QED BY <2>1, <2>2
  <2> QED BY <2>3
<1>2. /\ login[l].pc = "locked" /\ account[s] # "DEACTIVATED" /\ ~access[s].granted
      /\ IssueSession(l, x, row, gone, old) /\ code' = code
  BY <1>1 DEF AdmitLegacy, Standing, Admitted
<1>3. s \in Subjects /\ code' \in [Codes -> CodeRow]
  BY <1>2 DEF IInv, LocksOK, TypeOK, Holding
<1>4. Commits(l, x, row)
  BY <1>1, <1>2, <1>3, IssueCommits DEF Holding
<1>5. TypeOK' /\ LocksOK' /\ AccountsOK' /\ SessionsOK'
  BY <1>2, <1>3, <1>4, CommitOK
<1>6. \A t \in Subjects : access'[t] = IF t = s THEN row ELSE access[t]
  BY <1>3, <1>4 DEF Commits, IInv, TypeOK
<1>7. \A c \in Codes : RedeemedBy(c)' = RedeemedBy(c)
  <2>1. NoCode \notin Codes
    BY AdmissionAssumption
  <2>2. ASSUME NEW c \in Codes, NEW t \in Subjects
        PROVE  (access'[t].granted /\ access'[t].code = c) <=> (access[t].granted /\ access[t].code = c)
    <3>1. CASE t = s
      BY <1>1, <1>2, <1>6, <2>1, <3>1
    <3>2. CASE t # s
      BY <1>6, <3>2
    <3> QED BY <3>1, <3>2
  <2> QED BY <2>2 DEF RedeemedBy
<1>8. SeatsOK'
  BY <1>2, <1>7 DEF IInv, SeatsOK, SeatsAccounted
<1> QED BY <1>4, <1>5, <1>8 DEF IInv

\* An invited identity takes one seat of its code, and there is one: the count goes up
\* by one as the set of identities the code let in grows by one.
LEMMA AdmitInvitedOK ==
  ASSUME IInv, NEW l \in Logins, NEW x \in Sessions, NEW gone, NEW old, AdmitInvited(l, x, gone, old)
  PROVE  IInv' /\ \E row : Commits(l, x, row)
<1>0. PICK s \in Subjects, c \in Codes : s = login[l].subject /\ c = login[l].code
  BY DEF AdmitInvited, IInv, LocksOK, Holding
<1>1. /\ login[l].pc = "redeeming" /\ ~access[s].granted
      /\ code \in [Codes -> CodeRow] /\ code[c].uses < code[c].max /\ code[c].made
      /\ code' = [code EXCEPT ![c].uses = @ + 1] /\ account[s] # "DEACTIVATED"
  BY <1>0 DEF AdmitInvited, IInv, LocksOK, TypeOK, AccountsOK
<1>2. PICK row \in AccessRow : /\ row.granted /\ row.code = c /\ ~row.revoked
                               /\ IssueSession(l, x, row, gone, old)
  <2> DEFINE new == [granted |-> TRUE, code |-> c, exp |-> Later(login[l].at, code[c].hours), revoked |-> FALSE]
  <2>1. login[l].at \in Instants /\ code[c].hours \in Nat
    BY <1>1, AdmissionAssumption DEF IInv, TypeOK, Login, CodeRow, Never
  <2>2. new \in AccessRow /\ new.granted /\ new.code = c /\ ~new.revoked
    BY <1>1, <2>1, InstantsOK DEF AccessRow
  <2>3. IssueSession(l, x, new, gone, old)
    BY <1>0 DEF AdmitInvited
  <2> QED BY <2>2, <2>3
<1>3. /\ code' \in [Codes -> CodeRow] /\ code'[c].uses = code[c].uses + 1
      /\ code'[c].max = code[c].max /\ code'[c].made
      /\ \A d \in Codes : d # c => code'[d] = code[d]
  BY <1>1 DEF CodeRow
<1>4. Commits(l, x, row)
  BY <1>1, <1>2, <1>0, IssueCommits DEF Holding
<1>5. TypeOK' /\ LocksOK' /\ AccountsOK' /\ SessionsOK'
  BY <1>1, <1>3, <1>4, <1>0, CommitOK
<1>6. \A t \in Subjects : access'[t] = IF t = s THEN row ELSE access[t]
  BY <1>0, <1>1, <1>4 DEF Commits, IInv, TypeOK
<1>7. RedeemedBy(c)' = RedeemedBy(c) \cup {s} /\ s \notin RedeemedBy(c)
  <2>1. \A t \in Subjects : access'[t].granted /\ access'[t].code = c
                            <=> t = s \/ (access[t].granted /\ access[t].code = c)
    BY <1>1, <1>2, <1>6
  <2> QED BY <1>1, <2>1 DEF RedeemedBy
<1>8. ASSUME NEW d \in Codes, d # c PROVE RedeemedBy(d)' = RedeemedBy(d)
  <2>1. \A t \in Subjects : access'[t].granted /\ access'[t].code = d <=> access[t].granted /\ access[t].code = d
    BY <1>1, <1>2, <1>6, <1>8
  <2> QED BY <2>1 DEF RedeemedBy
<1>9. IsFiniteSet(RedeemedBy(c)') /\ Cardinality(RedeemedBy(c)') = Cardinality(RedeemedBy(c)) + 1
  <2>1. IsFiniteSet(RedeemedBy(c))
    BY <1>1 DEF IInv, SeatsOK
  <2> QED BY <1>7, <2>1, FS_AddElement
<1>10. code[c].uses \in Nat /\ code[c].max \in Nat
  BY <1>1 DEF CodeRow
<1>11. SeatsOK'
  <2>1. code'[c].uses = Cardinality(RedeemedBy(c))' /\ code'[c].uses <= code'[c].max /\ code'[c].made
    BY <1>1, <1>3, <1>9, <1>10 DEF IInv, SeatsOK, SeatsAccounted
  <2>2. ASSUME NEW d \in Codes, d # c
        PROVE  /\ code'[d].uses = Cardinality(RedeemedBy(d))' /\ code'[d].uses <= code'[d].max
               /\ IsFiniteSet(RedeemedBy(d))' /\ (~code'[d].made => code'[d].uses = 0)
    BY <1>3, <1>8, <2>2 DEF IInv, SeatsOK, SeatsAccounted
  <2> QED BY <1>9, <2>1, <2>2 DEF SeatsOK, SeatsAccounted
<1> QED BY <1>4, <1>5, <1>11 DEF IInv

-----------------------------------------------------------------------------
(* Erasure and management.                                                   *)

\* delete_account takes the sessions with the account, and no transaction of a login
\* is under way for the identity.
LEMMA EraseAccountOK ==
  ASSUME IInv, NEW s \in Subjects, EraseAccount(s)
  PROVE  IInv' /\ \A x \in Sessions : Present(x)' => Present(x) /\ sess'[x] = sess[x] /\ sess[x].owner # s
<1>1. /\ TypeOK /\ account' = [account EXCEPT ![s] = "NONE"] /\ erasing' = erasing \ {s}
      /\ sess' = [x \in Sessions |-> IF x \in SessionsOf(s) THEN NoSession ELSE sess[x]]
      /\ UNCHANGED <<required, now, code, access, login>>
  BY DEF IInv, EraseAccount
<1>2. /\ sess' \in [Sessions -> SessionRow] /\ erasing' \subseteq Subjects
      /\ account' \in [Subjects -> {"NONE", "ACTIVE", "DEACTIVATED"}] /\ account'[s] = "NONE"
      /\ \A t \in Subjects : t # s => account'[t] = account[t]
  BY <1>1, EmptyRowsOK DEF TypeOK
<1>3. \A x \in Sessions : Present(x)' => /\ Present(x) /\ sess'[x] = sess[x]
                                         /\ sess[x].owner # s /\ sess[x].owner \in Subjects
  BY <1>1, EmptyRowsOK DEF Present, SessionsOf, TypeOK, SessionRow
<1>4. TypeOK'
  <2>1. \A x \in Sessions : Present(x)' => account'[sess'[x].owner] # "NONE"
    BY <1>1, <1>2, <1>3 DEF TypeOK
  <2> QED BY <1>1, <1>2, <2>1 DEF TypeOK
<1>5. LocksOK' /\ AccountsOK'
  BY <1>1, <1>2 DEF IInv, LocksOK, AccountsOK
<1>6. SeatsOK'
  BY <1>1 DEF IInv, SeatsOK, SeatsAccounted, RedeemedBy
<1>7. SessionsOK'
  BY <1>1, <1>2, <1>3 DEF IInv, SessionsOK, SessionsWithinAccess, RevocationHolds
<1> QED BY <1>3, <1>4, <1>5, <1>6, <1>7 DEF IInv

\* create, update and revoke of an invitation: no count moves, no limit falls below
\* its count, and a code somebody is redeeming is not touched.
LEMMA InvitationOK ==
  ASSUME IInv, NEW c \in Codes, NEW row \in CodeRow, code' = [code EXCEPT ![c] = row],
         ~CodeLocked(c), row.made, row.uses = code[c].uses, code[c].uses <= row.max,
         UNCHANGED <<required, now, access, account, sess, login, erasing>>
  PROVE  IInv'
<1>1. /\ code' \in [Codes -> CodeRow] /\ code'[c] = row
      /\ \A d \in Codes : d # c => code'[d] = code[d]
  BY DEF IInv, TypeOK
<1>2. TypeOK'
  BY <1>1 DEF IInv, TypeOK, Present
<1>3. LocksOK'
  BY <1>1 DEF IInv, LocksOK, CodeLocked
<1>4. SeatsOK'
  <2>1. \A d \in Codes : RedeemedBy(d)' = RedeemedBy(d)
    BY DEF RedeemedBy
  <2> QED BY <1>1, <2>1, SeatsKept DEF IInv, SeatsOK, SeatsAccounted
<1>5. AccountsOK' /\ SessionsOK'
  BY DEF IInv, AccountsOK, SessionsOK, SessionsWithinAccess, RevocationHolds, Present
<1> QED BY <1>2, <1>3, <1>4, <1>5 DEF IInv

\* Creating and updating an invitation are of that kind ...
LEMMA ManageInvitationOK ==
  ASSUME IInv, NEW c \in Codes, NEW exp \in Deadlines, NEW hours \in Hours, NEW max \in Limits,
         CreateInvitation(c, exp, hours, max) \/ UpdateInvitation(c, exp, hours, max)
  PROVE  IInv'
<1>1. /\ code \in [Codes -> CodeRow] /\ code[c] \in CodeRow /\ code[c].uses \in Nat /\ code[c].max \in Nat
      /\ code[c].uses <= code[c].max
  BY DEF IInv, TypeOK, CodeRow, SeatsOK, SeatsAccounted
<1>2. exp \in Instants /\ hours \in 1 .. Never /\ max \in Nat \ {0}
  BY AdmissionAssumption DEF Instants
<1>3. CASE UpdateInvitation(c, exp, hours, max)
  <2> DEFINE row == [code[c] EXCEPT !.exp = exp, !.hours = hours, !.max = max]
  <2>1. row \in CodeRow /\ row.made = code[c].made /\ row.uses = code[c].uses /\ row.max = max
    BY <1>1, <1>2 DEF CodeRow
  <2>2. code' = [code EXCEPT ![c] = row]
    BY <1>1, <1>3 DEF UpdateInvitation
  <2> HIDE DEF row
  <2> QED BY <1>3, <2>1, <2>2, InvitationOK DEF UpdateInvitation
<1>4. CASE CreateInvitation(c, exp, hours, max)
  <2> DEFINE row == [NoInvitation EXCEPT !.made = TRUE, !.exp = exp, !.hours = hours, !.max = max]
  <2>1. NoInvitation \in CodeRow /\ NoInvitation.uses = 0
    BY EmptyRowsOK DEF NoInvitation
  <2>2. row \in CodeRow /\ row.made /\ row.uses = 0 /\ row.max = max
    BY <1>2, <2>1 DEF CodeRow
  <2>3. code' = [code EXCEPT ![c] = row]
    BY <1>4 DEF CreateInvitation
  <2> HIDE DEF row
  <2>4. code[c].uses = 0 /\ ~CodeLocked(c) /\ 0 <= max
    BY <1>2, <1>4 DEF CreateInvitation, IInv, SeatsOK, LocksOK, CodeLocked
  <2> QED BY <1>2, <1>4, <2>2, <2>3, <2>4, InvitationOK DEF CreateInvitation
<1> QED BY <1>3, <1>4

\* ... and so is revoking one.
LEMMA RevokeInvitationOK ==
  ASSUME IInv, NEW c \in Codes, RevokeInvitation(c)
  PROVE  IInv'
<1> DEFINE row == [code[c] EXCEPT !.revoked = TRUE]
<1>1. code[c] \in CodeRow /\ code[c].uses <= code[c].max
  BY DEF IInv, TypeOK, SeatsOK, SeatsAccounted
<1>2. row \in CodeRow /\ row.made = code[c].made /\ row.uses = code[c].uses /\ row.max = code[c].max
  BY <1>1 DEF CodeRow
<1>3. code' = [code EXCEPT ![c] = row]
  BY DEF RevokeInvitation
<1> HIDE DEF row
<1> QED BY <1>1, <1>2, <1>3, InvitationOK DEF RevokeInvitation

\* What update_user leaves of the sessions: nobody else's change, and those of s end no
\* later than before, nor than the access that is left.
LEMMA CurtailedOK ==
  ASSUME TypeOK, NEW s \in Subjects, NEW fields, NEW status, NEW exp \in Instants
  PROVE  /\ Curtailed(s, fields, status, exp) \in [Sessions -> SessionRow]
         /\ \A x \in Sessions :
              LET y == Curtailed(s, fields, status, exp)[x] IN
              /\ y.owner = sess[x].owner
              /\ sess[x].owner # s => y = sess[x]
              /\ y.exp <= sess[x].exp /\ ("expiry" \notin fields => y.exp = sess[x].exp)
              /\ sess[x].revoked => y.revoked
              /\ sess[x].owner = s =>
                   /\ "expiry" \in fields => y.exp <= exp
                   /\ "status" \in fields /\ status = "DEACTIVATED" => y.revoked
<1> DEFINE y(x) == [sess[x] EXCEPT !.exp = IF "expiry" \in fields THEN Least(@, exp) ELSE @,
                                   !.revoked = @ \/ ("status" \in fields /\ status = "DEACTIVATED")]
<1>1. ASSUME NEW x \in Sessions
      PROVE  /\ sess[x] \in SessionRow /\ y(x) \in SessionRow /\ y(x).owner = sess[x].owner
             /\ y(x).exp <= sess[x].exp /\ ("expiry" \notin fields => y(x).exp = sess[x].exp)
             /\ sess[x].revoked => y(x).revoked
             /\ "expiry" \in fields => y(x).exp <= exp
             /\ "status" \in fields /\ status = "DEACTIVATED" => y(x).revoked
             /\ sess[x].exp <= sess[x].exp
  <2>1. sess[x] \in SessionRow /\ sess[x].exp \in Instants /\ sess[x].revoked \in BOOLEAN
    BY DEF TypeOK, SessionRow
  <2>2. /\ Least(sess[x].exp, exp) \in Instants /\ Least(sess[x].exp, exp) <= exp
        /\ Least(sess[x].exp, exp) <= sess[x].exp
    BY <2>1, InstantsOK
  <2>3. sess[x].exp <= sess[x].exp
    <3>1. sess[x].exp \in Nat
      BY <2>1, InstantsOK
    <3> QED BY <3>1
  <2>4. y(x).exp = (IF "expiry" \in fields THEN Least(sess[x].exp, exp) ELSE sess[x].exp) /\ y(x).owner = sess[x].owner
        /\ y(x).revoked = (sess[x].revoked \/ ("status" \in fields /\ status = "DEACTIVATED"))
    BY <2>1 DEF SessionRow
  <2>5. y(x) \in SessionRow
    BY <2>1, <2>2 DEF SessionRow
  <2> HIDE DEF y
  <2> QED BY <2>1, <2>2, <2>3, <2>4, <2>5
<1>2. Curtailed(s, fields, status, exp) = [x \in Sessions |-> IF x \notin SessionsOf(s) THEN sess[x] ELSE y(x)]
  BY DEF Curtailed
<1> HIDE DEF y
<1> QED BY <1>1, <1>2 DEF SessionsOf

\* What update_user does, seen from the ledger and the sessions.
UserUpdated(s, fields, status, exp) ==
  /\ exp \in Instants /\ account[s] # "NONE" /\ access[s].granted /\ ~IdentityLocked(s)
  /\ account' \in [Subjects -> {"NONE", "ACTIVE", "DEACTIVATED"}]
  /\ account'[s] = IF "status" \in fields THEN status ELSE account[s]
  /\ access' \in [Subjects -> AccessRow]
  /\ access'[s].granted /\ access'[s].code = access[s].code
  /\ access'[s].revoked = (IF "status" \in fields THEN status = "DEACTIVATED" ELSE access[s].revoked)
  /\ access'[s].exp = IF "expiry" \in fields THEN exp ELSE access[s].exp
  /\ \A t \in Subjects : t # s => account'[t] = account[t] /\ access'[t] = access[t]
  /\ sess' = Curtailed(s, fields, status, exp)
  /\ UNCHANGED <<required, now, code, login, erasing>>

\* update_user does it.
LEMMA UpdateUserSteps ==
  ASSUME IInv, NEW s \in Subjects, NEW fields \in SUBSET {"status", "expiry"},
         NEW status \in {"ACTIVE", "DEACTIVATED"}, NEW exp \in Deadlines,
         UpdateUser(s, fields, status, exp)
  PROVE  UserUpdated(s, fields, status, exp)
<1> DEFINE row == [access[s] EXCEPT !.revoked = IF "status" \in fields THEN status = "DEACTIVATED" ELSE @,
                                    !.exp = IF "expiry" \in fields THEN exp ELSE @]
<1>1. /\ account[s] # "NONE" /\ access[s].granted /\ ~IdentityLocked(s)
      /\ account' = [account EXCEPT ![s] = IF "status" \in fields THEN status ELSE @]
      /\ sess' = Curtailed(s, fields, status, exp)
      /\ UNCHANGED <<required, now, code, login, erasing>>
  BY DEF UpdateUser
<1>2. exp \in Instants /\ access \in [Subjects -> AccessRow] /\ access[s] \in AccessRow
      /\ account \in [Subjects -> {"NONE", "ACTIVE", "DEACTIVATED"}]
  BY AdmissionAssumption DEF Instants, IInv, TypeOK
<1>3. access' = [access EXCEPT ![s] = row]
  BY <1>2 DEF UpdateUser, AccessRow
<1>4. /\ row \in AccessRow /\ row.granted = access[s].granted /\ row.code = access[s].code
      /\ row.revoked = (IF "status" \in fields THEN status = "DEACTIVATED" ELSE access[s].revoked)
      /\ row.exp = IF "expiry" \in fields THEN exp ELSE access[s].exp
  BY <1>2 DEF AccessRow
<1> HIDE DEF row
<1>5. /\ access' \in [Subjects -> AccessRow] /\ access'[s] = row
      /\ \A t \in Subjects : t # s => access'[t] = access[t]
  BY <1>2, <1>3, <1>4
<1>6. /\ account' \in [Subjects -> {"NONE", "ACTIVE", "DEACTIVATED"}]
      /\ account'[s] = IF "status" \in fields THEN status ELSE account[s]
      /\ \A t \in Subjects : t # s => account'[t] = account[t]
  BY <1>1, <1>2
<1> QED BY <1>1, <1>2, <1>4, <1>5, <1>6 DEF UserUpdated

\* update_user keeps the invariant: it waits for the login of the identity, and gives
\* no session more than the access that is left.
LEMMA UpdateUserOK ==
  ASSUME IInv, NEW s \in Subjects, NEW fields \in SUBSET {"status", "expiry"},
         NEW status \in {"ACTIVE", "DEACTIVATED"}, NEW exp \in Deadlines,
         UpdateUser(s, fields, status, exp)
  PROVE  IInv'
<1> DEFINE new == Curtailed(s, fields, status, exp)
<1>0. UserUpdated(s, fields, status, exp)
  BY UpdateUserSteps
<1>1. /\ exp \in Instants /\ account[s] # "NONE" /\ access[s].granted
      /\ \A l \in Logins : login[l].pc \in Holding => login[l].subject # s
  BY <1>0 DEF UserUpdated, IdentityLocked, Holding
<1>2. /\ account' \in [Subjects -> {"NONE", "ACTIVE", "DEACTIVATED"}]
      /\ account'[s] = IF "status" \in fields THEN status ELSE account[s]
      /\ access' \in [Subjects -> AccessRow] /\ access'[s].granted /\ access'[s].code = access[s].code
      /\ access'[s].revoked = (IF "status" \in fields THEN status = "DEACTIVATED" ELSE access[s].revoked)
      /\ access'[s].exp = IF "expiry" \in fields THEN exp ELSE access[s].exp
      /\ \A t \in Subjects : t # s => account'[t] = account[t] /\ access'[t] = access[t]
      /\ sess' = new /\ UNCHANGED <<required, now, code, login, erasing>>
  BY <1>0 DEF UserUpdated
<1>3. /\ new \in [Sessions -> SessionRow]
      /\ \A x \in Sessions :
           /\ new[x].owner = sess[x].owner
           /\ sess[x].owner # s => new[x] = sess[x]
           /\ new[x].exp <= sess[x].exp /\ ("expiry" \notin fields => new[x].exp = sess[x].exp)
           /\ sess[x].revoked => new[x].revoked
           /\ sess[x].owner = s =>
                /\ "expiry" \in fields => new[x].exp <= exp
                /\ "status" \in fields /\ status = "DEACTIVATED" => new[x].revoked
  BY <1>1, CurtailedOK DEF IInv
<1> HIDE DEF new
<1>4. \A x \in Sessions : Present(x)' => Present(x) /\ sess[x].owner \in Subjects
  BY <1>2, <1>3, AdmissionAssumption DEF Present, IInv, TypeOK, SessionRow
<1>5. TypeOK'
  <2>1. \A x \in Sessions : Present(x)' => account'[sess'[x].owner] # "NONE"
    BY <1>1, <1>2, <1>3, <1>4 DEF IInv, TypeOK
  <2> QED BY <1>2, <1>3, <2>1 DEF IInv, TypeOK
<1>6. LocksOK'
  <2>1. \A l \in Logins : login[l].pc = "redeeming" => access'[login[l].subject] = access[login[l].subject]
    BY <1>1, <1>2 DEF IInv, LocksOK, Holding
  <2> QED BY <1>2, <2>1 DEF IInv, LocksOK
<1>7. AccountsOK' /\ SeatsOK'
  <2>1. \A t \in Subjects : access'[t].granted = access[t].granted /\ access'[t].code = access[t].code
    BY <1>1, <1>2 DEF IInv, TypeOK, AccessRow
  <2>2. \A c \in Codes : RedeemedBy(c)' = RedeemedBy(c)
    BY <2>1 DEF RedeemedBy
  <2>3. AccountsOK'
    BY <1>1, <1>2, <2>1 DEF IInv, AccountsOK
  <2> QED BY <1>2, <2>2, <2>3 DEF IInv, SeatsOK, SeatsAccounted
<1>8. SessionsWithinAccess'
  <2> SUFFICES ASSUME NEW x \in Sessions, Present(x)' PROVE new[x].exp <= access'[new[x].owner].exp
    BY <1>2 DEF SessionsWithinAccess
  <2>1. Present(x) /\ sess[x].owner \in Subjects /\ sess[x].exp <= access[sess[x].owner].exp
    BY <1>4 DEF IInv, SessionsOK, SessionsWithinAccess
  <2> QED BY <1>2, <1>3, <2>1
<1>9. RevocationHolds'
  <2> SUFFICES ASSUME NEW x \in Sessions, Present(x)',
                      \/ account'[new[x].owner] = "DEACTIVATED"
                      \/ required /\ access'[new[x].owner].revoked
               PROVE  new[x].revoked
    BY <1>2 DEF RevocationHolds
  <2>1. Present(x) /\ sess[x].owner \in Subjects /\ new[x].owner = sess[x].owner
    BY <1>3, <1>4
  <2>2. account[sess[x].owner] = "DEACTIVATED" \/ (required /\ access[sess[x].owner].revoked) => sess[x].revoked
    BY <2>1 DEF IInv, SessionsOK, RevocationHolds
  <2>3. CASE sess[x].owner # s
    BY <1>2, <1>3, <2>1, <2>2, <2>3
  <2>4. CASE sess[x].owner = s /\ "status" \in fields
    BY <1>2, <1>3, <2>1, <2>4
  <2>5. CASE sess[x].owner = s /\ "status" \notin fields
    BY <1>2, <1>3, <2>1, <2>2, <2>5
  <2> QED BY <2>3, <2>4, <2>5
<1> QED BY <1>5, <1>6, <1>7, <1>8, <1>9 DEF IInv, SessionsOK

-----------------------------------------------------------------------------
(* The invariant of the whole.                                               *)

\* A service nobody has used yet.
LEMMA InitOK == Init => IInv
<1> SUFFICES ASSUME Init PROVE IInv
  OBVIOUS
<1>1. TypeOK
  BY EmptyRowsOK, AdmissionAssumption DEF Init, TypeOK, Present
<1>2. LocksOK /\ AccountsOK
  BY EmptyRowsOK DEF Init, LocksOK, AccountsOK, Holding
<1>3. SeatsOK
  <2>1. \A c \in Codes : RedeemedBy(c) = {} /\ code[c].uses = 0 /\ code[c].max = 1
    BY DEF Init, RedeemedBy, NoAccess, NoInvitation
  <2> QED BY <2>1, FS_EmptySet DEF SeatsOK, SeatsAccounted
<1>4. SessionsOK
  BY EmptyRowsOK DEF Init, SessionsOK, SessionsWithinAccess, RevocationHolds, Present
<1> QED BY <1>1, <1>2, <1>3, <1>4 DEF IInv

\* A commit of a login, with the ledger row it writes.
Committing ==
  \E l \in Logins, x \in Sessions, gone \in SUBSET Sessions, old \in SUBSET Logins :
    Readmit(l, x, gone, old) \/ AdmitLegacy(l, x, gone, old) \/ AdmitInvited(l, x, gone, old)

\* The kinds of steps there are.
LEMMA Kinds ==
  ASSUME Next
  PROVE  \/ Outside \/ Committing
         \/ \E l \in Logins : Redeem(l) \/ \E s \in Subjects : LockIdentity(l, s)
         \/ \E s \in Subjects : EraseAccount(s)
         \/ \E c \in Codes :
              \/ RevokeInvitation(c)
              \/ \E exp \in Deadlines, hours \in Hours, max \in Limits :
                   CreateInvitation(c, exp, hours, max) \/ UpdateInvitation(c, exp, hours, max)
         \/ \E s \in Subjects, fields \in SUBSET {"status", "expiry"},
               status \in {"ACTIVE", "DEACTIVATED"}, exp \in Deadlines : UpdateUser(s, fields, status, exp)
<1>1. CASE \E l \in Logins : LoginStep(l)
  BY <1>1 DEF LoginStep, Outside, Committing
<1>2. CASE Manage
  BY <1>2 DEF Manage, Outside
<1> QED BY <1>1, <1>2 DEF Next, Outside

\* Every action keeps the invariant.
LEMMA NextOK == IInv /\ [Next]_vars => IInv'
<1> SUFFICES ASSUME IInv, [Next]_vars PROVE IInv'
  OBVIOUS
<1>1. CASE Outside
  BY <1>1, OutsideIsQuiet, QuietOK
<1>2. CASE Committing
  BY <1>2, ReadmitOK, AdmitLegacyOK, AdmitInvitedOK DEF Committing
<1>3. CASE \E c \in Codes : RevokeInvitation(c)
  BY <1>3, RevokeInvitationOK
<1>4. CASE UNCHANGED vars
  <2>1. Quiet
    BY <1>4 DEF vars, Quiet, Dwindle, Unlock, IInv, TypeOK
  <2> QED BY <2>1, QuietOK
<1> QED BY <1>1, <1>2, <1>3, <1>4, Kinds, RedeemOK, LockIdentityOK, EraseAccountOK, ManageInvitationOK,
           UpdateUserOK

-----------------------------------------------------------------------------
(* The theorems.                                                             *)

\* The inductive invariant holds throughout.
THEOREM Invariance == Spec => []IInv
<1>1. Init => IInv
  BY InitOK
<1>2. IInv /\ [Next]_vars => IInv'
  BY NextOK
<1> QED BY <1>1, <1>2, PTL DEF Spec

\* Every row has its columns and the foreign keys hold.
THEOREM TypeCorrect == Spec => []TypeOK
<1>1. IInv => TypeOK
  BY DEF IInv
<1> QED BY <1>1, Invariance, PTL

\* create_google_session under its locks: a code's count is the number of identities
\* it admitted, and never passes its limit.
THEOREM SeatsAreAccounted == Spec => []SeatsAccounted
<1>1. IInv => SeatsAccounted
  BY DEF IInv, SeatsOK
<1> QED BY <1>1, Invariance, PTL

\* update_user and create_google_session: no session outlives the access of its subject.
THEOREM SessionsStayWithinAccess == Spec => []SessionsWithinAccess
<1>1. IInv => SessionsWithinAccess
  BY DEF IInv, SessionsOK
<1> QED BY <1>1, Invariance, PTL

\* update_user, and a return after erasure: who is suspended has no live session.
THEOREM RevocationAlwaysHolds == Spec => []RevocationHolds
<1>1. IInv => RevocationHolds
  BY DEF IInv, SessionsOK
<1> QED BY <1>1, Invariance, PTL

\* The checks of resolve_session on the account and on the ledger refuse nobody whose
\* session is live: whatever ends an access has ended its sessions.
LEMMA UsableIsLive ==
  ASSUME IInv, NEW x \in Sessions, Present(x)
  PROVE  Usable(x) <=> sess[x].exp > now /\ ~sess[x].revoked
<1>1. PICK s \in Subjects : s = sess[x].owner
  BY OwnerOK DEF IInv
<1>2. /\ access[s].granted /\ account[s] \in {"ACTIVE", "DEACTIVATED"}
      /\ account[s] = "DEACTIVATED" \/ (required /\ access[s].revoked) => sess[x].revoked
      /\ sess[x].exp <= access[s].exp
  BY <1>1 DEF IInv, TypeOK, AccountsOK, SessionsOK, SessionsWithinAccess, RevocationHolds
<1>3. sess[x].exp \in Nat /\ access[s].exp \in Nat /\ now \in Nat
  <2>1. sess[x].exp \in Instants /\ access[s].exp \in Instants /\ now \in Nat
    BY DEF IInv, TypeOK, SessionRow, AccessRow
  <2> QED BY <2>1, InstantsOK
<1>4. sess[x].exp > now => access[s].exp > now
  BY <1>2, <1>3
<1> QED BY <1>1, <1>2, <1>4 DEF Usable, AccessAllowed

\* A step gives no session back its life: one that stays gets no more time than it
\* had, and keeps its revocation.
Fading ==
  /\ now <= now' /\ required' = required
  /\ \A x \in Sessions : Present(x) /\ Present(x)' =>
       sess'[x].exp <= sess[x].exp /\ (sess[x].revoked => sess'[x].revoked)

\* Every step is of that kind: a login issues a new row, never an old one again.
LEMMA StepsFade == ASSUME IInv, [Next]_vars PROVE Fading
<1>1. now <= now /\ \A x \in Sessions : sess[x].exp <= sess[x].exp
  <2>1. \A x \in Sessions : sess[x].exp \in Nat
    BY InstantsOK DEF IInv, TypeOK, SessionRow
  <2>2. now \in Nat
    BY DEF IInv, TypeOK
  <2> QED BY <2>1, <2>2
<1>2. CASE UNCHANGED <<required, now, sess>>
  BY <1>1, <1>2 DEF Fading
<1>3. CASE Outside
  <2>1. Quiet
    BY <1>3, OutsideIsQuiet
  <2>2. \A x \in Sessions : Present(x)' => sess'[x].exp = sess[x].exp /\ (sess[x].revoked => sess'[x].revoked)
    BY <2>1 DEF Quiet, Dwindle, Present
  <2> QED BY <1>1, <2>1, <2>2 DEF Fading, Quiet
<1>4. CASE Committing
  <2>0. PICK l \in Logins, x \in Sessions : \E row : Commits(l, x, row)
    BY <1>4, ReadmitOK, AdmitLegacyOK, AdmitInvitedOK DEF Committing
  <2>1. PICK row : Commits(l, x, row)
    BY <2>0
  <2>2. \A y \in Sessions : Present(y) /\ Present(y)' => sess'[y] = sess[y]
    BY <2>1, EmptyRowsOK DEF Commits, Present
  <2> QED BY <1>1, <2>1, <2>2 DEF Fading, Commits
<1>5. ASSUME NEW s \in Subjects, EraseAccount(s) PROVE Fading
  <2>1. \A x \in Sessions : Present(x)' => sess'[x] = sess[x]
    BY <1>5, EraseAccountOK
  <2> QED BY <1>1, <1>5, <2>1 DEF Fading, EraseAccount
<1>6. ASSUME NEW s \in Subjects, NEW fields \in SUBSET {"status", "expiry"},
             NEW status \in {"ACTIVE", "DEACTIVATED"}, NEW exp \in Deadlines,
             UpdateUser(s, fields, status, exp)
      PROVE  Fading
  <2>1. exp \in Instants /\ sess' = Curtailed(s, fields, status, exp) /\ UNCHANGED <<required, now>>
    <3>1. exp \in Instants
      BY AdmissionAssumption DEF Instants
    <3> QED BY <1>6, <3>1 DEF UpdateUser
  <2>2. \A x \in Sessions : sess'[x].exp <= sess[x].exp /\ (sess[x].revoked => sess'[x].revoked)
    BY <2>1, CurtailedOK DEF IInv
  <2> QED BY <1>1, <2>1, <2>2 DEF Fading
<1>7. ASSUME NEW l \in Logins, Redeem(l) \/ \E s \in Subjects : LockIdentity(l, s) PROVE Fading
  BY <1>2, <1>7 DEF Redeem, LockIdentity
<1>8. ASSUME NEW c \in Codes,
             \/ RevokeInvitation(c)
             \/ \E exp \in Deadlines, hours \in Hours, max \in Limits :
                  CreateInvitation(c, exp, hours, max) \/ UpdateInvitation(c, exp, hours, max)
      PROVE  Fading
  BY <1>2, <1>8 DEF RevokeInvitation, CreateInvitation, UpdateInvitation
<1>9. CASE UNCHANGED vars
  BY <1>2, <1>9 DEF vars
<1> QED BY <1>3, <1>4, <1>5, <1>6, <1>7, <1>8, <1>9, Kinds

\* update_user: "Extending access never revives an expired/revoked session", and no
\* other operation does.
THEOREM NobodyIsRevived == Spec => NoRevival
<1>1. ASSUME IInv, [Next]_vars
      PROVE  \A x \in Sessions : Present(x) /\ ~Usable(x) => ~Usable(x)'
  <2>1. IInv' /\ Fading
    BY <1>1, NextOK, StepsFade
  <2>2. SUFFICES ASSUME NEW x \in Sessions, Present(x), Usable(x)' PROVE Usable(x)
    OBVIOUS
  <2>3. Present(x)' /\ sess'[x].exp > now' /\ ~sess'[x].revoked
    BY <2>2 DEF Usable
  <2>4. sess[x].exp \in Nat /\ now \in Nat
    <3>1. sess[x].exp \in Instants /\ now \in Nat
      BY <1>1 DEF IInv, TypeOK, SessionRow
    <3> QED BY <3>1, InstantsOK
  <2>5. sess'[x].exp \in Nat /\ now' \in Nat
    <3>1. sess'[x].exp \in Instants /\ now' \in Nat
      BY <2>1 DEF IInv, TypeOK, SessionRow
    <3> QED BY <3>1, InstantsOK
  <2>6. now <= now' /\ sess'[x].exp <= sess[x].exp /\ ~sess[x].revoked
    BY <2>1, <2>2, <2>3 DEF Fading
  <2>7. sess[x].exp > now
    BY <2>3, <2>4, <2>5, <2>6
  <2> QED BY <1>1, <2>2, <2>6, <2>7, UsableIsLive
<1> QED BY <1>1, Invariance, PTL DEF Spec, NoRevival

\* What an update of an account, an erasure or a login may do to the ledger.
Kept(s) ==
  access[s].granted =>
    /\ access'[s].granted /\ access'[s].code = access[s].code
    /\ (account[s] = "NONE" \/ account'[s] = "NONE") => access'[s] = access[s]

\* No step takes a subject's ledger row or its invitation, and the row's window and its
\* revocation move only with the account there.
LEMMA StepsKeepLedger == ASSUME IInv, [Next]_vars PROVE \A s \in Subjects : Kept(s)
<1>1. CASE UNCHANGED access
  BY <1>1 DEF Kept
<1>2. CASE Outside
  BY <1>1, <1>2, OutsideIsQuiet DEF Quiet
<1>3. CASE Committing
  <2>0. PICK l \in Logins, x \in Sessions : \E row : Commits(l, x, row)
    BY <1>3, ReadmitOK, AdmitLegacyOK, AdmitInvitedOK DEF Committing
  <2>1. PICK row : Commits(l, x, row)
    BY <2>0
  <2>2. \A s \in Subjects : access'[s] = access[s] \/ ~access[s].granted
    BY <2>1 DEF Commits, IInv, TypeOK
  <2> QED BY <2>2 DEF Kept
<1>4. ASSUME NEW s \in Subjects, EraseAccount(s) PROVE UNCHANGED access
  BY <1>4 DEF EraseAccount
<1>5. ASSUME NEW s \in Subjects, NEW fields \in SUBSET {"status", "expiry"},
             NEW status \in {"ACTIVE", "DEACTIVATED"}, NEW exp \in Deadlines,
             UpdateUser(s, fields, status, exp)
      PROVE  \A t \in Subjects : Kept(t)
  <2>1. /\ account[s] # "NONE" /\ access'[s].granted /\ access'[s].code = access[s].code
        /\ \A t \in Subjects : t # s => access'[t] = access[t]
    <3>1. UserUpdated(s, fields, status, exp)
      BY <1>5, UpdateUserSteps
    <3> QED BY <3>1 DEF UserUpdated
  <2>2. account'[s] # "NONE"
    BY <1>5, <2>1 DEF UpdateUser, IInv, TypeOK
  <2> QED BY <2>1, <2>2 DEF Kept
<1>6. ASSUME NEW l \in Logins, Redeem(l) \/ \E s \in Subjects : LockIdentity(l, s) PROVE UNCHANGED access
  BY <1>6 DEF Redeem, LockIdentity
<1>7. ASSUME NEW c \in Codes,
             \/ RevokeInvitation(c)
             \/ \E exp \in Deadlines, hours \in Hours, max \in Limits :
                  CreateInvitation(c, exp, hours, max) \/ UpdateInvitation(c, exp, hours, max)
      PROVE  UNCHANGED access
  BY <1>7 DEF RevokeInvitation, CreateInvitation, UpdateInvitation
<1>8. CASE UNCHANGED vars
  BY <1>1, <1>8 DEF vars
<1> QED BY <1>1, <1>2, <1>3, <1>4, <1>5, <1>6, <1>7, <1>8, Kinds

\* delete_account and a return after it: the ledger row stays as it was, with the
\* invitation that was redeemed, so a trial neither restarts nor ends a revocation.
THEOREM LedgerAlwaysSurvives == Spec => LedgerSurvives
<1>1. ASSUME IInv, [Next]_vars
      PROVE  \A s \in Subjects : access[s].granted =>
               /\ access'[s].granted /\ access'[s].code = access[s].code
               /\ (account[s] = "NONE" \/ account'[s] = "NONE") => access'[s] = access[s]
  BY <1>1, StepsKeepLedger DEF Kept
<1> QED BY <1>1, Invariance, PTL DEF Spec, LedgerSurvives
=============================================================================
