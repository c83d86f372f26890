-------------------------- MODULE RecomputeLedger --------------------------
(***************************************************************************)
(* What the recompute pipeline promises, without outbox, leases, clocks,   *)
(* budgets or workers: a ledger of recompute requests.  A request is       *)
(* opened once, for the profile version its account has at that moment; it *)
(* is answered at most once, with a result or a failure, and an answer is  *)
(* final; erasing removes requests for good; and the account's pointer to  *)
(* its latest result moves only to a result for the current version.       *)
(***************************************************************************)
EXTENDS Naturals

CONSTANTS Users, Requests, NoRequest, FirstVersion

VARIABLES status,   \* status[r]: NONE, OPEN, READY, FAILED or DELETED
          of,       \* of[r]: the account the request belongs to
          at,       \* at[r]: the profile version it was opened for
          version,  \* version[u]: the account's profile version
          latest    \* latest[u]: the request whose result is shown, or NoRequest

vars == <<status, of, at, version, latest>>

Init ==
  /\ status = [r \in Requests |-> "NONE"]
  /\ version = [u \in Users |-> FirstVersion]
  /\ latest = [u \in Users |-> NoRequest]
  /\ of \in [Requests -> Users] /\ at \in [Requests -> {FirstVersion}]

\* The requests in D disappear; S answers what is still there.
Erased(D) == [r \in Requests |-> IF r \in D THEN "DELETED" ELSE status[r]]

\* Nothing new is recorded, or request r is, for account u at version v.
Record(st, u, v) ==
  \/ status' = st /\ UNCHANGED <<of, at>>
  \/ \E r \in Requests, s \in {"OPEN", "FAILED"} :
       /\ st[r] = "NONE"
       /\ status' = [st EXCEPT ![r] = s]
       /\ of' = [of EXCEPT ![r] = u]
       /\ at' = [at EXCEPT ![r] = v]

\* An edit: the version moves on by one, some requests of the account may be
\* erased with a goal, and the new version may get a request.
Edit(u) ==
  /\ version' = [version EXCEPT ![u] = @ + 1]
  /\ \E D \in SUBSET {r \in Requests : status[r] # "NONE" /\ of[r] = u} :
       /\ Record(Erased(D), u, version[u] + 1)
       /\ latest' = [latest EXCEPT ![u] = IF @ \in D THEN NoRequest ELSE @]

\* A submission at the current version.
Submit(u) == Record(status, u, version[u]) /\ UNCHANGED <<version, latest>>

\* A result arrives; it is shown only if no edit came in between.
Publish(r) ==
  /\ status[r] = "OPEN"
  /\ status' = [status EXCEPT ![r] = "READY"]
  /\ latest' = IF at[r] = version[of[r]] THEN [latest EXCEPT ![of[r]] = r] ELSE latest
  /\ UNCHANGED <<of, at, version>>

\* Some open requests are given up.
GiveUp(S) ==
  /\ \A r \in S : status[r] = "OPEN"
  /\ status' = [r \in Requests |-> IF r \in S THEN "FAILED" ELSE status[r]]
  /\ UNCHANGED <<of, at, version, latest>>

\* The account goes, with all it owns.
EraseAccount(u) ==
  /\ status' = Erased({r \in Requests : status[r] # "NONE" /\ of[r] = u})
  /\ latest' = [latest EXCEPT ![u] = NoRequest]
  /\ UNCHANGED <<of, at, version>>

Next ==
  \/ \E u \in Users : Edit(u) \/ Submit(u) \/ EraseAccount(u)
  \/ \E r \in Requests : Publish(r)
  \/ \E S \in SUBSET Requests : GiveUp(S)

Spec == Init /\ [][Next]_vars
=============================================================================
