----------------------------- MODULE Recompute -----------------------------
(***************************************************************************)
(* The recompute pipeline: every edit of a profile, a goal or a capability *)
(* bumps the account's profile version and enqueues a recompute request;   *)
(* a transactional outbox hands the request to one of several workers      *)
(* under a lease; the worker settles it.  Goals and accounts are erased    *)
(* while all of this is under way.                                         *)
(*                                                                         *)
(* One action is one database transaction: the transactions that touch the *)
(* same account or the same outbox row serialize on row locks.  What the   *)
(* code does outside a transaction, or in several, is several actions.     *)
(*                                                                         *)
(* Time is relative: lease and wait count down with Tick.  A lease is      *)
(* valid while lease > 0 (lease_until > now), can be reclaimed once        *)
(* lease < 0 (lease_until < now), and at lease = 0 it is neither.          *)
(***************************************************************************)
EXTENDS Integers, FiniteSets

CONSTANTS Users, Goals, Owner,          \* Owner[g]: the account a goal id belongs to
          Occupations, Stamps,          \* Stamps: reference day and corpus release of a context
          Workers, Tokens,              \* lease tokens, 1 .. n
          NoGoal, NoOcc, NoRequest,
          LeaseFor, DeferFor,           \* RECOMPUTE_LEASE_FOR and the busy deferral, in ticks
          WindowTicks,                  \* length of a budget window, in ticks
          ExecutionLimit, RequestLimit, \* reservations per account and window
          MaxRequests, MaxVersion       \* bounds of the model

ASSUME RecomputeAssumption ==
  /\ Owner \in [Goals -> Users] /\ Users # {} /\ Stamps # {}
  /\ NoGoal \notin Goals /\ NoOcc \notin Occupations
  /\ NoRequest \notin Nat
  /\ Tokens \subseteq Nat \ {0}
  /\ LeaseFor \in Nat \ {0} /\ DeferFor \in Nat \ {0} /\ WindowTicks \in Nat \ {0}
  /\ ExecutionLimit \in Nat \ {0} /\ RequestLimit \in Nat \ {0}
  /\ MaxRequests \in Nat /\ MaxVersion \in Nat \ {0}

VARIABLES
  users,     \* users[u]: the account row, ACTIVE or ERASED
  version,   \* profiles.version
  latest,    \* profiles.latest_analysis_id, named by the request it answers
  goal,      \* goal[g]: status, mode and occupation
  req,       \* recompute_requests joined with recompute_contexts, by creation order
  seq,       \* number of requests ever created
  analysis,  \* analysis[r]: goal of the analysis stored for request r, or NoGoal
  job,       \* outbox_jobs rows of kind RECOMPUTE, keyed by their request
  work,      \* work[w]: the work item a worker holds in memory
  client,    \* client[u]: an analysis submission between its reads and its write
  spent,     \* account_rate_limits: reservations in the current window
  phase      \* clock position inside the budget window

vars == <<users, version, latest, goal, req, seq, analysis, job, work, client, spent, phase>>

Requests == 1 .. MaxRequests
Versions == 1 .. MaxVersion

Settled  == {"READY", "FAILED"}
Open     == {"PENDING", "RUNNING"}
Stored   == Open \cup Settled

GoalRow == [status: {"NONE", "DRAFT", "ACTIVE", "ARCHIVED", "DELETED"},
            mode: {"TARGETED", "DISCOVERY"}, occ: Occupations \cup {NoOcc}]

\* What a goal aims at: GoalUpdateRequest wants an occupation of a TARGETED goal.
Targets == {[mode |-> "TARGETED", occ |-> o] : o \in Occupations}
             \cup {[mode |-> "DISCOVERY", occ |-> o] : o \in Occupations \cup {NoOcc}}
GoalAs(status, t) == [status |-> status, mode |-> t.mode, occ |-> t.occ]
NoTarget == [mode |-> "DISCOVERY", occ |-> NoOcc]

RequestRow ==
  [state: Stored \cup {"NONE", "DELETED"}, user: Users, ver: Versions,
   goal: Goals \cup {NoGoal},          \* context goal_id; NoGoal: there is no context
   occ: Occupations \cup {NoOcc},      \* pinned snapshot_selection.occupation_id
   seen: 0 .. MaxVersion,              \* profile version the capability inputs were read at
   stamp: Stamps, event: Goals \cup {NoGoal}]  \* goal the trigger event names

JobRow == [state: {"NONE", "READY", "LEASED", "COMPLETED"}, token: Tokens \cup {0},
           lease: -1 .. LeaseFor, wait: 0 .. (DeferFor + WindowTicks)]

WorkItem == [pc: {"idle", "claimed", "loaded"}, req: Requests \cup {NoRequest},
             token: Tokens \cup {0}, goal: Goals \cup {NoGoal}]

Submission == [pc: {"idle", "version", "goal", "inputs"}, ver: 0 .. MaxVersion,
               goal: Goals \cup {NoGoal}, occ: Occupations \cup {NoOcc},
               seen: 0 .. MaxVersion]

Scopes == {"request", "compute"}
Limit(scope) == IF scope = "request" THEN RequestLimit ELSE ExecutionLimit

NoJob    == [state |-> "NONE", token |-> 0, lease |-> 0, wait |-> 0]
ReadyJob(n) == [state |-> "READY", token |-> 0, lease |-> 0, wait |-> n]
DoneJob  == [state |-> "COMPLETED", token |-> 0, lease |-> 0, wait |-> 0]
Holds(pc, r, t, g) == [pc |-> pc, req |-> r, token |-> t, goal |-> g]
Idle     == Holds("idle", NoRequest, 0, NoGoal)
Has(pc, v, g, occ, seen) == [pc |-> pc, ver |-> v, goal |-> g, occ |-> occ, seen |-> seen]
NoClient == Has("idle", 0, NoGoal, NoOcc, 0)

-----------------------------------------------------------------------------
(* Enqueueing.  Each operator takes the request and job rows the transaction *)
(* has produced so far and fixes req', job' and seq'.                        *)

\* OutboxRepository._persist_recompute_request: a request with a context is
\* PENDING and gets its outbox job, one without is FAILED and gets none.
PersistRequest(rows, jobs, row) ==
  LET r == seq + 1 IN
  /\ r \in Requests
  /\ seq' = r
  /\ req' = [rows EXCEPT ![r] = row]
  /\ job' = IF row.state = "PENDING"
            THEN [jobs EXCEPT ![r] = ReadyJob(0)]
            ELSE jobs

MissingContext(u, v, e) ==
  [state |-> "FAILED", user |-> u, ver |-> v, goal |-> NoGoal, occ |-> NoOcc, seen |-> 0,
   stamp |-> CHOOSE s \in Stamps : TRUE, event |-> e]

WithContext(u, v, g, occ, seen, s, e) ==
  [state |-> "PENDING", user |-> u, ver |-> v, goal |-> g, occ |-> occ, seen |-> seen,
   stamp |-> s, event |-> e]

\* The requests whose context enqueue_for_goal may carry forward ...
Carriable(rows, u, g, v) ==
  {r \in Requests : /\ rows[r].state \in {"PENDING", "RUNNING", "READY"}
                    /\ rows[r].user = u /\ rows[r].ver < v /\ rows[r].goal = g}

\* ... of which it takes the one with the highest version, the newest of those.
IsLatest(rows, r, S) ==
  /\ r \in S
  /\ \A q \in S : rows[q].ver < rows[r].ver \/ (rows[q].ver = rows[r].ver /\ q <= r)

\* ConfiguredRecomputeRepository.enqueue_for_goal.  Rebuilding the context may
\* still fail (the target date passed, no calendar slot is left).
EnqueueForGoal(rows, jobs, u, v, g, row, e) ==
  LET S == Carriable(rows, u, g, v) IN
  \/ PersistRequest(rows, jobs, MissingContext(u, v, e))
  \/ /\ row.status = "ACTIVE" /\ row.occ # NoOcc
     /\ \E r \in S, s \in Stamps :
          /\ IsLatest(rows, r, S)
          /\ rows[r].occ = row.occ
          /\ PersistRequest(rows, jobs, WithContext(u, v, g, row.occ, v, s, e))

ActiveGoals(goals, u) == {g \in Goals : Owner[g] = u /\ goals[g].status = "ACTIVE"}

\* ConfiguredRecomputeRepository.enqueue_for_active_user: exactly one ACTIVE goal.
EnqueueForActiveUser(rows, jobs, goals, u, v, e) ==
  LET A == ActiveGoals(goals, u) IN
  IF Cardinality(A) = 1
  THEN \E g \in A : EnqueueForGoal(rows, jobs, u, v, g, goals[g], e)
  ELSE PersistRequest(rows, jobs, MissingContext(u, v, e))

-----------------------------------------------------------------------------
(* User operations.  A stale expected_profile_version changes nothing, so    *)
(* each action is the call whose expected version is the current one.        *)

Bump(u) ==
  /\ users[u] = "ACTIVE"
  /\ version[u] < MaxVersion
  /\ version' = [version EXCEPT ![u] = @ + 1]

\* mutate_profile, mutate_capability, replace_onboarding_capabilities,
\* delete_capability and set_route_preferences differ only in what they store.
EditProfile(u) ==
  /\ Bump(u)
  /\ EnqueueForActiveUser(req, job, goal, u, version[u] + 1, NoGoal)
  /\ UNCHANGED <<users, latest, goal, analysis, work, client, spent, phase>>

\* Mutant: editing a goal that is not ACTIVE enqueues nothing.
MutateGoalQuietly(u, g, status, t) ==
  /\ Owner[g] = u /\ goal[g].status # "DELETED"
  /\ status = "ACTIVE" => ActiveGoals(goal, u) \ {g} = {}
  /\ Bump(u)
  /\ goal' = [goal EXCEPT ![g] = GoalAs(status, t)]
  /\ IF status = "ACTIVE"
     THEN EnqueueForGoal(req, job, u, version[u] + 1, g, GoalAs(status, t), g)
     ELSE UNCHANGED <<req, job, seq>>
  /\ UNCHANGED <<users, latest, analysis, work, client, spent, phase>>

\* mutate_goal: creates g (status NONE) or updates it.
MutateGoal(u, g, status, t) ==
  /\ Owner[g] = u /\ goal[g].status # "DELETED"
  /\ status = "ACTIVE" => ActiveGoals(goal, u) \ {g} = {}
  /\ Bump(u)
  /\ goal' = [goal EXCEPT ![g] = GoalAs(status, t)]
  /\ IF status = "ACTIVE"
     THEN EnqueueForGoal(req, job, u, version[u] + 1, g, GoalAs(status, t), g)
     ELSE EnqueueForActiveUser(req, job, goal', u, version[u] + 1, g)
  /\ UNCHANGED <<users, latest, analysis, work, client, spent, phase>>

\* Mutant: only requests that already have a result are removed with the goal.
AnsweredRequestsOfGoal(u, g) ==
  {r \in Requests : req[r].state \in Stored /\ req[r].user = u /\ analysis[r] = g}

\* The requests delete_goal removes: those whose result or context belongs to the
\* goal, and those without a context whose trigger event names it.
RequestsOfGoal(u, g) ==
  {r \in Requests : /\ req[r].state \in Stored /\ req[r].user = u
                    /\ \/ analysis[r] = g
                       \/ req[r].goal = g
                       \/ req[r].goal = NoGoal /\ req[r].event = g}

Without(rows, S) == [r \in Requests |-> IF r \in S THEN [rows[r] EXCEPT !.state = "DELETED"] ELSE rows[r]]
JobsWithout(jobs, S) == [r \in Requests |-> IF r \in S THEN NoJob ELSE jobs[r]]

\* Mutant: the profile keeps pointing at a deleted analysis.
DeleteGoalKeepsPointer(u, g) ==
  LET S     == RequestsOfGoal(u, g)
      goals == [goal EXCEPT ![g] = GoalAs("DELETED", NoTarget)]
      A     == ActiveGoals(goals, u)
  IN
  /\ Owner[g] = u /\ goal[g].status \notin {"NONE", "DELETED"}
  /\ Bump(u)
  /\ goal' = goals
  /\ analysis' = [r \in Requests |-> IF analysis[r] = g THEN NoGoal ELSE analysis[r]]
  /\ IF A = {} THEN req' = Without(req, S) /\ job' = JobsWithout(job, S) /\ seq' = seq
     ELSE \E a \in A : EnqueueForGoal(Without(req, S), JobsWithout(job, S), u, version[u] + 1, a, goals[a], g)
  /\ UNCHANGED <<users, latest, work, client, spent, phase>>

\* GoalDeletionRepository.delete_goal.  Only a remaining ACTIVE goal is enqueued.
DeleteGoal(u, g) ==
  LET S     == RequestsOfGoal(u, g)
      rows  == Without(req, S)
      jobs  == JobsWithout(job, S)
      gone  == {r \in Requests : analysis[r] = g}
      goals == [goal EXCEPT ![g] = GoalAs("DELETED", NoTarget)]
      A     == ActiveGoals(goals, u)
  IN
  /\ Owner[g] = u /\ goal[g].status \notin {"NONE", "DELETED"}
  /\ Bump(u)
  /\ goal' = goals
  /\ analysis' = [r \in Requests |-> IF r \in gone THEN NoGoal ELSE analysis[r]]
  /\ latest' = [latest EXCEPT ![u] = IF @ \in gone THEN NoRequest ELSE @]
  /\ IF A = {} THEN req' = rows /\ job' = jobs /\ seq' = seq
     ELSE \E a \in A : EnqueueForGoal(rows, jobs, u, version[u] + 1, a, goals[a], g)
  /\ UNCHANGED <<users, work, client, spent, phase>>

\* PostgresAccountService.delete_account.
DeleteAccount(u) ==
  LET S == {r \in Requests : req[r].state \in Stored /\ req[r].user = u} IN
  /\ users[u] = "ACTIVE"
  /\ users' = [users EXCEPT ![u] = "ERASED"]
  /\ req' = Without(req, S)
  /\ job' = JobsWithout(job, S)
  /\ analysis' = [r \in Requests |-> IF req[r].user = u THEN NoGoal ELSE analysis[r]]
  /\ latest' = [latest EXCEPT ![u] = NoRequest]
  /\ goal' = [g \in Goals |-> IF Owner[g] = u
                              THEN GoalAs("DELETED", NoTarget) ELSE goal[g]]
  /\ spent' = [spent EXCEPT ![u] = [s \in Scopes |-> 0]]
  /\ UNCHANGED <<version, seq, work, client, phase>>

-----------------------------------------------------------------------------
(* Submitting an analysis.  The context is read without locks, one statement *)
(* at a time; only the final write locks the profile and rechecks.           *)

\* load_context_inputs: the version must be the expected one.
ReadVersion(u, g) ==
  /\ client[u].pc = "idle" /\ users[u] = "ACTIVE"
  /\ client' = [client EXCEPT ![u] = Has("version", version[u], g, NoOcc, 0)]
  /\ UNCHANGED <<users, version, latest, goal, req, seq, analysis, job, work, spent, phase>>

\* The goal must be the caller's, ACTIVE and TARGETED, or the call ends here.
ReadGoal(u) ==
  LET c == client[u]
      g == c.goal IN
  /\ c.pc = "version"
  /\ client' = [client EXCEPT ![u] =
       IF Owner[g] = u /\ goal[g].status = "ACTIVE" /\ goal[g].mode = "TARGETED"
       THEN Has("goal", c.ver, g, goal[g].occ, 0)
       ELSE NoClient]
  /\ UNCHANGED <<users, version, latest, goal, req, seq, analysis, job, work, spent, phase>>

\* Preferences and capabilities, as they are at the current version.
ReadInputs(u) ==
  LET c == client[u] IN
  /\ c.pc = "goal"
  /\ client' = [client EXCEPT ![u] =
       IF users[u] = "ACTIVE" THEN Has("inputs", c.ver, c.goal, c.occ, version[u]) ELSE NoClient]
  /\ UNCHANGED <<users, version, latest, goal, req, seq, analysis, job, work, spent, phase>>

\* submit_analysis_recompute_in_session: the same inputs at the same version are
\* answered by the request already there, unless it is READY and a refresh is asked.
Reusable(c, u, s, refresh) ==
  {r \in Requests : /\ req[r].state \in {"PENDING", "RUNNING", "READY"}
                    /\ req[r].user = u /\ req[r].ver = c.ver /\ req[r].goal = c.goal
                    /\ req[r].occ = c.occ /\ req[r].stamp = s
                    /\ ~(req[r].state = "READY" /\ refresh)}

Submits(u) == client[u].pc = "inputs"

\* Mutant: the reservation does not compare the counter with the limit.
AffordsAlways(u, scope) == TRUE

\* reserve_budget: the account's counter has room left in the current window.
Affords(u, scope) == spent[u][scope] < Limit(scope)

Spend(u, scope) == spent' = [spent EXCEPT ![u][scope] = @ + 1]

\* Mutant: the submission does not recheck the profile version.
SubmitUnchecked(u, s, refresh) ==
  LET c == client[u] IN
  /\ Submits(u)
  /\ users[u] = "ACTIVE"
  /\ Owner[c.goal] = u /\ goal[c.goal].status # "DELETED"
  /\ Reusable(c, u, s, refresh) = {}
  /\ Affords(u, "request") /\ Spend(u, "request")
  /\ PersistRequest(req, job, WithContext(u, c.ver, c.goal, c.occ, c.seen, s, c.goal))
  /\ client' = [client EXCEPT ![u] = NoClient]
  /\ UNCHANGED <<users, version, latest, goal, analysis, work, phase>>

SubmitAccepted(u, s, refresh) ==
  LET c == client[u] IN
  /\ Submits(u)
  /\ users[u] = "ACTIVE" /\ version[u] = c.ver
  /\ Owner[c.goal] = u /\ goal[c.goal].status # "DELETED"
  /\ Reusable(c, u, s, refresh) = {}
  /\ Affords(u, "request") /\ Spend(u, "request")
  /\ PersistRequest(req, job, WithContext(u, c.ver, c.goal, c.occ, c.seen, s, c.goal))
  /\ client' = [client EXCEPT ![u] = NoClient]
  /\ UNCHANGED <<users, version, latest, goal, analysis, work, phase>>

\* A version conflict, a missing goal, a reused request or a spent budget.
SubmitAnswered(u, s, refresh) ==
  LET c == client[u] IN
  /\ Submits(u)
  /\ \/ users[u] # "ACTIVE" \/ version[u] # c.ver
     \/ Owner[c.goal] # u \/ goal[c.goal].status = "DELETED"
     \/ Reusable(c, u, s, refresh) # {}
     \/ ~Affords(u, "request")
  /\ client' = [client EXCEPT ![u] = NoClient]
  /\ UNCHANGED <<users, version, latest, goal, req, seq, analysis, job, work, spent, phase>>

-----------------------------------------------------------------------------
(* Claiming: claim_recompute_work with limit 1, the limit of both workers.   *)

\* Mutant: an expired lease is never taken over.
ClaimableOnce(r) ==
  req[r].state \in Open /\ job[r].state = "READY" /\ job[r].wait = 0

Claimable(r) ==
  /\ req[r].state \in Open
  /\ \/ job[r].state = "READY" /\ job[r].wait = 0
     \/ job[r].state = "LEASED" /\ job[r].lease < 0

\* Work for a profile version that is no longer current, not under a lease.
Stale   == {r \in Requests : Claimable(r) /\ req[r].ver < version[req[r].user]}
Current == {r \in Requests : Claimable(r) /\ req[r].ver = version[req[r].user]}

\* Mutant: retiring stale work completes the jobs and forgets the requests.
UnretiredRows == req

\* The claim first settles all stale work as FAILED, in the same transaction.
RetiredRows == [r \in Requests |-> IF r \in Stale THEN [req[r] EXCEPT !.state = "FAILED"] ELSE req[r]]
RetiredJobs == [r \in Requests |-> IF r \in Stale THEN DoneJob ELSE job[r]]

\* Mutant: the claim does not look for another run of the account.
BusyIgnored(r) == FALSE

\* Another request of the account is running under a valid lease.
Busy(r) ==
  \E q \in Requests \ {r} : /\ req[q].user = req[r].user /\ req[q].state = "RUNNING"
                            /\ job[q].state = "LEASED" /\ job[q].lease > 0

\* Mutant: a reclaimed job may keep the token of its earlier lease.
ReusedTokens(r) == Tokens

\* uuid4: a token no worker still holds for this job.
FreshTokens(r) == {t \in Tokens : \A w \in Workers : ~(work[w].req = r /\ work[w].token = t)}

RetireStale(w) ==
  /\ work[w].pc = "idle" /\ Stale # {} /\ Current = {}
  /\ req' = RetiredRows /\ job' = RetiredJobs
  /\ UNCHANGED <<users, version, latest, goal, seq, analysis, work, client, spent, phase>>

\* The claimed job goes back to READY, available again after n ticks.
Defer(r, n) ==
  /\ req' = RetiredRows
  /\ job' = [RetiredJobs EXCEPT ![r] = ReadyJob(n)]
  /\ UNCHANGED <<users, version, latest, goal, seq, analysis, work, client, spent, phase>>

ClaimBusy(w, r) ==
  /\ work[w].pc = "idle" /\ r \in Current /\ Busy(r)
  /\ Defer(r, DeferFor)

\* reserve_execution fails: retry when the budget window ends.
ClaimOverBudget(w, r) ==
  /\ work[w].pc = "idle" /\ r \in Current /\ ~Busy(r)
  /\ ~Affords(req[r].user, "compute")
  /\ Defer(r, WindowTicks - phase)

ClaimLease(w, r) ==
  /\ work[w].pc = "idle" /\ r \in Current /\ ~Busy(r)
  /\ Affords(req[r].user, "compute") /\ Spend(req[r].user, "compute")
  /\ \E t \in FreshTokens(r) :
       /\ \A t2 \in FreshTokens(r) : t <= t2
       /\ job' = [RetiredJobs EXCEPT ![r] =
                    [state |-> "LEASED", token |-> t, lease |-> LeaseFor, wait |-> 0]]
       /\ work' = [work EXCEPT ![w] = Holds("claimed", r, t, NoGoal)]
  /\ req' = [RetiredRows EXCEPT ![r].state = "RUNNING"]
  /\ UNCHANGED <<users, version, latest, goal, seq, analysis, client, phase>>

-----------------------------------------------------------------------------
(* Processing: load the context, solve, settle.                              *)

\* The worker's lease is the job's current one and has not run out.
HoldsLease(w) ==
  LET r == work[w].req IN
  /\ job[r].state = "LEASED" /\ job[r].token = work[w].token /\ job[r].lease > 0

Release(w) == work' = [work EXCEPT ![w] = Idle]

\* load_recompute_context.
LoadContext(w) ==
  LET r == work[w].req IN
  /\ work[w].pc = "claimed"
  /\ IF HoldsLease(w) /\ req[r].state = "RUNNING"
     THEN work' = [work EXCEPT ![w] = Holds("loaded", r, work[w].token, req[r].goal)]
     ELSE Release(w)
  /\ UNCHANGED <<users, version, latest, goal, req, seq, analysis, job, client, spent, phase>>

\* What finalize_recompute and fail_recompute check before they write anything.
MaySettle(w) ==
  LET r == work[w].req IN
  users[req[r].user] = "ACTIVE" /\ HoldsLease(w) /\ req[r].state = "RUNNING"

\* Mutant: the pointer moves whatever version the result is for.
FinalizeAlwaysLatest(w) ==
  LET r == work[w].req IN
  /\ work[w].pc = "loaded" /\ MaySettle(w)
  /\ analysis' = [analysis EXCEPT ![r] = work[w].goal]
  /\ req' = [req EXCEPT ![r].state = "READY"]
  /\ latest' = [latest EXCEPT ![req[r].user] = r]
  /\ job' = [job EXCEPT ![r] = DoneJob]
  /\ Release(w)
  /\ UNCHANGED <<users, version, goal, seq, client, spent, phase>>

\* Mutant: a pointer that is set already stays.
FinalizeKeepsPointer(w) ==
  LET r == work[w].req
      u == req[r].user IN
  /\ work[w].pc = "loaded" /\ MaySettle(w)
  /\ Owner[work[w].goal] = u /\ goal[work[w].goal].status # "DELETED"
  /\ analysis' = [analysis EXCEPT ![r] = work[w].goal]
  /\ req' = [req EXCEPT ![r].state = "READY"]
  /\ latest' = IF version[u] = req[r].ver /\ latest[u] = NoRequest
               THEN [latest EXCEPT ![u] = r] ELSE latest
  /\ job' = [job EXCEPT ![r] = DoneJob]
  /\ Release(w)
  /\ UNCHANGED <<users, version, goal, seq, client, spent, phase>>

\* finalize_recompute with the analysis of the goal the context named.  Only a
\* result for the current profile version becomes the latest analysis.
FinalizeRecompute(w) ==
  LET r == work[w].req
      u == req[r].user
      g == work[w].goal IN
  /\ work[w].pc = "loaded" /\ MaySettle(w)
  /\ Owner[g] = u /\ goal[g].status # "DELETED"
  /\ analysis' = [analysis EXCEPT ![r] = g]
  /\ req' = [req EXCEPT ![r].state = "READY"]
  /\ latest' = IF version[u] = req[r].ver THEN [latest EXCEPT ![u] = r] ELSE latest
  /\ job' = [job EXCEPT ![r] = DoneJob]
  /\ Release(w)
  /\ UNCHANGED <<users, version, goal, seq, client, spent, phase>>

\* fail_recompute after an error of the snapshot, the inputs or the solver.
FailRecompute(w) ==
  LET r == work[w].req IN
  /\ work[w].pc = "loaded" /\ MaySettle(w)
  /\ req' = [req EXCEPT ![r].state = "FAILED"]
  /\ job' = [job EXCEPT ![r] = DoneJob]
  /\ Release(w)
  /\ UNCHANGED <<users, version, latest, goal, seq, analysis, client, spent, phase>>

\* The lease was lost, expired or erased: nothing is recorded.
SettleRejected(w) ==
  /\ work[w].pc = "loaded" /\ ~MaySettle(w)
  /\ Release(w)
  /\ UNCHANGED <<users, version, latest, goal, req, seq, analysis, job, client, spent, phase>>

\* The process dies, or an exception process_once does not handle (a goal that is
\* gone, for one) ends the cycle: the job stays leased until the lease runs out.
Crash(w) ==
  /\ work[w].pc # "idle"
  /\ Release(w)
  /\ UNCHANGED <<users, version, latest, goal, req, seq, analysis, job, client, spent, phase>>

-----------------------------------------------------------------------------

Down(n, floor) == IF n > floor THEN n - 1 ELSE floor

\* A job one tick later.
Aged(j) == [state |-> j.state, token |-> j.token,
            lease |-> IF j.state = "LEASED" THEN Down(j.lease, -1) ELSE j.lease,
            wait |-> Down(j.wait, 0)]

\* The database clock moves on; at the end of a window all counters start anew.
Tick ==
  /\ job' = [r \in Requests |-> Aged(job[r])]
  /\ phase' = IF phase + 1 = WindowTicks THEN 0 ELSE phase + 1
  /\ spent' = IF phase' = 0 THEN [u \in Users |-> [s \in Scopes |-> 0]] ELSE spent
  /\ UNCHANGED <<users, version, latest, goal, req, seq, analysis, work, client>>

Init ==
  /\ users = [u \in Users |-> "ACTIVE"]
  /\ version = [u \in Users |-> 1]
  /\ latest = [u \in Users |-> NoRequest]
  /\ goal = [g \in Goals |-> GoalAs("NONE", NoTarget)]
  /\ req = [r \in Requests |->
              [MissingContext(CHOOSE u \in Users : TRUE, 1, NoGoal) EXCEPT !.state = "NONE"]]
  /\ seq = 0
  /\ analysis = [r \in Requests |-> NoGoal]
  /\ job = [r \in Requests |-> NoJob]
  /\ work = [w \in Workers |-> Idle]
  /\ client = [u \in Users |-> NoClient]
  /\ spent = [u \in Users |-> [s \in Scopes |-> 0]]
  /\ phase = 0

UserStep ==
  \/ \E u \in Users : EditProfile(u) \/ DeleteAccount(u)
  \/ \E u \in Users, g \in Goals :
       \/ \E status \in {"DRAFT", "ACTIVE", "ARCHIVED"}, t \in Targets :
            MutateGoal(u, g, status, t)
       \/ DeleteGoal(u, g)

ClientStep ==
  \E u \in Users :
    \/ \E g \in Goals : ReadVersion(u, g)
    \/ ReadGoal(u) \/ ReadInputs(u)
    \/ \E s \in Stamps, refresh \in BOOLEAN :
         SubmitAccepted(u, s, refresh) \/ SubmitAnswered(u, s, refresh)

Claim(w) ==
  RetireStale(w) \/ \E r \in Requests : ClaimBusy(w, r) \/ ClaimOverBudget(w, r) \/ ClaimLease(w, r)

Settle(w) == FinalizeRecompute(w) \/ FailRecompute(w) \/ SettleRejected(w)

Next ==
  \/ UserStep \/ ClientStep \/ Tick
  \/ \E w \in Workers : Claim(w) \/ LoadContext(w) \/ Settle(w) \/ Crash(w)

Spec == Init /\ [][Next]_vars

(***************************************************************************)
(* Fairness.  The clock moves; the loop claims again and again; a worker   *)
(* goes on with what it holds.  An attempt may crash or outlive its lease, *)
(* but not every attempt does: the solver's time limit (20 s) is far below *)
(* the lease (5 min), hence the strong fairness of loading and settling    *)
(* under a valid lease.                                                    *)
(***************************************************************************)
Fairness ==
  /\ WF_vars(Tick)
  /\ \A w \in Workers : /\ WF_vars(Claim(w)) /\ WF_vars(LoadContext(w))
                        /\ WF_vars(SettleRejected(w))
                        /\ SF_vars(work[w].pc = "claimed" /\ HoldsLease(w) /\ LoadContext(w))
                        /\ SF_vars(FinalizeRecompute(w) \/ FailRecompute(w))

FairSpec == Spec /\ Fairness

-----------------------------------------------------------------------------
(* Properties.                                                               *)

\* reserve_budget: no account reserves more than its limit in a window, whichever
\* of its requests, retries after a crash or refreshes asks.
BudgetOK ==
  /\ spent \in [Users -> [Scopes -> Nat]]
  /\ \A u \in Users, s \in Scopes : spent[u][s] <= Limit(s)

\* Every row and every in-memory item has the shape its table or class gives it,
\* and the budgets are kept.
TypeOK ==
  /\ users \in [Users -> {"ACTIVE", "ERASED"}]
  /\ version \in [Users -> Versions]
  /\ latest \in [Users -> Requests \cup {NoRequest}]
  /\ goal \in [Goals -> GoalRow]
  /\ req \in [Requests -> RequestRow]
  /\ seq \in 0 .. MaxRequests
  /\ analysis \in [Requests -> Goals \cup {NoGoal}]
  /\ job \in [Requests -> JobRow]
  /\ work \in [Workers -> WorkItem]
  /\ client \in [Users -> Submission]
  /\ BudgetOK
  /\ phase \in 0 .. (WindowTicks - 1)

\* claim_recompute_work keeps two solver runs of one account from overlapping,
\* whatever edits, expiries and reclaims happen: at most one request of an
\* account is under a valid lease.
OneRunPerAccount ==
  \A r, q \in Requests :
    /\ r # q /\ req[r].user = req[q].user
    /\ job[r].state = "LEASED" /\ job[r].lease > 0
    => ~(job[q].state = "LEASED" /\ job[q].lease > 0)

\* An outbox job and its request never disagree: an unfinished job has an open
\* request, a completed one a settled request, and a request that lost its row
\* or never had a context has no job.
JobMatchesRequest ==
  \A r \in Requests :
    /\ job[r].state = "LEASED" => req[r].state = "RUNNING"
    /\ job[r].state = "READY" => req[r].state \in Open
    /\ job[r].state = "COMPLETED" => req[r].state \in Settled
    /\ job[r].state = "NONE" => req[r].state \in {"NONE", "DELETED", "FAILED"}

\* Of all workers that still believe they own a request (one whose lease ran out
\* does), at most one can settle it.
SoleSettler ==
  \A w, x \in Workers :
    /\ w # x /\ work[w].pc # "idle" /\ work[x].pc # "idle" /\ work[w].req = work[x].req
    => ~(HoldsLease(w) /\ HoldsLease(x))

\* A request is READY exactly when its analysis is stored, the analysis belongs
\* to a goal that still exists, and latest_analysis_id points at such a result of
\* the same account: a finalizer that comes after an erasure recreates nothing.
ResultsExist ==
  /\ \A r \in Requests :
       /\ analysis[r] # NoGoal <=> req[r].state = "READY"
       /\ analysis[r] # NoGoal => goal[analysis[r]].status # "DELETED"
  /\ \A u \in Users : latest[u] # NoRequest =>
       req[latest[u]].state = "READY" /\ req[latest[u]].user = u

\* Work that is still open names a goal of its account that exists, so a leased
\* item never ends in the MissingRecordError no handler catches, which would be
\* retried forever.
NoPoisonedWork ==
  \A r \in Requests : req[r].state \in Open =>
    /\ users[req[r].user] = "ACTIVE"
    /\ req[r].goal # NoGoal
    /\ Owner[req[r].goal] = req[r].user
    /\ goal[req[r].goal].status \notin {"NONE", "DELETED"}

\* load_context_inputs reads without locks; the version recheck of the submission
\* must keep inputs of different profile versions from being published together:
\* a stored context was read at its request's version, and while that version is
\* current it pins the occupation the goal has now.
InputsNotMixed ==
  \A r \in Requests : req[r].state \in Open \cup {"READY"} =>
    /\ req[r].seen = req[r].ver
    /\ req[r].ver = version[req[r].user] => req[r].occ = goal[req[r].goal].occ

\* Once any result for the current profile version exists, the latest analysis is
\* one for that version: a slower, older run cannot take its place.
LatestIsCurrent ==
  \A r \in Requests :
    req[r].state = "READY" /\ req[r].ver = version[req[r].user] =>
      /\ latest[req[r].user] # NoRequest
      /\ req[latest[req[r].user]].ver = version[req[r].user]

\* No edit is dropped: while an account has an ACTIVE goal, its current profile
\* version has a recompute request, if only one that failed for want of a context.
EditsAreTracked ==
  \A u \in Users : ActiveGoals(goal, u) # {} =>
    \E r \in Requests : req[r].state \in Stored /\ req[r].user = u /\ req[r].ver = version[u]

\* Every open request is eventually settled, retired or erased.
RequestsSettle == \A r \in Requests : (req[r].state \in Open) ~> (req[r].state \notin Open)

\* The pipeline implements the ledger of requests: whatever workers, leases and
\* retries do, each request is answered at most once and the shown result moves
\* only to one computed for the current profile version.
Ledger == INSTANCE RecomputeLedger WITH
  FirstVersion <- 1,
  status <- [r \in Requests |-> IF req[r].state \in Open THEN "OPEN" ELSE req[r].state],
  of <- [r \in Requests |-> req[r].user],
  at <- [r \in Requests |-> req[r].ver]

ImplementsLedger == Ledger!Spec
=============================================================================
