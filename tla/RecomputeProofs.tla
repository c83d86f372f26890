-------------------------- MODULE RecomputeProofs --------------------------
(***************************************************************************)
(* Safety of the recompute pipeline for every number of accounts, goals,   *)
(* workers and requests and every lease, window and budget.                *)
(*                                                                         *)
(* Every transaction that touches requests and jobs goes through one of    *)
(* four changes of the two tables: a new row (PersistRequest), the removal *)
(* of rows, the change of single rows, the passing of time.  RowsOK states *)
(* what the two tables keep together through all of them; the lemmas below *)
(* establish it change by change, the theorems collect them per action.    *)
(***************************************************************************)
EXTENDS Recompute, TLAPS

\* A request row and its job row agree.
Agree(row, j) ==
  /\ j.state = "LEASED" => row.state = "RUNNING"
  /\ j.state = "READY" => row.state \in Open
  /\ j.state = "COMPLETED" => row.state \in Settled
  /\ j.state = "NONE" => row.state \in {"NONE", "DELETED", "FAILED"}

Leased(j) == j.state = "LEASED" /\ j.lease > 0

\* The tables after n requests: typed, in agreement, empty beyond n, and with at
\* most one valid lease per account.
RowsOK(rows, jobs, n) ==
  /\ n \in 0 .. MaxRequests
  /\ rows \in [Requests -> RequestRow] /\ jobs \in [Requests -> JobRow]
  /\ \A r \in Requests : Agree(rows[r], jobs[r])
  /\ \A r \in Requests : r > n => rows[r].state = "NONE" /\ jobs[r].state = "NONE"
  /\ \A r, q \in Requests : r # q /\ rows[r].user = rows[q].user /\ Leased(jobs[r]) => ~Leased(jobs[q])

\* The part of the state besides requests and jobs.
RestOK ==
  /\ users \in [Users -> {"ACTIVE", "ERASED"}]
  /\ version \in [Users -> Versions]
  /\ latest \in [Users -> Requests \cup {NoRequest}]
  /\ goal \in [Goals -> GoalRow]
  /\ analysis \in [Requests -> Goals \cup {NoGoal}]
  /\ work \in [Workers -> WorkItem]
  /\ client \in [Users -> Submission]
  /\ \A u \in Users : client[u].pc # "idle" => client[u].goal \in Goals
  /\ BudgetOK
  /\ phase \in 0 .. (WindowTicks - 1)

\* A worker that is not idle holds a request, and no other worker holds the same
\* request under the same token.
WorkOK ==
  /\ \A w \in Workers : work[w].pc # "idle" => work[w].req \in Requests
  /\ \A w, x \in Workers :
       w # x /\ work[w].pc # "idle" /\ work[x].pc # "idle" /\ work[w].req = work[x].req
       => work[w].token # work[x].token

IInv == RestOK /\ RowsOK(req, job, seq) /\ WorkOK

-----------------------------------------------------------------------------
(* The constants the initial rows and the special rows are built from.       *)

\* The job rows the code writes (none, ready, leased, completed) are job rows.
LEMMA JobRowsOK ==
  /\ NoJob \in JobRow /\ NoJob.state = "NONE"
  /\ DoneJob \in JobRow /\ DoneJob.state = "COMPLETED"
  /\ \A n \in 0 .. (DeferFor + WindowTicks) : ReadyJob(n) \in JobRow /\ ReadyJob(n).state = "READY"
  /\ \A t \in Tokens : [state |-> "LEASED", token |-> t, lease |-> LeaseFor, wait |-> 0] \in JobRow
BY RecomputeAssumption DEF NoJob, DoneJob, ReadyJob, JobRow

\* The FAILED request _enqueue_recompute stores without a context is a request row.
LEMMA MissingContextOK ==
  ASSUME NEW u \in Users, NEW v \in Versions, NEW e \in Goals \cup {NoGoal}
  PROVE  MissingContext(u, v, e) \in RequestRow
<1>1. (CHOOSE s \in Stamps : TRUE) \in Stamps
  BY RecomputeAssumption
<1> QED BY <1>1, RecomputeAssumption DEF MissingContext, RequestRow, Stored, Settled, Versions

\* The PENDING request stored with a context is a request row.
LEMMA WithContextOK ==
  ASSUME NEW u \in Users, NEW v \in Versions, NEW g \in Goals \cup {NoGoal},
         NEW o \in Occupations \cup {NoOcc}, NEW n \in 0 .. MaxVersion, NEW s \in Stamps,
         NEW e \in Goals \cup {NoGoal}
  PROVE  WithContext(u, v, g, o, n, s, e) \in RequestRow
BY RecomputeAssumption DEF WithContext, RequestRow, Stored, Open, Versions

-----------------------------------------------------------------------------
(* The changes of the two tables.                                            *)

\* A request may be new in one of two states.
New == {row \in RequestRow : row.state \in {"PENDING", "FAILED"}}

\* _persist_recompute_request keeps the two tables in order: the new request takes
\* the first free row and gets a job exactly when it is PENDING.
LEMMA PersistOK ==
  ASSUME NEW rows, NEW jobs, NEW row \in New,
         RowsOK(rows, jobs, seq), PersistRequest(rows, jobs, row)
  PROVE  RowsOK(req', job', seq')
<1> DEFINE r == seq + 1
           ready == ReadyJob(0)
<1>1. /\ r \in Requests /\ seq' = r /\ req' = [rows EXCEPT ![r] = row]
      /\ job' = IF row.state = "PENDING" THEN [jobs EXCEPT ![r] = ready] ELSE jobs
  BY DEF PersistRequest
<1>2. /\ rows \in [Requests -> RequestRow] /\ jobs \in [Requests -> JobRow]
      /\ \A q \in Requests : q > seq => rows[q].state = "NONE" /\ jobs[q].state = "NONE"
      /\ \A q \in Requests : Agree(rows[q], jobs[q])
      /\ \A p, q \in Requests : p # q /\ rows[p].user = rows[q].user /\ Leased(jobs[p]) => ~Leased(jobs[q])
      /\ seq \in 0 .. MaxRequests
  BY DEF RowsOK
<1>3. ready \in JobRow /\ ready.state = "READY"
  BY JobRowsOK, RecomputeAssumption
<1>4. jobs[r].state = "NONE"
  BY <1>1, <1>2, RecomputeAssumption DEF Requests
<1>5. req' \in [Requests -> RequestRow] /\ job' \in [Requests -> JobRow]
  BY <1>1, <1>2, <1>3 DEF New
<1>6. seq' \in 0 .. MaxRequests
  BY <1>1, RecomputeAssumption DEF Requests
<1>7. \A q \in Requests : q # r => req'[q] = rows[q] /\ job'[q] = jobs[q]
  BY <1>1, <1>2
<1>8. /\ req'[r] = row
      /\ \/ row.state = "PENDING" /\ job'[r] = ready
         \/ row.state = "FAILED" /\ job'[r] = jobs[r]
  BY <1>1, <1>2 DEF New
<1>9. \A q \in Requests : Agree(req'[q], job'[q])
  BY <1>2, <1>3, <1>4, <1>7, <1>8 DEF Agree, Open
<1>10. \A q \in Requests : q > seq' => req'[q].state = "NONE" /\ job'[q].state = "NONE"
  BY <1>1, <1>2, <1>7, RecomputeAssumption DEF Requests
<1>11. ~Leased(job'[r])
  BY <1>3, <1>4, <1>8 DEF Leased
<1>12. \A p, q \in Requests : p # q /\ req'[p].user = req'[q].user /\ Leased(job'[p]) => ~Leased(job'[q])
  BY <1>2, <1>7, <1>11
<1> QED BY <1>5, <1>6, <1>9, <1>10, <1>12 DEF RowsOK

\* So does enqueue_for_goal, with or without a context to carry forward.
LEMMA EnqueueForGoalOK ==
  ASSUME NEW rows, NEW jobs, NEW u \in Users, NEW v \in Versions, NEW g \in Goals,
         NEW row \in GoalRow, NEW e \in Goals \cup {NoGoal},
         RowsOK(rows, jobs, seq), EnqueueForGoal(rows, jobs, u, v, g, row, e)
  PROVE  RowsOK(req', job', seq')
<1>1. CASE PersistRequest(rows, jobs, MissingContext(u, v, e))
  <2>1. MissingContext(u, v, e) \in New
    BY MissingContextOK DEF New, MissingContext
  <2> QED BY <1>1, <2>1, PersistOK
<1>2. CASE \E s \in Stamps : PersistRequest(rows, jobs, WithContext(u, v, g, row.occ, v, s, e))
  <2>1. PICK s \in Stamps : PersistRequest(rows, jobs, WithContext(u, v, g, row.occ, v, s, e))
    BY <1>2
  <2>2. v \in 0 .. MaxVersion /\ row.occ \in Occupations \cup {NoOcc}
    BY RecomputeAssumption DEF Versions, GoalRow
  <2>3. WithContext(u, v, g, row.occ, v, s, e) \in New
    BY <2>2, WithContextOK DEF New, WithContext
  <2> QED BY <2>1, <2>3, PersistOK
<1> QED BY <1>1, <1>2 DEF EnqueueForGoal

\* So does enqueue_for_active_user, whatever goals the account has.
LEMMA EnqueueForActiveUserOK ==
  ASSUME NEW rows, NEW jobs, NEW goals \in [Goals -> GoalRow], NEW u \in Users,
         NEW v \in Versions, NEW e \in Goals \cup {NoGoal},
         RowsOK(rows, jobs, seq), EnqueueForActiveUser(rows, jobs, goals, u, v, e)
  PROVE  RowsOK(req', job', seq')
<1>1. CASE \E g \in ActiveGoals(goals, u) : EnqueueForGoal(rows, jobs, u, v, g, goals[g], e)
  <2>1. PICK g \in Goals : EnqueueForGoal(rows, jobs, u, v, g, goals[g], e)
    BY <1>1 DEF ActiveGoals
  <2> QED BY <2>1, EnqueueForGoalOK
<1>2. CASE PersistRequest(rows, jobs, MissingContext(u, v, e))
  <2>1. MissingContext(u, v, e) \in New
    BY MissingContextOK DEF New, MissingContext
  <2> QED BY <1>2, <2>1, PersistOK
<1> QED BY <1>1, <1>2 DEF EnqueueForActiveUser

\* A request row of which only the state changes.
Restate(row, s) == [row EXCEPT !.state = s]

\* Changing the state of a request leaves its account alone.
LEMMA RestateOK ==
  ASSUME NEW row \in RequestRow, NEW s \in Stored \cup {"NONE", "DELETED"}
  PROVE  Restate(row, s) \in RequestRow /\ Restate(row, s).state = s /\ Restate(row, s).user = row.user
BY DEF RequestRow, Restate

\* Removing requests removes their jobs.
LEMMA RemovalOK ==
  ASSUME NEW S \in SUBSET Requests, RowsOK(req, job, seq),
         \A r \in S : req[r].state \in Stored
  PROVE  RowsOK(Without(req, S), JobsWithout(job, S), seq)
<1> DEFINE rows == Without(req, S)
           jobs == JobsWithout(job, S)
<1>1. /\ req \in [Requests -> RequestRow] /\ job \in [Requests -> JobRow]
      /\ \A q \in Requests : q > seq => req[q].state = "NONE" /\ job[q].state = "NONE"
      /\ \A q \in Requests : Agree(req[q], job[q])
      /\ \A p, q \in Requests : p # q /\ req[p].user = req[q].user /\ Leased(job[p]) => ~Leased(job[q])
      /\ seq \in 0 .. MaxRequests
  BY DEF RowsOK
<1>2. \A r \in Requests : /\ r \in S => rows[r] = Restate(req[r], "DELETED") /\ jobs[r] = NoJob
                          /\ r \notin S => rows[r] = req[r] /\ jobs[r] = job[r]
  BY DEF Without, JobsWithout, Restate
<1>3. \A r \in S : rows[r] \in RequestRow /\ rows[r].state = "DELETED" /\ rows[r].user = req[r].user
  BY <1>1, <1>2, RestateOK
<1>4. rows \in [Requests -> RequestRow] /\ jobs \in [Requests -> JobRow]
  <2>1. \A r \in Requests : rows[r] \in RequestRow /\ jobs[r] \in JobRow
    BY <1>1, <1>2, <1>3, JobRowsOK
  <2> QED BY <2>1 DEF Without, JobsWithout
<1>5. \A r \in Requests : Agree(rows[r], jobs[r])
  BY <1>1, <1>2, <1>3, JobRowsOK DEF Agree
<1>6. \A r \in Requests : r > seq => rows[r].state = "NONE" /\ jobs[r].state = "NONE"
  BY <1>1, <1>2 DEF Stored, Open, Settled
<1>7. \A r \in Requests : rows[r].user = req[r].user /\ (Leased(jobs[r]) => Leased(job[r]))
  BY <1>1, <1>2, <1>3, JobRowsOK DEF Leased
<1> QED BY <1>1, <1>4, <1>5, <1>6, <1>7 DEF RowsOK

\* One request and its job change together.
LEMMA ChangeOK ==
  ASSUME NEW rows, NEW jobs, RowsOK(rows, jobs, seq), NEW r \in Requests,
         rows[r].state # "NONE", NEW s \in Stored, NEW j \in JobRow,
         Agree(Restate(rows[r], s), j),
         Leased(j) => \A q \in Requests \ {r} : rows[q].user = rows[r].user => ~Leased(jobs[q])
  PROVE  RowsOK([rows EXCEPT ![r].state = s], [jobs EXCEPT ![r] = j], seq)
<1> DEFINE x == Restate(rows[r], s)
           new == [rows EXCEPT ![r].state = s]
           jnew == [jobs EXCEPT ![r] = j]
<1>1. /\ rows \in [Requests -> RequestRow] /\ jobs \in [Requests -> JobRow]
      /\ \A q \in Requests : q > seq => rows[q].state = "NONE" /\ jobs[q].state = "NONE"
      /\ \A q \in Requests : Agree(rows[q], jobs[q])
      /\ \A p, q \in Requests : p # q /\ rows[p].user = rows[q].user /\ Leased(jobs[p]) => ~Leased(jobs[q])
      /\ seq \in 0 .. MaxRequests
  BY DEF RowsOK
<1>2. x \in RequestRow /\ x.state = s /\ x.user = rows[r].user
  BY <1>1, RestateOK
<1>3. /\ new[r] = x /\ jnew[r] = j
      /\ \A q \in Requests : q # r => new[q] = rows[q] /\ jnew[q] = jobs[q]
  BY <1>1 DEF Restate
<1>4. new \in [Requests -> RequestRow] /\ jnew \in [Requests -> JobRow]
  BY <1>1, <1>2, <1>3
<1>5. \A q \in Requests : Agree(new[q], jnew[q])
  BY <1>1, <1>3
<1>6. \A q \in Requests : q > seq => new[q].state = "NONE" /\ jnew[q].state = "NONE"
  BY <1>1, <1>3
<1>7. \A q \in Requests : new[q].user = rows[q].user
  BY <1>2, <1>3
<1>8. \A p, q \in Requests : p # q /\ new[p].user = new[q].user /\ Leased(jnew[p]) => ~Leased(jnew[q])
  BY <1>1, <1>3, <1>7
<1> QED BY <1>1, <1>4, <1>5, <1>6, <1>8 DEF RowsOK

\* The claim settles stale work before it takes anything.
LEMMA RetireOK ==
  ASSUME RowsOK(req, job, seq)
  PROVE  /\ RowsOK(RetiredRows, RetiredJobs, seq)
         /\ \A r \in Requests : RetiredRows[r].user = req[r].user
         /\ \A r \in Requests : Leased(RetiredJobs[r]) => Leased(job[r])
         /\ \A r \in Current : req[r].user \in Users /\ version[req[r].user] \in Int
                               => RetiredRows[r] = req[r] /\ RetiredJobs[r] = job[r]
<1> DEFINE rows == RetiredRows
           jobs == RetiredJobs
<1>1. /\ req \in [Requests -> RequestRow] /\ job \in [Requests -> JobRow]
      /\ \A q \in Requests : q > seq => req[q].state = "NONE" /\ job[q].state = "NONE"
      /\ \A q \in Requests : Agree(req[q], job[q])
      /\ \A p, q \in Requests : p # q /\ req[p].user = req[q].user /\ Leased(job[p]) => ~Leased(job[q])
      /\ seq \in 0 .. MaxRequests
  BY DEF RowsOK
<1>2. \A r \in Requests : /\ r \in Stale => rows[r] = Restate(req[r], "FAILED") /\ jobs[r] = DoneJob
                          /\ r \notin Stale => rows[r] = req[r] /\ jobs[r] = job[r]
  BY DEF RetiredRows, RetiredJobs, Restate
<1>3. \A r \in Requests : r \in Stale =>
        rows[r] \in RequestRow /\ rows[r].state = "FAILED" /\ rows[r].user = req[r].user
  BY <1>1, <1>2, RestateOK DEF Stored, Settled
<1>4. rows \in [Requests -> RequestRow] /\ jobs \in [Requests -> JobRow]
  <2>1. \A r \in Requests : rows[r] \in RequestRow /\ jobs[r] \in JobRow
    BY <1>1, <1>2, <1>3, JobRowsOK
  <2> QED BY <2>1 DEF RetiredRows, RetiredJobs
<1>5. ASSUME NEW r \in Requests PROVE Agree(rows[r], jobs[r])
  <2>1. CASE r \in Stale
    BY <1>2, <1>3, <2>1, JobRowsOK DEF Agree, Settled
  <2>2. CASE r \notin Stale
    BY <1>1, <1>2, <2>2
  <2> QED BY <2>1, <2>2
<1>6. \A r \in Stale : req[r].state # "NONE"
  BY DEF Stale, Claimable, Open
<1>7. \A r \in Requests : r > seq => rows[r].state = "NONE" /\ jobs[r].state = "NONE"
  BY <1>1, <1>2, <1>6
<1>8. \A r \in Requests : rows[r].user = req[r].user
  BY <1>2, <1>3
<1>9. \A r \in Requests : Leased(jobs[r]) => Leased(job[r])
  BY <1>2, JobRowsOK DEF Leased
<1>10. RowsOK(rows, jobs, seq)
  BY <1>1, <1>4, <1>5, <1>7, <1>8, <1>9 DEF RowsOK
<1>11. ASSUME NEW r \in Current, req[r].user \in Users, version[req[r].user] \in Int
       PROVE  r \notin Stale
  BY <1>11 DEF Current, Stale
<1> QED BY <1>2, <1>8, <1>9, <1>10, <1>11 DEF Current

-----------------------------------------------------------------------------
(* What a worker holds.                                                      *)

\* A worker that holds nothing is a work item.
LEMMA IdleOK == Idle \in WorkItem /\ Idle.pc = "idle"
BY RecomputeAssumption DEF Idle, Holds, WorkItem

\* A worker that drops its work item (process_once ends) disturbs no other worker.
LEMMA ReleaseOK ==
  ASSUME NEW w \in Workers, work \in [Workers -> WorkItem], WorkOK, Release(w)
  PROVE  work' \in [Workers -> WorkItem] /\ WorkOK'
<1>1. /\ work' \in [Workers -> WorkItem] /\ work'[w] = Idle
      /\ \A x \in Workers : x # w => work'[x] = work[x]
  BY IdleOK DEF Release
<1> QED BY <1>1, IdleOK DEF WorkOK

-----------------------------------------------------------------------------
(* One lemma per action.                                                     *)

\* AnalysisBudgetPolicy: every limit is positive.
LEMMA LimitOK == \A s \in Scopes : Limit(s) \in Nat \ {0}
BY RecomputeAssumption DEF Limit

\* reserve_budget keeps the counters within their limits.
LEMMA ReserveOK ==
  ASSUME BudgetOK, NEW u \in Users, NEW s \in Scopes, Affords(u, s), Spend(u, s)
  PROVE  BudgetOK'
<1>1. spent[u][s] \in Nat /\ spent[u][s] + 1 \in Nat /\ Limit(s) \in Nat
  BY LimitOK DEF BudgetOK
<1>2. spent' \in [Users -> [Scopes -> Nat]] /\ spent'[u][s] = spent[u][s] + 1
  BY <1>1 DEF BudgetOK, Spend
<1>3. \A x \in Users, t \in Scopes : x # u \/ t # s => spent'[x][t] = spent[x][t]
  BY DEF BudgetOK, Spend
<1>4. \A x \in Users, t \in Scopes : spent'[x][t] <= Limit(t)
  <2> SUFFICES ASSUME NEW x \in Users, NEW t \in Scopes PROVE spent'[x][t] <= Limit(t)
    OBVIOUS
  <2>1. CASE x = u /\ t = s
    BY <1>1, <1>2, <2>1 DEF Affords
  <2>2. CASE x # u \/ t # s
    BY <1>3, <2>2 DEF BudgetOK
  <2> QED BY <2>1, <2>2
<1> QED BY <1>2, <1>4 DEF BudgetOK

\* _bump_profile stays among the versions.
LEMMA BumpOK ==
  ASSUME NEW u \in Users, RestOK, Bump(u)
  PROVE  version' \in [Users -> Versions] /\ version[u] + 1 \in Versions
BY RecomputeAssumption DEF Bump, RestOK, Versions

\* What mutate_goal and the erasures write into a goal is a goal row.
LEMMA GoalAsOK ==
  /\ \A t \in Targets, s \in {"DRAFT", "ACTIVE", "ARCHIVED"} : GoalAs(s, t) \in GoalRow
  /\ GoalAs("DELETED", NoTarget) \in GoalRow /\ GoalAs("NONE", NoTarget) \in GoalRow
BY DEF GoalAs, NoTarget, Targets, GoalRow

\* mutate_profile and the writers like it preserve the invariant.
LEMMA EditProfileOK ==
  ASSUME IInv, NEW u \in Users, EditProfile(u)
  PROVE  IInv'
<1>1. RowsOK(req', job', seq')
  BY BumpOK, EnqueueForActiveUserOK DEF EditProfile, IInv, RestOK
<1>2. RestOK'
  BY BumpOK DEF EditProfile, IInv, RestOK, BudgetOK
<1>3. WorkOK'
  BY DEF EditProfile, IInv, WorkOK
<1> QED BY <1>1, <1>2, <1>3 DEF IInv

\* mutate_goal preserves the invariant, for an ACTIVE goal and for any other.
LEMMA MutateGoalOK ==
  ASSUME IInv, NEW u \in Users, NEW g \in Goals, NEW s \in {"DRAFT", "ACTIVE", "ARCHIVED"},
         NEW t \in Targets, MutateGoal(u, g, s, t)
  PROVE  IInv'
<1>1. GoalAs(s, t) \in GoalRow /\ goal' = [goal EXCEPT ![g] = GoalAs(s, t)]
  BY GoalAsOK DEF MutateGoal
<1>2. goal' \in [Goals -> GoalRow]
  BY <1>1 DEF IInv, RestOK
<1>3. version[u] + 1 \in Versions /\ version' \in [Users -> Versions]
  BY BumpOK DEF MutateGoal, IInv
<1>4. RowsOK(req', job', seq')
  <2>1. CASE EnqueueForGoal(req, job, u, version[u] + 1, g, GoalAs(s, t), g)
    BY <1>1, <1>3, <2>1, EnqueueForGoalOK DEF IInv
  <2>2. CASE EnqueueForActiveUser(req, job, goal', u, version[u] + 1, g)
    BY <1>2, <1>3, <2>2, EnqueueForActiveUserOK DEF IInv
  <2> QED BY <2>1, <2>2 DEF MutateGoal
<1>5. RestOK'
  BY <1>2, <1>3 DEF MutateGoal, IInv, RestOK, BudgetOK
<1>6. WorkOK'
  BY DEF MutateGoal, IInv, WorkOK
<1> QED BY <1>4, <1>5, <1>6 DEF IInv

\* delete_goal preserves the invariant: it removes the requests of the goal with
\* their jobs and may enqueue one for another goal.
LEMMA DeleteGoalOK ==
  ASSUME IInv, NEW u \in Users, NEW g \in Goals, DeleteGoal(u, g)
  PROVE  IInv'
<1> DEFINE S     == RequestsOfGoal(u, g)
           goals == [goal EXCEPT ![g] = GoalAs("DELETED", NoTarget)]
<1>1. goals \in [Goals -> GoalRow]
  BY GoalAsOK DEF IInv, RestOK
<1>2. version[u] + 1 \in Versions /\ version' \in [Users -> Versions]
  BY BumpOK DEF DeleteGoal, IInv
<1>3. RowsOK(Without(req, S), JobsWithout(job, S), seq)
  <2>1. S \in SUBSET Requests /\ \A r \in S : req[r].state \in Stored
    BY DEF RequestsOfGoal
  <2> QED BY <2>1, RemovalOK DEF IInv
<1>4. RowsOK(req', job', seq')
  <2>1. CASE req' = Without(req, S) /\ job' = JobsWithout(job, S) /\ seq' = seq
    BY <1>3, <2>1
  <2>2. CASE \E a \in ActiveGoals(goals, u) :
               EnqueueForGoal(Without(req, S), JobsWithout(job, S), u, version[u] + 1, a, goals[a], g)
    <3>1. PICK a \in Goals :
               EnqueueForGoal(Without(req, S), JobsWithout(job, S), u, version[u] + 1, a, goals[a], g)
      BY <2>2 DEF ActiveGoals
    <3>2. goals[a] \in GoalRow
      BY <1>1
    <3> HIDE DEF goals, S
    <3> QED BY <1>2, <1>3, <3>1, <3>2, EnqueueForGoalOK
  <2> QED BY <2>1, <2>2 DEF DeleteGoal
<1>5. RestOK'
  BY <1>1, <1>2 DEF DeleteGoal, IInv, RestOK, BudgetOK
<1>6. WorkOK'
  BY DEF DeleteGoal, IInv, WorkOK
<1> QED BY <1>4, <1>5, <1>6 DEF IInv

\* delete_account preserves the invariant.
LEMMA DeleteAccountOK ==
  ASSUME IInv, NEW u \in Users, DeleteAccount(u)
  PROVE  IInv'
<1> DEFINE S == {r \in Requests : req[r].state \in Stored /\ req[r].user = u}
<1>1. RowsOK(req', job', seq')
  <2>1. RowsOK(Without(req, S), JobsWithout(job, S), seq)
    BY RemovalOK DEF IInv
  <2> QED BY <2>1 DEF DeleteAccount
<1>2. goal' \in [Goals -> GoalRow]
  BY GoalAsOK DEF DeleteAccount, IInv, RestOK
<1>3. BudgetOK'
  BY LimitOK DEF DeleteAccount, IInv, RestOK, BudgetOK
<1>4. RestOK'
  BY <1>2, <1>3 DEF DeleteAccount, IInv, RestOK
<1>5. WorkOK'
  BY DEF DeleteAccount, IInv, WorkOK
<1> QED BY <1>1, <1>4, <1>5 DEF IInv

\* The inputs a submission has read so far are well formed and name a goal.
LEMMA HasOK ==
  ASSUME NEW pc \in {"version", "goal", "inputs"}, NEW v \in 0 .. MaxVersion, NEW g \in Goals,
         NEW o \in Occupations \cup {NoOcc}, NEW n \in 0 .. MaxVersion
  PROVE  Has(pc, v, g, o, n) \in Submission /\ Has(pc, v, g, o, n).goal \in Goals
BY DEF Has, Submission

\* No submission under way is a well-formed value too.
LEMMA NoClientOK == NoClient \in Submission /\ NoClient.pc = "idle"
BY RecomputeAssumption DEF NoClient, Has, Submission

\* The reads and rejections of a submission change the submission only.
LEMMA ClientReadOK ==
  ASSUME IInv, NEW u \in Users, NEW g \in Goals, NEW s \in Stamps, NEW f \in BOOLEAN,
         ReadVersion(u, g) \/ ReadGoal(u) \/ ReadInputs(u) \/ SubmitAnswered(u, s, f)
  PROVE  IInv'
<1> DEFINE good(x) == x \in Submission /\ (x.pc # "idle" => x.goal \in Goals)
<1>1. /\ client \in [Users -> Submission] /\ \A x \in Users : good(client[x])
      /\ version[u] \in 0 .. MaxVersion
      /\ \A h \in Goals : goal[h].occ \in Occupations \cup {NoOcc}
  BY RecomputeAssumption DEF IInv, RestOK, GoalRow, Versions
<1>2. client[u].ver \in 0 .. MaxVersion /\ client[u].occ \in Occupations \cup {NoOcc}
  BY <1>1 DEF Submission
<1>3. \E x : good(x) /\ client' = [client EXCEPT ![u] = x]
  <2>0. NoOcc \in Occupations \cup {NoOcc} /\ 0 \in 0 .. MaxVersion /\ good(NoClient)
    BY RecomputeAssumption, NoClientOK
  <2>1. CASE ReadVersion(u, g)
    <3>1. good(Has("version", version[u], g, NoOcc, 0))
      BY <1>1, <2>0, HasOK
    <3> QED BY <2>1, <3>1 DEF ReadVersion
  <2>2. CASE ReadGoal(u)
    <3>1. client[u].goal \in Goals
      BY <1>1, <2>2 DEF ReadGoal
    <3>2. good(Has("goal", client[u].ver, client[u].goal, goal[client[u].goal].occ, 0))
      BY <1>1, <1>2, <2>0, <3>1, HasOK
    <3> HIDE DEF good
    <3> QED BY <2>0, <2>2, <3>2 DEF ReadGoal
  <2>3. CASE ReadInputs(u)
    <3>1. client[u].goal \in Goals
      BY <1>1, <2>3 DEF ReadInputs
    <3>2. good(Has("inputs", client[u].ver, client[u].goal, client[u].occ, version[u]))
      BY <1>1, <1>2, <3>1, HasOK
    <3> HIDE DEF good
    <3> QED BY <2>0, <2>3, <3>2 DEF ReadInputs
  <2>4. CASE SubmitAnswered(u, s, f)
    BY <2>0, <2>4 DEF SubmitAnswered
  <2> QED BY <2>1, <2>2, <2>3, <2>4
<1>4. /\ client' \in [Users -> Submission]
      /\ \A x \in Users : client'[x].pc # "idle" => client'[x].goal \in Goals
  BY <1>1, <1>3
<1>5. UNCHANGED <<users, version, latest, goal, req, seq, analysis, job, work, spent, phase>>
  BY DEF ReadVersion, ReadGoal, ReadInputs, SubmitAnswered
<1>6. RowsOK(req', job', seq') /\ WorkOK' /\ RestOK'
  BY <1>4, <1>5 DEF IInv, WorkOK, RestOK, BudgetOK
<1> QED BY <1>6 DEF IInv

\* submit_analysis_recompute_in_session preserves the invariant when it stores a request.
LEMMA SubmitAcceptedOK ==
  ASSUME IInv, NEW u \in Users, NEW s \in Stamps, NEW f \in BOOLEAN, SubmitAccepted(u, s, f)
  PROVE  IInv'
<1> DEFINE c == client[u]
           row == WithContext(u, c.ver, c.goal, c.occ, c.seen, s, c.goal)
<1>1. /\ c.ver \in Versions /\ c.goal \in Goals \cup {NoGoal}
      /\ c.occ \in Occupations \cup {NoOcc} /\ c.seen \in 0 .. MaxVersion
  BY DEF IInv, RestOK, Submission, SubmitAccepted
<1>2. row \in New
  BY <1>1, WithContextOK DEF New, WithContext
<1>3. RowsOK(req', job', seq')
  BY <1>2, PersistOK DEF SubmitAccepted, IInv
<1>4. /\ client' \in [Users -> Submission]
      /\ \A x \in Users : client'[x].pc # "idle" => client'[x].goal \in Goals
  BY NoClientOK DEF SubmitAccepted, IInv, RestOK
<1>5. BudgetOK'
  <2>1. BudgetOK /\ "request" \in Scopes
    BY DEF IInv, RestOK, Scopes
  <2> QED BY <2>1, ReserveOK DEF SubmitAccepted
<1>6. RestOK' /\ WorkOK'
  BY <1>4, <1>5 DEF SubmitAccepted, IInv, RestOK, WorkOK
<1> QED BY <1>3, <1>6 DEF IInv

\* Claims that take nothing: they retire stale work and may put one job off.
LEMMA DeferOK ==
  ASSUME IInv, NEW r \in Current, NEW n \in 0 .. (DeferFor + WindowTicks), Defer(r, n)
  PROVE  IInv'
<1>1. /\ r \in Requests /\ Claimable(r)
      /\ req[r] \in RequestRow /\ req[r].user \in Users /\ version[req[r].user] \in Int
  BY DEF Current, IInv, RowsOK, RestOK, RequestRow, Versions
<1>2. /\ RowsOK(RetiredRows, RetiredJobs, seq) /\ RetiredRows[r] = req[r]
      /\ RetiredRows \in [Requests -> RequestRow]
  BY <1>1, RetireOK DEF IInv, RowsOK
<1>3. ReadyJob(n) \in JobRow /\ ReadyJob(n).state = "READY"
  BY JobRowsOK
<1>4. req[r].state \in Open /\ req[r].state \in Stored /\ req[r].state # "NONE"
  BY <1>1 DEF Claimable, Open, Stored
<1>5. Restate(RetiredRows[r], req[r].state) = RetiredRows[r]
  BY <1>1, <1>2 DEF Restate, RequestRow
<1>6. [RetiredRows EXCEPT ![r].state = req[r].state] = RetiredRows
  BY <1>1, <1>2, <1>5 DEF Restate
<1>7. RowsOK(RetiredRows, [RetiredJobs EXCEPT ![r] = ReadyJob(n)], seq)
  <2>1. Agree(Restate(RetiredRows[r], req[r].state), ReadyJob(n)) /\ ~Leased(ReadyJob(n))
    BY <1>2, <1>3, <1>4, <1>5 DEF Agree, Leased
  <2> QED BY <1>1, <1>2, <1>3, <1>4, <1>6, <2>1, ChangeOK
<1>8. RowsOK(req', job', seq')
  BY <1>7 DEF Defer
<1>9. RestOK' /\ WorkOK'
  BY DEF Defer, IInv, RestOK, BudgetOK, WorkOK
<1> QED BY <1>8, <1>9 DEF IInv

\* The branches of claim_recompute_work that hand out no work preserve the invariant.
LEMMA ClaimNothingOK ==
  ASSUME IInv, NEW w \in Workers, NEW r \in Requests,
         RetireStale(w) \/ ClaimBusy(w, r) \/ ClaimOverBudget(w, r)
  PROVE  IInv'
<1>1. CASE RetireStale(w)
  <2>1. RowsOK(req', job', seq')
    BY <1>1, RetireOK DEF RetireStale, IInv
  <2>2. RestOK' /\ WorkOK'
    BY <1>1 DEF RetireStale, IInv, RestOK, BudgetOK, WorkOK
  <2> QED BY <2>1, <2>2 DEF IInv
<1>2. CASE ClaimBusy(w, r)
  <2>1. DeferFor \in 0 .. (DeferFor + WindowTicks)
    BY RecomputeAssumption
  <2> QED BY <1>2, <2>1, DeferOK DEF ClaimBusy
<1>3. CASE ClaimOverBudget(w, r)
  <2>1. WindowTicks - phase \in 0 .. (DeferFor + WindowTicks)
    BY RecomputeAssumption DEF IInv, RestOK
  <2> QED BY <1>3, <2>1, DeferOK DEF ClaimOverBudget
<1> QED BY <1>1, <1>2, <1>3

\* The work item a claim returns is well formed and carries its request and token.
LEMMA HoldsOK ==
  ASSUME NEW pc \in {"claimed", "loaded"}, NEW r \in Requests, NEW t \in Tokens \cup {0},
         NEW g \in Goals \cup {NoGoal}
  PROVE  /\ Holds(pc, r, t, g) \in WorkItem
         /\ Holds(pc, r, t, g).req = r /\ Holds(pc, r, t, g).token = t
BY DEF Holds, WorkItem

\* claim_recompute_work preserves the invariant when it leases a job: the account
\* has no other valid lease (~Busy) and no worker holds the token (FreshTokens).
LEMMA ClaimLeaseOK ==
  ASSUME IInv, NEW w \in Workers, NEW r \in Requests, ClaimLease(w, r)
  PROVE  IInv'
<1>1. /\ r \in Current /\ ~Busy(r) /\ Claimable(r)
      /\ req[r] \in RequestRow /\ req[r].user \in Users /\ version[req[r].user] \in Int
  BY DEF ClaimLease, Current, IInv, RowsOK, RestOK, RequestRow, Versions
<1>2. /\ RowsOK(RetiredRows, RetiredJobs, seq) /\ RetiredRows[r] = req[r]
      /\ RetiredRows \in [Requests -> RequestRow]
      /\ \A q \in Requests : RetiredRows[q].user = req[q].user
      /\ \A q \in Requests : Leased(RetiredJobs[q]) => Leased(job[q])
  BY <1>1, RetireOK DEF IInv, RowsOK
<1>3. PICK t \in FreshTokens(r) :
        /\ job' = [RetiredJobs EXCEPT ![r] =
                     [state |-> "LEASED", token |-> t, lease |-> LeaseFor, wait |-> 0]]
        /\ work' = [work EXCEPT ![w] = Holds("claimed", r, t, NoGoal)]
  BY DEF ClaimLease
<1> DEFINE j == [state |-> "LEASED", token |-> t, lease |-> LeaseFor, wait |-> 0]
<1>4. t \in Tokens /\ j \in JobRow
  BY <1>3, JobRowsOK DEF FreshTokens
<1>5. RowsOK(req', job', seq')
  <2>1. RetiredRows[r].state # "NONE"
    BY <1>1, <1>2 DEF Claimable, Open
  <2>2. Agree(Restate(RetiredRows[r], "RUNNING"), j)
    BY <1>2, RestateOK DEF Agree, Stored, Open
  <2>3. \A q \in Requests \ {r} : RetiredRows[q].user = RetiredRows[r].user => ~Leased(RetiredJobs[q])
    <3>1. \A q \in Requests : Agree(req[q], job[q])
      BY DEF IInv, RowsOK
    <3> QED BY <1>1, <1>2, <3>1 DEF Busy, Leased, Agree
  <2>4. RowsOK([RetiredRows EXCEPT ![r].state = "RUNNING"], [RetiredJobs EXCEPT ![r] = j], seq)
    <3>1. "RUNNING" \in Stored
      BY DEF Stored, Open
    <3> HIDE DEF j
    <3> QED BY <1>2, <1>4, <2>1, <2>2, <2>3, <3>1, ChangeOK
  <2> QED BY <1>3, <2>4 DEF ClaimLease
<1>6. work' \in [Workers -> WorkItem] /\ WorkOK'
  <2> DEFINE h == Holds("claimed", r, t, NoGoal)
  <2>1. h \in WorkItem /\ h.req = r /\ h.token = t
    BY <1>4, HoldsOK
  <2>2. /\ work' \in [Workers -> WorkItem] /\ work'[w] = h
        /\ \A x \in Workers : x # w => work'[x] = work[x]
    BY <1>3, <2>1 DEF IInv, RestOK
  <2>3. \A x \in Workers : work[x].req = r => work[x].token # t
    BY <1>3 DEF FreshTokens
  <2> HIDE DEF h
  <2> QED BY <2>1, <2>2, <2>3 DEF IInv, WorkOK
<1>7. BudgetOK'
  <2>1. BudgetOK /\ "compute" \in Scopes
    BY DEF IInv, RestOK, Scopes
  <2> QED BY <1>1, <2>1, ReserveOK DEF ClaimLease
<1>8. RestOK'
  BY <1>6, <1>7 DEF ClaimLease, IInv, RestOK
<1> QED BY <1>5, <1>6, <1>8 DEF IInv

\* load_recompute_context preserves the invariant.
LEMMA LoadContextOK ==
  ASSUME IInv, NEW w \in Workers, LoadContext(w)
  PROVE  IInv'
<1>1. work' \in [Workers -> WorkItem] /\ WorkOK'
  <2>1. CASE Release(w)
    BY <2>1, ReleaseOK DEF IInv, RestOK
  <2>2. CASE work' = [work EXCEPT ![w] = Holds("loaded", work[w].req, work[w].token, req[work[w].req].goal)]
    <3> DEFINE h == Holds("loaded", work[w].req, work[w].token, req[work[w].req].goal)
    <3>1. work[w].req \in Requests /\ work[w].pc # "idle" /\ work[w].token \in Tokens \cup {0}
      BY DEF LoadContext, IInv, WorkOK, RestOK, WorkItem
    <3>2. req[work[w].req].goal \in Goals \cup {NoGoal}
      BY <3>1 DEF IInv, RowsOK, RequestRow
    <3>3. h \in WorkItem /\ h.req = work[w].req /\ h.token = work[w].token
      BY <3>1, <3>2 DEF Holds, WorkItem
    <3>4. /\ work' \in [Workers -> WorkItem] /\ work'[w] = h
          /\ \A x \in Workers : x # w => work'[x] = work[x]
      BY <2>2, <3>3 DEF IInv, RestOK
    <3> HIDE DEF h
    <3> QED BY <3>1, <3>3, <3>4 DEF IInv, WorkOK
  <2> QED BY <2>1, <2>2 DEF LoadContext
<1>2. RowsOK(req', job', seq')
  BY DEF LoadContext, IInv
<1>3. RestOK'
  BY <1>1 DEF LoadContext, IInv, RestOK, BudgetOK
<1> QED BY <1>1, <1>2, <1>3 DEF IInv

\* A worker that may settle its request settles the request and its job together.
LEMMA SettleOK ==
  ASSUME IInv, NEW w \in Workers, NEW s \in Settled, work[w].pc # "idle", MaySettle(w),
         req' = [req EXCEPT ![work[w].req].state = s],
         job' = [job EXCEPT ![work[w].req] = DoneJob], seq' = seq
  PROVE  RowsOK(req', job', seq')
<1> DEFINE r == work[w].req
<1>1. r \in Requests /\ req[r].state = "RUNNING"
  BY DEF IInv, WorkOK, MaySettle
<1>2. req[r] \in RequestRow
  BY <1>1 DEF IInv, RowsOK
<1>3. Agree(Restate(req[r], s), DoneJob) /\ ~Leased(DoneJob)
  BY <1>2, JobRowsOK, RestateOK DEF Agree, Leased, Settled, Stored
<1>4. s \in Stored /\ DoneJob \in JobRow /\ req[r].state # "NONE"
  BY <1>1, JobRowsOK DEF Stored
<1> HIDE DEF r
<1>5. RowsOK([req EXCEPT ![r].state = s], [job EXCEPT ![r] = DoneJob], seq)
  BY <1>1, <1>3, <1>4, ChangeOK DEF IInv
<1> QED BY <1>5 DEF r

\* finalize_recompute preserves the invariant.
LEMMA FinalizeRecomputeOK ==
  ASSUME IInv, NEW w \in Workers, FinalizeRecompute(w)
  PROVE  IInv'
<1>1. RowsOK(req', job', seq')
  <2>1. "READY" \in Settled
    BY DEF Settled
  <2> QED BY <2>1, SettleOK DEF FinalizeRecompute
<1>2. work' \in [Workers -> WorkItem] /\ WorkOK'
  BY ReleaseOK DEF FinalizeRecompute, IInv, RestOK
<1>3. work[w].req \in Requests /\ work[w].goal \in Goals \cup {NoGoal}
  BY DEF FinalizeRecompute, IInv, RestOK, WorkOK, WorkItem
<1>4. /\ latest' \in [Users -> Requests \cup {NoRequest}]
      /\ analysis' \in [Requests -> Goals \cup {NoGoal}]
  BY <1>3 DEF FinalizeRecompute, IInv, RestOK
<1>5. RestOK'
  BY <1>2, <1>4 DEF FinalizeRecompute, IInv, RestOK, BudgetOK
<1> QED BY <1>1, <1>2, <1>5 DEF IInv

\* fail_recompute preserves the invariant.
LEMMA FailRecomputeOK ==
  ASSUME IInv, NEW w \in Workers, FailRecompute(w)
  PROVE  IInv'
<1>1. RowsOK(req', job', seq')
  <2>1. "FAILED" \in Settled
    BY DEF Settled
  <2> QED BY <2>1, SettleOK DEF FailRecompute
<1>2. work' \in [Workers -> WorkItem] /\ WorkOK'
  BY ReleaseOK DEF FailRecompute, IInv, RestOK
<1>3. RestOK'
  BY <1>2 DEF FailRecompute, IInv, RestOK, BudgetOK
<1> QED BY <1>1, <1>2, <1>3 DEF IInv

\* A rejected settlement and a crash preserve the invariant.
LEMMA GiveUpOK ==
  ASSUME IInv, NEW w \in Workers, SettleRejected(w) \/ Crash(w)
  PROVE  IInv'
<1>1. /\ Release(w)
      /\ UNCHANGED <<users, version, latest, goal, req, seq, analysis, job, client, spent, phase>>
  BY DEF SettleRejected, Crash
<1>2. work' \in [Workers -> WorkItem] /\ WorkOK'
  BY <1>1, ReleaseOK DEF IInv, RestOK
<1> QED BY <1>1, <1>2 DEF IInv, RestOK, BudgetOK

\* Time only shortens leases and waits.
LEMMA AgedOK ==
  ASSUME NEW j \in JobRow
  PROVE  Aged(j) \in JobRow /\ Aged(j).state = j.state /\ (Leased(Aged(j)) => Leased(j))
<1>1. Down(j.lease, -1) \in -1 .. LeaseFor /\ Down(j.wait, 0) \in 0 .. (DeferFor + WindowTicks)
  BY RecomputeAssumption DEF Down, JobRow
<1>2. Aged(j) \in JobRow /\ Aged(j).state = j.state
  BY <1>1 DEF Aged, JobRow
<1>3. Leased(Aged(j)) => Leased(j)
  BY RecomputeAssumption DEF Aged, Leased, Down, JobRow
<1> QED BY <1>2, <1>3

\* The passing of time preserves the invariant.
LEMMA TickOK ==
  ASSUME IInv, Tick
  PROVE  IInv'
<1>1. /\ req \in [Requests -> RequestRow] /\ job \in [Requests -> JobRow]
      /\ \A q \in Requests : q > seq => req[q].state = "NONE" /\ job[q].state = "NONE"
      /\ \A q \in Requests : Agree(req[q], job[q])
      /\ \A p, q \in Requests : p # q /\ req[p].user = req[q].user /\ Leased(job[p]) => ~Leased(job[q])
      /\ seq \in 0 .. MaxRequests
  BY DEF IInv, RowsOK
<1>2. \A r \in Requests : /\ job'[r] \in JobRow /\ job'[r].state = job[r].state
                          /\ Leased(job'[r]) => Leased(job[r])
  <2>1. \A r \in Requests : job'[r] = Aged(job[r]) /\ job[r] \in JobRow
    BY <1>1 DEF Tick
  <2> QED BY <2>1, AgedOK
<1>3. job' \in [Requests -> JobRow] /\ req' = req /\ seq' = seq
  BY <1>2 DEF Tick
<1>4. \A r \in Requests : Agree(req'[r], job'[r])
  BY <1>1, <1>2, <1>3 DEF Agree
<1>5. RowsOK(req', job', seq')
  BY <1>1, <1>2, <1>3, <1>4 DEF RowsOK
<1>6. phase' \in 0 .. (WindowTicks - 1)
  BY RecomputeAssumption DEF Tick, IInv, RestOK
<1>7. BudgetOK'
  BY LimitOK DEF Tick, IInv, RestOK, BudgetOK
<1>8. RestOK' /\ WorkOK'
  BY <1>6, <1>7 DEF Tick, IInv, RestOK, WorkOK
<1> QED BY <1>5, <1>8 DEF IInv

-----------------------------------------------------------------------------
(* The inductive invariant.                                                  *)

\* The empty database satisfies the invariant.
LEMMA InitOK == Init => IInv
<1> SUFFICES ASSUME Init PROVE IInv
  OBVIOUS
<1>1. RowsOK(req, job, seq)
  <2> DEFINE c == CHOOSE u \in Users : TRUE
  <2>1. c \in Users /\ 1 \in Versions /\ NoGoal \in Goals \cup {NoGoal}
    BY RecomputeAssumption DEF Versions
  <2>2. MissingContext(c, 1, NoGoal) \in RequestRow
    <3> HIDE DEF c
    <3> QED BY <2>1, MissingContextOK
  <2> DEFINE z == Restate(MissingContext(c, 1, NoGoal), "NONE")
  <2>3. z \in RequestRow /\ z.state = "NONE"
    BY <2>2, RestateOK
  <2>4. \A r \in Requests : req[r] = z /\ job[r] = NoJob
    BY DEF Init, Restate
  <2>5. req \in [Requests -> RequestRow] /\ job \in [Requests -> JobRow]
    <3>1. req = [r \in Requests |-> z] /\ job = [r \in Requests |-> NoJob]
      BY DEF Init, Restate
    <3> HIDE DEF z
    <3> QED BY <2>3, <3>1, JobRowsOK
  <2>6. seq \in 0 .. MaxRequests
    BY RecomputeAssumption DEF Init
  <2> HIDE DEF z
  <2> QED BY <2>3, <2>4, <2>5, <2>6, JobRowsOK DEF RowsOK, Agree, Leased
<1>2. WorkOK
  BY IdleOK DEF Init, WorkOK
<1>3. RestOK
  <2>1. goal \in [Goals -> GoalRow] /\ work \in [Workers -> WorkItem] /\ client \in [Users -> Submission]
    BY GoalAsOK, IdleOK, NoClientOK DEF Init
  <2>2. version \in [Users -> Versions] /\ phase \in 0 .. (WindowTicks - 1)
    BY RecomputeAssumption DEF Init, Versions
  <2>3. BudgetOK
    BY LimitOK DEF Init, BudgetOK
  <2> QED BY <2>1, <2>2, <2>3, NoClientOK DEF Init, RestOK
<1> QED BY <1>1, <1>2, <1>3 DEF IInv

\* Every transaction, read, crash and tick preserves the invariant.
LEMMA NextOK == IInv /\ [Next]_vars => IInv'
<1> SUFFICES ASSUME IInv, [Next]_vars PROVE IInv'
  OBVIOUS
<1>1. CASE UserStep
  BY <1>1, EditProfileOK, DeleteAccountOK, MutateGoalOK, DeleteGoalOK DEF UserStep
<1>2. CASE ClientStep
  <2>1. PICK u \in Users :
          \/ \E g \in Goals : ReadVersion(u, g)
          \/ ReadGoal(u) \/ ReadInputs(u)
          \/ \E s \in Stamps, f \in BOOLEAN : SubmitAccepted(u, s, f) \/ SubmitAnswered(u, s, f)
    BY <1>2 DEF ClientStep
  <2>2. PICK s \in Stamps : TRUE
    BY RecomputeAssumption
  <2>3. CASE \E g \in Goals : ReadVersion(u, g)
    BY <2>2, <2>3, ClientReadOK
  <2>4. ASSUME ReadGoal(u) \/ ReadInputs(u) PROVE \E g \in Goals : TRUE
    BY <2>4 DEF ReadGoal, ReadInputs, IInv, RestOK
  <2>5. CASE ReadGoal(u) \/ ReadInputs(u)
    BY <2>2, <2>4, <2>5, ClientReadOK
  <2>6. CASE \E x \in Stamps, f \in BOOLEAN : SubmitAccepted(u, x, f)
    BY <2>6, SubmitAcceptedOK
  <2>7. CASE \E x \in Stamps, f \in BOOLEAN : SubmitAnswered(u, x, f)
    <3>1. \E g \in Goals : TRUE
      BY <2>7 DEF SubmitAnswered, Submits, IInv, RestOK
    <3> QED BY <2>7, <3>1, ClientReadOK
  <2> QED BY <2>1, <2>3, <2>5, <2>6, <2>7
<1>3. CASE Tick
  BY <1>3, TickOK
<1>4. CASE \E w \in Workers : Claim(w)
  BY <1>4, ClaimNothingOK, ClaimLeaseOK DEF Claim, RetireStale, Stale
<1>5. CASE \E w \in Workers : LoadContext(w) \/ Settle(w) \/ Crash(w)
  BY <1>5, LoadContextOK, FinalizeRecomputeOK, FailRecomputeOK, GiveUpOK DEF Settle
<1>6. CASE UNCHANGED vars
  BY <1>6 DEF vars, IInv, RestOK, BudgetOK, WorkOK
<1> QED BY <1>1, <1>2, <1>3, <1>4, <1>5, <1>6 DEF Next

\* The inductive invariant holds throughout, for every number of accounts, goals,
\* workers and requests.
THEOREM Invariance == Spec => []IInv
BY InitOK, NextOK, PTL DEF Spec

\* Every row and in-memory item keeps the shape its table or class gives it, and
\* no account reserves more than its limit in a window.
THEOREM TypeCorrect == Spec => []TypeOK
<1>1. IInv => TypeOK
  BY DEF IInv, RestOK, RowsOK, TypeOK
<1> QED BY <1>1, Invariance, PTL

\* claim_recompute_work never lets two solver runs of one account overlap.
THEOREM RunsAreExclusive == Spec => []OneRunPerAccount
<1>1. IInv => OneRunPerAccount
  BY DEF IInv, RowsOK, Leased, OneRunPerAccount
<1> QED BY <1>1, Invariance, PTL

\* An outbox job and its request never disagree, whichever of enqueueing, claiming,
\* retiring, settling and erasing wrote them last.
THEOREM JobsAgree == Spec => []JobMatchesRequest
<1>1. IInv => JobMatchesRequest
  BY DEF IInv, RowsOK, Agree, JobMatchesRequest
<1> QED BY <1>1, Invariance, PTL

\* A worker whose lease was taken over can no longer settle the request.
THEOREM SettlementIsExclusive == Spec => []SoleSettler
<1>1. IInv => SoleSettler
  BY DEF IInv, WorkOK, HoldsLease, SoleSettler
<1> QED BY <1>1, Invariance, PTL

-----------------------------------------------------------------------------
(***************************************************************************)
(* What the recompute pipeline stores, for every number of accounts,       *)
(* goals, workers and requests: results belong to goals that exist, open   *)
(* work can be finished, no edit is lost, the shown result is never older  *)
(* than another one, and the whole implements the ledger of requests.      *)
(*                                                                         *)
(* Two views of a step carry all of it.  Edits(u, S): requests in S go     *)
(* with a goal, the version of u moves on by one and at most one request   *)
(* is recorded for it.  Restated: open requests change their state and     *)
(* nothing else about a request changes.  The lemmas show which actions    *)
(* are one of the two, that the invariant DataOK survives both, and that   *)
(* it survives the other actions: a submission, an erased account, a       *)
(* result that is stored.                                                  *)
(***************************************************************************)

-----------------------------------------------------------------------------
(* The inductive invariant.                                                  *)

\* A request that is open or answered: its goal exists and belongs to its account,
\* and its context was read at its version.
Backed(row) ==
  /\ users[row.user] = "ACTIVE"
  /\ row.goal \in Goals /\ Owner[row.goal] = row.user
  /\ goal[row.goal].status \notin {"NONE", "DELETED"}
  /\ row.seen = row.ver
  /\ row.ver = version[row.user] => row.occ = goal[row.goal].occ

Live == Open \cup {"READY"}

RequestsOK ==
  \A r \in Requests :
    /\ req[r].state # "NONE" => req[r].ver <= version[req[r].user]
    /\ req[r].state \in Live => Backed(req[r])
    /\ analysis[r] = IF req[r].state = "READY" THEN req[r].goal ELSE NoGoal

PointersOK ==
  /\ \A u \in Users : latest[u] # NoRequest =>
       req[latest[u]].state = "READY" /\ req[latest[u]].user = u
  /\ LatestIsCurrent

\* A worker's item is a request that was made, with the goal of its context.
ItemsOK ==
  \A w \in Workers : work[w].pc # "idle" =>
    /\ req[work[w].req].state # "NONE"
    /\ work[w].pc = "loaded" => work[w].goal = req[work[w].req].goal

\* What a submission has read is older than the profile or still what it says.
ReadsOK ==
  \A u \in Users :
    LET c == client[u] IN
    /\ c.pc # "idle" => c.ver <= version[u]
    /\ c.pc \in {"goal", "inputs"} =>
         /\ Owner[c.goal] = u /\ goal[c.goal].status # "NONE"
         /\ users[u] = "ACTIVE" /\ c.ver = version[u] => c.occ = goal[c.goal].occ
    /\ c.pc = "inputs" => c.ver <= c.seen /\ c.seen <= version[u]

DataOK == RequestsOK /\ PointersOK /\ EditsAreTracked /\ ItemsOK /\ ReadsOK

-----------------------------------------------------------------------------
(* The two views of a step.                                                  *)

\* One request is recorded for u at version v: FAILED for want of a context, or
\* PENDING and backed by the goal as the transaction leaves it.
Recorded(rows, u, v) ==
  \E n \in Requests, row \in New :
    /\ rows[n].state = "NONE" /\ req' = [rows EXCEPT ![n] = row]
    /\ row.user = u /\ row.ver = v
    /\ row.state = "PENDING" => Backed(row)'

Edits(u, S) ==
  /\ S \in SUBSET {r \in Requests : req[r].state \in Stored /\ req[r].user = u}
  /\ Bump(u)
  /\ req' = Without(req, S) \/ Recorded(Without(req, S), u, version[u] + 1)
  /\ ActiveGoals(goal', u) # {} => Recorded(Without(req, S), u, version[u] + 1)
  /\ \A r \in Requests : analysis'[r] = IF r \in S THEN NoGoal ELSE analysis[r]
  /\ latest' = [latest EXCEPT ![u] = IF @ \in S THEN NoRequest ELSE @]
  /\ \A h \in Goals : /\ Owner[h] # u => goal'[h] = goal[h]
                      /\ goal[h].status # "NONE" => goal'[h].status # "NONE"
  /\ \A r \in Requests \ S : req[r].user = u /\ req[r].state \in Live
       => goal'[req[r].goal].status # "DELETED"
  /\ UNCHANGED <<users, work, client>>

\* Open requests are claimed, put off, retired or failed.
Restated ==
  /\ \A r \in Requests :
       \/ req'[r] = req[r]
       \/ req[r].state \in Open /\ \E s \in {"RUNNING", "FAILED"} : req'[r] = Restate(req[r], s)
  /\ UNCHANGED <<users, version, goal, latest, analysis, client>>

-----------------------------------------------------------------------------
(* What recording a request leaves of the rows.                              *)

\* _persist_recompute_request writes one row that was free and no other.
LEMMA RecordedRows ==
  ASSUME NEW rows \in [Requests -> RequestRow], NEW u \in Users, NEW v \in Versions,
         Recorded(rows, u, v)
  PROVE  /\ \A r \in Requests :
              \/ req'[r] = rows[r]
              \/ /\ rows[r].state = "NONE" /\ req'[r].user = u /\ req'[r].ver = v
                 /\ req'[r].state \in {"PENDING", "FAILED"}
                 /\ req'[r].state = "PENDING" => Backed(req[r])'
         /\ \E r \in Requests : req'[r].state \in Stored /\ req'[r].user = u /\ req'[r].ver = v
<1>1. PICK n \in Requests, row \in New :
        /\ rows[n].state = "NONE" /\ req' = [rows EXCEPT ![n] = row]
        /\ row.user = u /\ row.ver = v
        /\ row.state = "PENDING" => Backed(row)'
  BY DEF Recorded
<1>2. req'[n] = row /\ \A r \in Requests : r # n => req'[r] = rows[r]
  BY <1>1
<1>3. row.state \in {"PENDING", "FAILED"} /\ row.state \in Stored
  BY DEF New, Stored, Open, Settled
<1>4. row.state = "PENDING" => Backed(req[n])'
  BY <1>1, <1>2 DEF Backed
<1> QED BY <1>1, <1>2, <1>3, <1>4

\* Recording a request turns no row into an answer and moves no row that is in use.
LEMMA RemovedRows ==
  ASSUME IInv, NEW S \in SUBSET {r \in Requests : req[r].state \in Stored}
  PROVE  /\ Without(req, S) \in [Requests -> RequestRow]
         /\ \A r \in Requests \ S : Without(req, S)[r] = req[r]
         /\ \A r \in S : /\ Without(req, S)[r].state = "DELETED"
                         /\ Without(req, S)[r].user = req[r].user
                         /\ Without(req, S)[r].ver = req[r].ver
                         /\ Without(req, S)[r].goal = req[r].goal
<1>1. RowsOK(Without(req, S), JobsWithout(job, S), seq)
  BY RemovalOK DEF IInv
<1>2. req \in [Requests -> RequestRow]
  BY DEF IInv, RowsOK
<1>3. \A r \in S : [req[r] EXCEPT !.state = "DELETED"].state = "DELETED"
  BY <1>2 DEF RequestRow
<1> QED BY <1>1, <1>2, <1>3 DEF RowsOK, Without, RequestRow

\* An edit keeps, removes or fills each row; none that was in use is overwritten.
LEMMA EditRows ==
  ASSUME IInv, NEW u \in Users, NEW S, Edits(u, S)
  PROVE  /\ version[u] + 1 \in Versions /\ version'[u] = version[u] + 1
         /\ \A x \in Users : x # u => version'[x] = version[x]
         /\ \A r \in Requests :
              \/ r \notin S /\ req'[r] = req[r]
              \/ /\ r \in S /\ req'[r].state = "DELETED" /\ req'[r].user = req[r].user
                 /\ req'[r].ver = req[r].ver /\ req'[r].goal = req[r].goal
              \/ /\ r \notin S /\ req[r].state = "NONE" /\ req'[r].user = u
                 /\ req'[r].ver = version'[u] /\ req'[r].state \in {"PENDING", "FAILED"}
                 /\ req'[r].state = "PENDING" => Backed(req[r])'
<1> DEFINE rows == Without(req, S)
<1>1. S \in SUBSET {r \in Requests : req[r].state \in Stored}
  BY DEF Edits
<1>2. /\ version[u] + 1 \in Versions /\ version'[u] = version[u] + 1
      /\ \A x \in Users : x # u => version'[x] = version[x]
  BY BumpOK DEF Edits, Bump, IInv, RestOK
<1>3. /\ rows \in [Requests -> RequestRow]
      /\ \A r \in Requests \ S : rows[r] = req[r]
      /\ \A r \in S : /\ rows[r].state = "DELETED" /\ rows[r].user = req[r].user
                      /\ rows[r].ver = req[r].ver /\ rows[r].goal = req[r].goal
  BY <1>1, RemovedRows
<1> HIDE DEF rows
<1>4. CASE req' = rows
  BY <1>2, <1>3, <1>4
<1>5. CASE Recorded(rows, u, version[u] + 1)
  BY <1>2, <1>3, <1>5, RecordedRows
<1> QED BY <1>4, <1>5 DEF Edits, rows

\* Edits keep the requests in order: a request of an older version stays backed as
\* long as its goal stays, the new one is backed by the goal the edit leaves.
LEMMA EditsKeepRequests ==
  ASSUME IInv, DataOK, NEW u \in Users, NEW S, Edits(u, S)
  PROVE  RequestsOK'
<1> SUFFICES ASSUME NEW r \in Requests
             PROVE  /\ req'[r].state # "NONE" => req'[r].ver <= version'[req'[r].user]
                    /\ req'[r].state \in Live => Backed(req[r])'
                    /\ analysis'[r] = IF req'[r].state = "READY" THEN req'[r].goal ELSE NoGoal
  BY DEF RequestsOK
<1>1. /\ req[r] \in RequestRow /\ req[r].user \in Users /\ req[r].ver \in Versions
      /\ version \in [Users -> Versions] /\ \A n \in Versions : n \in Int
  BY DEF IInv, RowsOK, RestOK, RequestRow, Versions
<1>2. /\ req[r].state # "NONE" => req[r].ver <= version[req[r].user]
      /\ req[r].state \in Live => Backed(req[r])
      /\ analysis[r] = IF req[r].state = "READY" THEN req[r].goal ELSE NoGoal
  BY DEF DataOK, RequestsOK
<1>3. /\ version'[u] = version[u] + 1 /\ \A x \in Users : x # u => version'[x] = version[x]
      /\ version[u] \in Int /\ version'[u] \in Int
  BY <1>1, EditRows
<1>4. analysis'[r] = IF r \in S THEN NoGoal ELSE analysis[r]
  BY DEF Edits
<1>5. CASE r \notin S /\ req'[r] = req[r]
  <2>1. req[r].state # "NONE" => req[r].ver <= version'[req[r].user]
    BY <1>1, <1>2, <1>3
  <2>2. ASSUME req[r].state \in Live PROVE Backed(req[r])'
    <3>1. /\ users[req[r].user] = "ACTIVE" /\ req[r].goal \in Goals
          /\ Owner[req[r].goal] = req[r].user
          /\ goal[req[r].goal].status \notin {"NONE", "DELETED"} /\ req[r].seen = req[r].ver
          /\ req[r].ver = version[req[r].user] => req[r].occ = goal[req[r].goal].occ
      BY <1>2, <2>2 DEF Backed
    <3>2. CASE req[r].user = u
      <4>1. req[r].ver < version'[u]
        BY <1>1, <1>2, <1>3, <2>2, <3>2 DEF Live, Open
      <4>2. goal'[req[r].goal].status \notin {"NONE", "DELETED"}
        BY <1>5, <2>2, <3>1, <3>2 DEF Edits
      <4> QED BY <1>1, <1>3, <1>5, <3>1, <3>2, <4>1, <4>2 DEF Backed, Edits
    <3>3. CASE req[r].user # u
      <4>1. goal'[req[r].goal] = goal[req[r].goal] /\ version'[req[r].user] = version[req[r].user]
        BY <1>1, <1>3, <3>1, <3>3 DEF Edits
      <4> QED BY <1>5, <3>1, <3>3, <4>1 DEF Backed, Edits
    <3> QED BY <3>2, <3>3
  <2> QED BY <1>2, <1>4, <1>5, <2>1, <2>2
<1>6. CASE /\ r \in S /\ req'[r].state = "DELETED" /\ req'[r].user = req[r].user
           /\ req'[r].ver = req[r].ver
  <2>1. req[r].state # "NONE"
    BY <1>6 DEF Edits, Stored, Open, Settled
  <2> QED BY <1>1, <1>2, <1>3, <1>4, <1>6, <2>1 DEF Live, Open
<1>7. CASE /\ r \notin S /\ req[r].state = "NONE" /\ req'[r].user = u
           /\ req'[r].ver = version'[u] /\ req'[r].state \in {"PENDING", "FAILED"}
           /\ req'[r].state = "PENDING" => Backed(req[r])'
  BY <1>2, <1>3, <1>4, <1>7 DEF Live, Open
<1> QED BY <1>5, <1>6, <1>7, EditRows

\* Edits keep the pointer to the latest analysis: it is cleared with its request, and
\* no request is answered for the version the edit makes current.
LEMMA EditsKeepPointers ==
  ASSUME IInv, DataOK, NEW u \in Users, NEW S, Edits(u, S)
  PROVE  PointersOK'
<1>1. /\ req \in [Requests -> RequestRow] /\ latest \in [Users -> Requests \cup {NoRequest}]
      /\ version \in [Users -> Versions] /\ \A n \in Versions : n \in Int
      /\ \A r \in Requests : req[r].user \in Users /\ req[r].ver \in Versions
      /\ NoRequest \notin Requests
  BY RecomputeAssumption DEF IInv, RowsOK, RestOK, RequestRow, Versions, Requests
<1>2. /\ version'[u] = version[u] + 1 /\ \A x \in Users : x # u => version'[x] = version[x]
      /\ version[u] \in Int
  BY <1>1, EditRows
<1>3. \A r \in Requests : req'[r].state = "READY" => r \notin S /\ req'[r] = req[r]
  BY EditRows
<1>4. \A r \in Requests : r \in S => req[r].user = u
  BY DEF Edits
<1>5. \A r \in Requests : req[r].state = "READY" /\ r \notin S => req'[r] = req[r]
  BY EditRows
<1>6. ASSUME NEW x \in Users, latest'[x] # NoRequest
      PROVE  /\ latest[x] # NoRequest /\ latest'[x] = latest[x] /\ latest[x] \in Requests
             /\ latest[x] \notin S
             /\ req'[latest[x]] = req[latest[x]]
             /\ req[latest[x]].state = "READY" /\ req[latest[x]].user = x
  <2>1. latest[x] # NoRequest /\ latest'[x] = latest[x] /\ latest[x] \in Requests
        /\ (x = u => latest[x] \notin S)
    BY <1>1, <1>6 DEF Edits
  <2>2. req[latest[x]].state = "READY" /\ req[latest[x]].user = x
    BY <2>1 DEF DataOK, PointersOK
  <2> QED BY <1>4, <1>5, <2>1, <2>2
<1>7. ASSUME NEW r \in Requests, req'[r].state = "READY", req'[r].ver = version'[req'[r].user]
      PROVE  latest'[req'[r].user] # NoRequest /\ req'[latest'[req'[r].user]].ver = version'[req'[r].user]
  <2>1. r \notin S /\ req'[r] = req[r] /\ req[r].ver <= version[req[r].user]
    BY <1>3, <1>7 DEF DataOK, RequestsOK
  <2>2. req[r].user # u /\ version'[req[r].user] = version[req[r].user]
    BY <1>1, <1>2, <1>7, <2>1
  <2>3. latest[req[r].user] # NoRequest /\ req[latest[req[r].user]].ver = version[req[r].user]
    BY <1>7, <2>1, <2>2 DEF DataOK, PointersOK, LatestIsCurrent
  <2>4. latest'[req[r].user] = latest[req[r].user]
    BY <1>1, <2>2 DEF Edits
  <2> QED BY <1>1, <1>6, <2>1, <2>2, <2>3, <2>4
<1> QED BY <1>6, <1>7 DEF PointersOK, LatestIsCurrent

\* Edits keep every profile version of an account with an ACTIVE goal tracked.
LEMMA EditsKeepTracked ==
  ASSUME IInv, DataOK, NEW u \in Users, NEW S, Edits(u, S)
  PROVE  EditsAreTracked'
<1> SUFFICES ASSUME NEW x \in Users, ActiveGoals(goal', x) # {}
             PROVE  \E r \in Requests : req'[r].state \in Stored /\ req'[r].user = x /\ req'[r].ver = version'[x]
  BY DEF EditsAreTracked
<1>1. /\ version[u] + 1 \in Versions /\ version'[u] = version[u] + 1
      /\ \A y \in Users : y # u => version'[y] = version[y]
  BY EditRows
<1>2. CASE x = u
  <2>1. Recorded(Without(req, S), u, version[u] + 1)
    BY <1>2 DEF Edits
  <2>2. S \in SUBSET {r \in Requests : req[r].state \in Stored}
    BY DEF Edits
  <2>3. Without(req, S) \in [Requests -> RequestRow]
    BY <2>2, RemovedRows
  <2> QED BY <1>1, <1>2, <2>1, <2>3, RecordedRows
<1>3. CASE x # u
  <2>1. ActiveGoals(goal', x) = ActiveGoals(goal, x)
    BY <1>3 DEF Edits, ActiveGoals
  <2>2. PICK r \in Requests : req[r].state \in Stored /\ req[r].user = x /\ req[r].ver = version[x]
    BY <2>1 DEF DataOK, EditsAreTracked
  <2>3. r \notin S /\ req[r].state # "NONE"
    BY <1>3, <2>2 DEF Edits, Stored, Open, Settled
  <2> QED BY <1>1, <1>3, <2>2, <2>3, EditRows
<1> QED BY <1>2, <1>3

\* Edits change nothing in what a worker or a submission has read, and never make a
\* reading newer than the profile.
LEMMA EditsKeepReadings ==
  ASSUME IInv, DataOK, NEW u \in Users, NEW S, Edits(u, S)
  PROVE  ItemsOK' /\ ReadsOK'
<1>1. /\ version[u] \in Int /\ version'[u] = version[u] + 1
      /\ \A y \in Users : y # u => version'[y] = version[y]
      /\ \A y \in Users : version[y] \in Int /\ client[y].ver \in Int /\ client[y].seen \in Int
  BY EditRows, RecomputeAssumption DEF IInv, RestOK, Versions, Submission
<1>2. work' = work /\ client' = client /\ users' = users
  BY DEF Edits
<1>3. ItemsOK'
  <2>1. ASSUME NEW r \in Requests, req[r].state # "NONE"
        PROVE  req'[r].state # "NONE" /\ req'[r].goal = req[r].goal
    BY <2>1, EditRows
  <2>2. \A w \in Workers : work[w].pc # "idle" => work[w].req \in Requests
    BY DEF IInv, WorkOK
  <2> QED BY <1>2, <2>1, <2>2 DEF DataOK, ItemsOK
<1>4. ReadsOK'
  <2> SUFFICES ASSUME NEW x \in Users
               PROVE  LET c == client[x] IN
                      /\ c.pc # "idle" => c.ver <= version'[x]
                      /\ c.pc \in {"goal", "inputs"} =>
                           /\ Owner[c.goal] = x /\ goal'[c.goal].status # "NONE"
                           /\ users[x] = "ACTIVE" /\ c.ver = version'[x] => c.occ = goal'[c.goal].occ
                      /\ c.pc = "inputs" => c.ver <= c.seen /\ c.seen <= version'[x]
    BY <1>2 DEF ReadsOK
  <2> DEFINE c == client[x]
  <2>1. /\ c.pc # "idle" => c.ver <= version[x] /\ c.goal \in Goals
        /\ c.pc \in {"goal", "inputs"} =>
             /\ Owner[c.goal] = x /\ goal[c.goal].status # "NONE"
             /\ users[x] = "ACTIVE" /\ c.ver = version[x] => c.occ = goal[c.goal].occ
        /\ c.pc = "inputs" => c.ver <= c.seen /\ c.seen <= version[x]
    BY DEF DataOK, ReadsOK, IInv, RestOK
  <2>2. c.pc \in {"goal", "inputs"} => goal'[c.goal].status # "NONE"
    BY <2>1 DEF Edits
  <2>3. CASE x = u
    BY <1>1, <2>1, <2>2, <2>3
  <2>4. CASE x # u
    BY <1>1, <2>1, <2>2, <2>4 DEF Edits
  <2> QED BY <2>3, <2>4
<1> QED BY <1>3, <1>4

\* Edits keep all of it.
LEMMA EditsKeepData ==
  ASSUME IInv, DataOK, NEW u \in Users, NEW S, Edits(u, S)
  PROVE  DataOK'
BY EditsKeepRequests, EditsKeepPointers, EditsKeepTracked, EditsKeepReadings DEF DataOK

-----------------------------------------------------------------------------
(* The user's operations are edits.                                          *)

\* _persist_recompute_request records the request it is given.
LEMMA PersistRecords ==
  ASSUME NEW rows, NEW jobs, NEW u \in Users, NEW v \in Versions, NEW row \in New,
         RowsOK(rows, jobs, seq), PersistRequest(rows, jobs, row),
         row.user = u, row.ver = v, row.state = "PENDING" => Backed(row)'
  PROVE  Recorded(rows, u, v)
<1>1. seq + 1 \in Requests /\ seq \in Nat
  BY RecomputeAssumption DEF PersistRequest, RowsOK
<1>2. rows[seq + 1].state = "NONE" /\ req' = [rows EXCEPT ![seq + 1] = row]
  BY <1>1 DEF RowsOK, PersistRequest
<1> QED BY <1>1, <1>2 DEF Recorded

\* The FAILED request stored without a context.
LEMMA MissingRecords ==
  ASSUME NEW rows, NEW jobs, NEW u \in Users, NEW v \in Versions, NEW e \in Goals \cup {NoGoal},
         RowsOK(rows, jobs, seq), PersistRequest(rows, jobs, MissingContext(u, v, e))
  PROVE  Recorded(rows, u, v)
<1> DEFINE row == MissingContext(u, v, e)
<1>1. row \in New /\ row.user = u /\ row.ver = v /\ row.state # "PENDING"
  BY MissingContextOK DEF New, MissingContext
<1> HIDE DEF row
<1>2. PersistRequest(rows, jobs, row)
  BY DEF row
<1> QED BY <1>1, <1>2, PersistRecords

\* enqueue_for_goal records a request for the version it is given; a PENDING one is
\* backed by the goal row the transaction writes.
LEMMA EnqueueForGoalRecords ==
  ASSUME NEW rows, NEW jobs, NEW u \in Users, NEW v \in Versions, NEW g \in Goals,
         NEW row \in GoalRow, NEW e \in Goals \cup {NoGoal},
         RowsOK(rows, jobs, seq), EnqueueForGoal(rows, jobs, u, v, g, row, e),
         Owner[g] = u, goal'[g] = row, users'[u] = "ACTIVE"
  PROVE  Recorded(rows, u, v)
<1>1. CASE PersistRequest(rows, jobs, MissingContext(u, v, e))
  BY <1>1, MissingRecords
<1>2. CASE /\ row.status = "ACTIVE"
           /\ \E s \in Stamps : PersistRequest(rows, jobs, WithContext(u, v, g, row.occ, v, s, e))
  <2>1. PICK s \in Stamps : PersistRequest(rows, jobs, WithContext(u, v, g, row.occ, v, s, e))
    BY <1>2
  <2> DEFINE new == WithContext(u, v, g, row.occ, v, s, e)
  <2>2. v \in 0 .. MaxVersion /\ row.occ \in Occupations \cup {NoOcc}
    BY RecomputeAssumption DEF Versions, GoalRow
  <2>3. /\ new \in New /\ new.user = u /\ new.ver = v /\ new.goal = g /\ new.occ = row.occ
        /\ new.seen = v
    BY <2>2, WithContextOK DEF New, WithContext
  <2> HIDE DEF new
  <2>4. Backed(new)'
    BY <1>2, <2>3 DEF Backed
  <2>5. PersistRequest(rows, jobs, new)
    BY <2>1 DEF new
  <2> QED BY <2>3, <2>4, <2>5, PersistRecords
<1> QED BY <1>1, <1>2 DEF EnqueueForGoal

\* enqueue_for_active_user records one too.
LEMMA EnqueueForActiveUserRecords ==
  ASSUME NEW rows, NEW jobs, NEW goals \in [Goals -> GoalRow], NEW u \in Users,
         NEW v \in Versions, NEW e \in Goals \cup {NoGoal},
         RowsOK(rows, jobs, seq), EnqueueForActiveUser(rows, jobs, goals, u, v, e),
         goal' = goals, users'[u] = "ACTIVE"
  PROVE  Recorded(rows, u, v)
<1>1. CASE \E g \in ActiveGoals(goals, u) : EnqueueForGoal(rows, jobs, u, v, g, goals[g], e)
  <2>1. PICK g \in Goals : Owner[g] = u /\ EnqueueForGoal(rows, jobs, u, v, g, goals[g], e)
    BY <1>1 DEF ActiveGoals
  <2>2. goals[g] \in GoalRow /\ goal'[g] = goals[g]
    OBVIOUS
  <2> QED BY <2>1, <2>2, EnqueueForGoalRecords
<1>2. CASE PersistRequest(rows, jobs, MissingContext(u, v, e))
  BY <1>2, MissingRecords
<1> QED BY <1>1, <1>2 DEF EnqueueForActiveUser

\* Removing no rows changes nothing.
LEMMA WithoutNone == ASSUME IInv PROVE Without(req, {}) = req
BY DEF IInv, RowsOK, Without

\* mutate_profile and the writers like it are edits that remove nothing.
LEMMA EditProfileEdits ==
  ASSUME IInv, DataOK, NEW u \in Users, EditProfile(u)
  PROVE  Edits(u, {})
<1>1. version[u] + 1 \in Versions /\ users'[u] = "ACTIVE" /\ goal' = goal
      /\ goal \in [Goals -> GoalRow] /\ latest \in [Users -> Requests \cup {NoRequest}]
  BY BumpOK DEF EditProfile, Bump, IInv, RestOK
<1>2. Recorded(req, u, version[u] + 1)
  BY <1>1, EnqueueForActiveUserRecords DEF EditProfile, IInv
<1>3. \A r \in Requests : req[r].state \in Live => goal[req[r].goal].status # "DELETED"
  BY DEF DataOK, RequestsOK, Backed
<1>4. latest' = [latest EXCEPT ![u] = IF @ \in {} THEN NoRequest ELSE @]
  BY <1>1 DEF EditProfile
<1> QED BY <1>1, <1>2, <1>3, <1>4, WithoutNone DEF EditProfile, Edits

\* mutate_goal is an edit that removes nothing: only goals of the account change, and
\* none of them is deleted.
LEMMA MutateGoalEdits ==
  ASSUME IInv, DataOK, NEW u \in Users, NEW g \in Goals,
         NEW s \in {"DRAFT", "ACTIVE", "ARCHIVED"}, NEW t \in Targets, MutateGoal(u, g, s, t)
  PROVE  Edits(u, {})
<1>1. /\ version[u] + 1 \in Versions /\ users'[u] = "ACTIVE" /\ Owner[g] = u
      /\ goal' = [goal EXCEPT ![g] = GoalAs(s, t)]
      /\ goal \in [Goals -> GoalRow] /\ latest \in [Users -> Requests \cup {NoRequest}]
      /\ GoalAs(s, t) \in GoalRow /\ GoalAs(s, t).status = s
  BY BumpOK, GoalAsOK DEF MutateGoal, Bump, IInv, RestOK, GoalAs
<1>2. goal' \in [Goals -> GoalRow] /\ goal'[g] = GoalAs(s, t)
      /\ \A h \in Goals : h # g => goal'[h] = goal[h]
  BY <1>1
<1>3. Recorded(req, u, version[u] + 1)
  <2>1. CASE EnqueueForGoal(req, job, u, version[u] + 1, g, GoalAs(s, t), g)
    BY <1>1, <1>2, <2>1, EnqueueForGoalRecords DEF IInv
  <2>2. CASE EnqueueForActiveUser(req, job, goal', u, version[u] + 1, g)
    BY <1>1, <1>2, <2>2, EnqueueForActiveUserRecords DEF IInv
  <2> QED BY <2>1, <2>2 DEF MutateGoal
<1>4. \A r \in Requests : req[r].state \in Live => goal'[req[r].goal].status # "DELETED"
  BY <1>1, <1>2 DEF DataOK, RequestsOK, Backed
<1>5. latest' = [latest EXCEPT ![u] = IF @ \in {} THEN NoRequest ELSE @]
  BY <1>1 DEF MutateGoal
<1>6. \A h \in Goals : /\ Owner[h] # u => goal'[h] = goal[h]
                       /\ goal[h].status # "NONE" => goal'[h].status # "NONE"
  BY <1>1, <1>2
<1> QED BY <1>3, <1>4, <1>5, <1>6, WithoutNone DEF MutateGoal, Edits

\* delete_goal is an edit that removes the requests of the goal.  Every answer of the
\* goal goes with its request, and the pointer with the answer.
LEMMA DeleteGoalEdits ==
  ASSUME IInv, DataOK, NEW u \in Users, NEW g \in Goals, DeleteGoal(u, g)
  PROVE  Edits(u, RequestsOfGoal(u, g))
<1> DEFINE S     == RequestsOfGoal(u, g)
           goals == [goal EXCEPT ![g] = GoalAs("DELETED", NoTarget)]
           gone  == {r \in Requests : analysis[r] = g}
<1>1. /\ S \in SUBSET {r \in Requests : req[r].state \in Stored /\ req[r].user = u}
      /\ S \in SUBSET Requests /\ \A r \in S : req[r].state \in Stored
  BY DEF RequestsOfGoal
<1>2. /\ version[u] + 1 \in Versions /\ users'[u] = "ACTIVE" /\ Owner[g] = u
      /\ goal' = goals /\ goals \in [Goals -> GoalRow]
      /\ goals[g].status = "DELETED" /\ \A h \in Goals : h # g => goals[h] = goal[h]
      /\ latest \in [Users -> Requests \cup {NoRequest}]
      /\ analysis \in [Requests -> Goals \cup {NoGoal}]
      /\ NoRequest \notin Requests /\ NoGoal \notin Goals
  <2>1. version[u] + 1 \in Versions /\ users'[u] = "ACTIVE" /\ Owner[g] = u /\ goal' = goals
    BY BumpOK DEF DeleteGoal, Bump, IInv
  <2>2. goal \in [Goals -> GoalRow] /\ GoalAs("DELETED", NoTarget) \in GoalRow
    BY GoalAsOK DEF IInv, RestOK
  <2>3. GoalAs("DELETED", NoTarget).status = "DELETED"
    BY DEF GoalAs
  <2>4. /\ goals \in [Goals -> GoalRow] /\ goals[g].status = "DELETED"
        /\ \A h \in Goals : h # g => goals[h] = goal[h]
    BY <2>2, <2>3
  <2> QED BY <2>1, <2>4, RecomputeAssumption DEF IInv, RestOK, Requests
<1>3. \A r \in Requests :
        /\ req[r].state \in Live => Backed(req[r])
        /\ analysis[r] = IF req[r].state = "READY" THEN req[r].goal ELSE NoGoal
  BY DEF DataOK, RequestsOK
<1>4. \A r \in Requests : req[r].state \in Live =>
        /\ req[r].goal \in Goals /\ goal[req[r].goal].status # "DELETED"
        /\ Owner[req[r].goal] = req[r].user
        /\ (r \in S <=> req[r].user = u /\ req[r].goal = g)
  BY <1>2, <1>3 DEF Backed, RequestsOfGoal, Live, Stored, Settled
<1>5. \A r \in Requests : r \in gone <=> r \in S /\ req[r].state = "READY"
  BY <1>2, <1>3, <1>4 DEF Live
<1>6. \A r \in Requests : analysis'[r] = IF r \in S THEN NoGoal ELSE analysis[r]
  <2>1. \A r \in Requests : analysis'[r] = IF r \in gone THEN NoGoal ELSE analysis[r]
    BY DEF DeleteGoal
  <2> QED BY <1>3, <1>5, <2>1
<1>7. latest' = [latest EXCEPT ![u] = IF @ \in S THEN NoRequest ELSE @]
  <2>1. latest' = [latest EXCEPT ![u] = IF @ \in gone THEN NoRequest ELSE @]
    BY DEF DeleteGoal
  <2>2. latest[u] \in gone <=> latest[u] \in S
    <3>1. CASE latest[u] = NoRequest
      BY <1>1, <1>2, <3>1
    <3>2. CASE latest[u] # NoRequest
      <4>1. latest[u] \in Requests /\ req[latest[u]].state = "READY"
        BY <1>2, <3>2 DEF DataOK, PointersOK
      <4> QED BY <1>5, <4>1
    <3> QED BY <3>1, <3>2
  <2> HIDE DEF S, gone
  <2> QED BY <2>1, <2>2
<1>8. RowsOK(Without(req, S), JobsWithout(job, S), seq)
  BY <1>1, RemovalOK DEF IInv
<1>9. \/ ActiveGoals(goals, u) = {} /\ req' = Without(req, S)
      \/ Recorded(Without(req, S), u, version[u] + 1)
  <2>1. CASE \E a \in ActiveGoals(goals, u) :
               EnqueueForGoal(Without(req, S), JobsWithout(job, S), u, version[u] + 1, a, goals[a], g)
    <3>1. PICK a \in Goals :
               /\ Owner[a] = u
               /\ EnqueueForGoal(Without(req, S), JobsWithout(job, S), u, version[u] + 1, a, goals[a], g)
      BY <2>1 DEF ActiveGoals
    <3>2. goals[a] \in GoalRow /\ goal'[a] = goals[a]
      BY <1>2
    <3> HIDE DEF goals, S
    <3> QED BY <1>2, <1>8, <3>1, <3>2, EnqueueForGoalRecords
  <2> QED BY <2>1 DEF DeleteGoal
<1>10. \A h \in Goals : /\ Owner[h] # u => goal'[h] = goal[h]
                        /\ goal[h].status # "NONE" => goal'[h].status # "NONE"
  BY <1>2
<1>11. \A r \in Requests \ S : req[r].user = u /\ req[r].state \in Live
         => goal'[req[r].goal].status # "DELETED"
  BY <1>2, <1>4
<1>12. Bump(u) /\ UNCHANGED <<users, work, client>>
  BY DEF DeleteGoal
<1> HIDE DEF S, goals, gone
<1>13. Edits(u, S)
  BY <1>1, <1>2, <1>6, <1>7, <1>9, <1>10, <1>11, <1>12 DEF Edits
<1> QED BY <1>13 DEF S

-----------------------------------------------------------------------------
(* Erasing an account.                                                       *)

\* delete_account: nothing of the account is left to point at or to finish.
LEMMA DeleteAccountData ==
  ASSUME IInv, DataOK, NEW u \in Users, DeleteAccount(u)
  PROVE  DataOK'
<1> DEFINE S == {r \in Requests : req[r].state \in Stored /\ req[r].user = u}
<1>1. /\ req \in [Requests -> RequestRow] /\ goal \in [Goals -> GoalRow]
      /\ latest \in [Users -> Requests \cup {NoRequest}] /\ users \in [Users -> {"ACTIVE", "ERASED"}]
      /\ \A r \in Requests : req[r].user \in Users
      /\ NoRequest \notin Requests
  BY RecomputeAssumption DEF IInv, RowsOK, RestOK, RequestRow, Requests
<1>2. \A r \in Requests :
        /\ r \notin S => req'[r] = req[r]
        /\ r \in S => /\ req'[r].state = "DELETED" /\ req'[r].user = req[r].user
                      /\ req'[r].ver = req[r].ver /\ req'[r].goal = req[r].goal
  <2>1. S \in SUBSET {r \in Requests : req[r].state \in Stored} /\ req' = Without(req, S)
    BY DEF DeleteAccount
  <2> HIDE DEF S
  <2> QED BY <2>1, RemovedRows
<1>3. /\ users' = [users EXCEPT ![u] = "ERASED"] /\ version' = version /\ work' = work /\ client' = client
      /\ latest' = [latest EXCEPT ![u] = NoRequest]
      /\ \A r \in Requests : analysis'[r] = IF req[r].user = u THEN NoGoal ELSE analysis[r]
      /\ \A h \in Goals : /\ Owner[h] = u => goal'[h].status = "DELETED"
                          /\ Owner[h] # u => goal'[h] = goal[h]
  BY DEF DeleteAccount, GoalAs
<1>4. RequestsOK'
  <2> SUFFICES ASSUME NEW r \in Requests
               PROVE  /\ req'[r].state # "NONE" => req'[r].ver <= version'[req'[r].user]
                      /\ req'[r].state \in Live => Backed(req[r])'
                      /\ analysis'[r] = IF req'[r].state = "READY" THEN req'[r].goal ELSE NoGoal
    BY DEF RequestsOK
  <2>1. /\ req[r].state # "NONE" => req[r].ver <= version[req[r].user]
        /\ req[r].state \in Live => Backed(req[r])
        /\ analysis[r] = IF req[r].state = "READY" THEN req[r].goal ELSE NoGoal
    BY DEF DataOK, RequestsOK
  <2>2. CASE req[r].user = u
    <3>1. req'[r].state \notin Live /\ analysis'[r] = NoGoal
      BY <1>2, <1>3, <2>2 DEF Live, Open, Stored, Settled
    <3>2. req'[r].state # "NONE" => req[r].state # "NONE"
      BY <1>2 DEF Stored, Open, Settled
    <3>3. req'[r].user = req[r].user /\ req'[r].ver = req[r].ver
      BY <1>2
    <3> QED BY <1>3, <2>1, <3>1, <3>2, <3>3 DEF Live
  <2>3. CASE req[r].user # u
    BY <1>1, <1>2, <1>3, <2>1, <2>3 DEF Backed
  <2> QED BY <2>2, <2>3
<1>5. PointersOK'
  <2>1. ASSUME NEW x \in Users, latest'[x] # NoRequest
        PROVE  /\ x # u /\ latest'[x] = latest[x] /\ latest[x] \in Requests
               /\ req'[latest[x]] = req[latest[x]]
               /\ req[latest[x]].state = "READY" /\ req[latest[x]].user = x
    BY <1>1, <1>2, <1>3, <2>1 DEF DataOK, PointersOK
  <2>2. ASSUME NEW r \in Requests, req'[r].state = "READY", req'[r].ver = version'[req'[r].user]
        PROVE  latest'[req'[r].user] # NoRequest /\ req'[latest'[req'[r].user]].ver = version'[req'[r].user]
    <3>1. req'[r] = req[r] /\ req[r].user # u
      BY <1>2, <2>2 DEF Stored, Settled
    <3> QED BY <1>1, <1>3, <2>1, <2>2, <3>1 DEF DataOK, PointersOK, LatestIsCurrent
  <2> QED BY <2>1, <2>2 DEF PointersOK, LatestIsCurrent
<1>6. EditsAreTracked'
  <2> SUFFICES ASSUME NEW x \in Users, ActiveGoals(goal', x) # {}
               PROVE  \E r \in Requests : req'[r].state \in Stored /\ req'[r].user = x /\ req'[r].ver = version'[x]
    BY DEF EditsAreTracked
  <2>1. x # u /\ ActiveGoals(goal', x) = ActiveGoals(goal, x)
    BY <1>3 DEF ActiveGoals
  <2>2. PICK r \in Requests : req[r].state \in Stored /\ req[r].user = x /\ req[r].ver = version[x]
    BY <2>1 DEF DataOK, EditsAreTracked
  <2> QED BY <1>2, <1>3, <2>1, <2>2
<1>7. ItemsOK'
  <2>1. \A r \in Requests : req[r].state # "NONE" => req'[r].state # "NONE" /\ req'[r].goal = req[r].goal
    BY <1>2
  <2>2. \A w \in Workers : work[w].pc # "idle" => work[w].req \in Requests
    BY DEF IInv, WorkOK
  <2> QED BY <1>3, <2>1, <2>2 DEF DataOK, ItemsOK
<1>8. ReadsOK'
  BY <1>1, <1>3 DEF DataOK, ReadsOK, IInv, RestOK
<1> QED BY <1>4, <1>5, <1>6, <1>7, <1>8 DEF DataOK

-----------------------------------------------------------------------------
(* Submissions.                                                              *)

\* What a submission that is accepted stores: a request for the version it has read,
\* which is still the current one.
LEMMA SubmitRecords ==
  ASSUME IInv, DataOK, NEW u \in Users, NEW s \in Stamps, NEW f \in BOOLEAN, SubmitAccepted(u, s, f)
  PROVE  Recorded(req, u, version[u]) /\ version[u] \in Versions
<1> DEFINE c    == client[u]
           made == WithContext(u, c.ver, c.goal, c.occ, c.seen, s, c.goal)
<1>1. /\ c.pc = "inputs" /\ users[u] = "ACTIVE" /\ c.ver = version[u]
      /\ version' = version /\ goal' = goal /\ users' = users
      /\ goal[c.goal].status # "DELETED"
  BY DEF SubmitAccepted, Submits
<1>2. /\ c.ver \in Versions /\ c.goal \in Goals
      /\ c.occ \in Occupations \cup {NoOcc} /\ c.seen \in 0 .. MaxVersion
  BY <1>1 DEF IInv, RestOK, Submission
<1>3. /\ Owner[c.goal] = u /\ goal[c.goal].status # "NONE" /\ c.occ = goal[c.goal].occ
      /\ c.seen = c.ver
  BY <1>1, <1>2 DEF DataOK, ReadsOK, Versions
<1>4. PICK row \in New : /\ row = made /\ row.user = u /\ row.ver = c.ver /\ row.goal = c.goal
                         /\ row.occ = c.occ /\ row.seen = c.seen
  <2>1. /\ made \in New /\ made.user = u /\ made.ver = c.ver /\ made.goal = c.goal
        /\ made.occ = c.occ /\ made.seen = c.seen
    BY <1>2, WithContextOK DEF New, WithContext
  <2> HIDE DEF made
  <2> QED BY <2>1
<1>5. PersistRequest(req, job, row)
  BY <1>4 DEF SubmitAccepted
<1>6. Backed(row)'
  BY <1>1, <1>2, <1>3, <1>4 DEF Backed
<1> QED BY <1>1, <1>2, <1>4, <1>5, <1>6, PersistRecords DEF IInv

\* submit_analysis_recompute_in_session keeps the invariant when it stores a request.
LEMMA SubmitAcceptedData ==
  ASSUME IInv, DataOK, NEW u \in Users, NEW s \in Stamps, NEW f \in BOOLEAN, SubmitAccepted(u, s, f)
  PROVE  DataOK'
<1>1. /\ UNCHANGED <<users, version, latest, goal, analysis, work>>
      /\ client' = [client EXCEPT ![u] = NoClient]
  BY DEF SubmitAccepted
<1>2. \A r \in Requests :
        \/ req'[r] = req[r]
        \/ /\ req[r].state = "NONE" /\ req'[r].user = u /\ req'[r].ver = version[u]
           /\ req'[r].state \in {"PENDING", "FAILED"}
           /\ req'[r].state = "PENDING" => Backed(req[r])'
  <2>1. req \in [Requests -> RequestRow]
    BY DEF IInv, RowsOK
  <2> QED BY <2>1, SubmitRecords, RecordedRows
<1>3. /\ version[u] \in Int /\ latest \in [Users -> Requests \cup {NoRequest}]
      /\ \A r \in Requests : req[r].user \in Users
      /\ \A w \in Workers : work[w].pc # "idle" => work[w].req \in Requests
  BY RecomputeAssumption DEF IInv, RestOK, RowsOK, WorkOK, RequestRow, Versions
<1>4. RequestsOK'
  <2> SUFFICES ASSUME NEW r \in Requests
               PROVE  /\ req'[r].state # "NONE" => req'[r].ver <= version'[req'[r].user]
                      /\ req'[r].state \in Live => Backed(req[r])'
                      /\ analysis'[r] = IF req'[r].state = "READY" THEN req'[r].goal ELSE NoGoal
    BY DEF RequestsOK
  <2>1. CASE req'[r] = req[r]
    BY <1>1, <2>1 DEF DataOK, RequestsOK, Backed
  <2>2. CASE req'[r] # req[r]
    BY <1>1, <1>2, <1>3, <2>2 DEF DataOK, RequestsOK, Live, Open
  <2> QED BY <2>1, <2>2
<1>5. PointersOK'
  <2>1. \A x \in Users : latest[x] # NoRequest =>
          /\ latest[x] \in Requests /\ req[latest[x]].state = "READY" /\ req[latest[x]].user = x
          /\ req'[latest[x]] = req[latest[x]]
    BY <1>2, <1>3 DEF DataOK, PointersOK
  <2>2. \A r \in Requests : req'[r].state = "READY" => req'[r] = req[r]
    BY <1>2
  <2> QED BY <1>1, <1>3, <2>1, <2>2 DEF DataOK, PointersOK, LatestIsCurrent
<1>6. EditsAreTracked'
  <2> SUFFICES ASSUME NEW x \in Users, ActiveGoals(goal, x) # {}
               PROVE  \E r \in Requests : req'[r].state \in Stored /\ req'[r].user = x /\ req'[r].ver = version[x]
    BY <1>1 DEF EditsAreTracked
  <2>1. PICK r \in Requests : req[r].state \in Stored /\ req[r].user = x /\ req[r].ver = version[x]
    BY DEF DataOK, EditsAreTracked
  <2> QED BY <1>2, <2>1 DEF Stored, Open, Settled
<1>7. ItemsOK'
  BY <1>1, <1>2, <1>3 DEF DataOK, ItemsOK
<1>8. ReadsOK'
  BY <1>1, NoClientOK DEF DataOK, ReadsOK, IInv, RestOK
<1> QED BY <1>4, <1>5, <1>6, <1>7, <1>8 DEF DataOK

\* The reads of a submission take what is there; a rejected one forgets it.
LEMMA ClientReadData ==
  ASSUME IInv, DataOK, NEW u \in Users, NEW g \in Goals, NEW s \in Stamps, NEW f \in BOOLEAN,
         ReadVersion(u, g) \/ ReadGoal(u) \/ ReadInputs(u) \/ SubmitAnswered(u, s, f)
  PROVE  DataOK'
<1>1. UNCHANGED <<users, version, latest, goal, req, analysis, work>>
  BY DEF ReadVersion, ReadGoal, ReadInputs, SubmitAnswered
<1> DEFINE fit(c) ==
      /\ c.pc # "idle" => c.ver <= version[u]
      /\ c.pc \in {"goal", "inputs"} =>
           /\ Owner[c.goal] = u /\ goal[c.goal].status # "NONE"
           /\ users[u] = "ACTIVE" /\ c.ver = version[u] => c.occ = goal[c.goal].occ
      /\ c.pc = "inputs" => c.ver <= c.seen /\ c.seen <= version[u]
<1>2. fit(client[u]) /\ version[u] \in Int
  BY RecomputeAssumption DEF DataOK, ReadsOK, IInv, RestOK, Versions
<1>3. \E x : fit(x) /\ client' = [client EXCEPT ![u] = x]
  <2>0. fit(NoClient)
    BY NoClientOK
  <2>1. CASE ReadVersion(u, g)
    <3>1. fit(Has("version", version[u], g, NoOcc, 0))
      BY <1>2 DEF Has
    <3> QED BY <2>1, <3>1 DEF ReadVersion
  <2>2. CASE ReadGoal(u)
    <3> DEFINE c == client[u]
               x == Has("goal", c.ver, c.goal, goal[c.goal].occ, 0)
    <3>1. ASSUME Owner[c.goal] = u, goal[c.goal].status = "ACTIVE" PROVE fit(x)
      BY <1>2, <2>2, <3>1 DEF ReadGoal, Has
    <3> HIDE DEF fit
    <3> QED BY <2>0, <2>2, <3>1 DEF ReadGoal
  <2>3. CASE ReadInputs(u)
    <3> DEFINE c == client[u]
               x == Has("inputs", c.ver, c.goal, c.occ, version[u])
    <3>1. fit(x)
      BY <1>2, <2>3 DEF ReadInputs, Has
    <3> HIDE DEF fit
    <3> QED BY <2>0, <2>3, <3>1 DEF ReadInputs
  <2>4. CASE SubmitAnswered(u, s, f)
    BY <2>0, <2>4 DEF SubmitAnswered
  <2> QED BY <2>1, <2>2, <2>3, <2>4
<1>4. ReadsOK'
  <2>1. client \in [Users -> Submission]
    BY DEF IInv, RestOK
  <2>2. fit(client'[u]) /\ \A x \in Users : x # u => client'[x] = client[x]
    BY <1>3, <2>1
  <2> QED BY <1>1, <2>2 DEF DataOK, ReadsOK
<1> QED BY <1>1, <1>4 DEF DataOK, RequestsOK, Backed, PointersOK, LatestIsCurrent,
                          EditsAreTracked, ItemsOK

-----------------------------------------------------------------------------
(* The workers.                                                              *)

\* Changing the state of a request changes nothing else of it.
LEMMA RestateFields ==
  ASSUME NEW row \in RequestRow, NEW s \in Stored
  PROVE  LET x == Restate(row, s) IN
         /\ x.state = s /\ x.user = row.user /\ x.ver = row.ver /\ x.goal = row.goal
         /\ x.occ = row.occ /\ x.seen = row.seen
BY DEF RequestRow, Restate

\* What the request rows look like after a step that restates some of them.
LEMMA RestatedRows ==
  ASSUME IInv, Restated, NEW r \in Requests
  PROVE  /\ req'[r].user = req[r].user /\ req'[r].ver = req[r].ver /\ req'[r].goal = req[r].goal
         /\ req'[r].occ = req[r].occ /\ req'[r].seen = req[r].seen
         /\ \/ req'[r].state = req[r].state
            \/ req[r].state \in Open /\ req'[r].state \in {"RUNNING", "FAILED"}
<1>1. req[r] \in RequestRow
  BY DEF IInv, RowsOK
<1>2. CASE req'[r] = req[r]
  BY <1>2
<1>3. CASE req[r].state \in Open /\ \E s \in {"RUNNING", "FAILED"} : req'[r] = Restate(req[r], s)
  <2>1. PICK s \in {"RUNNING", "FAILED"} : req'[r] = Restate(req[r], s)
    BY <1>3
  <2>2. s \in Stored
    BY DEF Stored, Open, Settled
  <2> QED BY <1>1, <1>3, <2>1, <2>2, RestateFields
<1> QED BY <1>2, <1>3 DEF Restated

\* Claiming, deferring, retiring and failing requests stores no result and moves no
\* pointer, so what the requests promise stays true of them.
LEMMA RestatedKeepsData ==
  ASSUME IInv, DataOK, Restated, ItemsOK'
  PROVE  DataOK'
<1>1. UNCHANGED <<users, version, goal, latest, analysis, client>>
  BY DEF Restated
<1>2. RequestsOK'
  <2> SUFFICES ASSUME NEW r \in Requests
               PROVE  /\ req'[r].state # "NONE" => req'[r].ver <= version'[req'[r].user]
                      /\ req'[r].state \in Live => Backed(req[r])'
                      /\ analysis'[r] = IF req'[r].state = "READY" THEN req'[r].goal ELSE NoGoal
    BY DEF RequestsOK
  <2>1. /\ req[r].state # "NONE" => req[r].ver <= version[req[r].user]
        /\ req[r].state \in Live => Backed(req[r])
        /\ analysis[r] = IF req[r].state = "READY" THEN req[r].goal ELSE NoGoal
    BY DEF DataOK, RequestsOK
  <2>2. /\ req'[r].state # "NONE" <=> req[r].state # "NONE"
        /\ req'[r].state \in Live => req[r].state \in Live
        /\ req'[r].state = "READY" <=> req[r].state = "READY"
    BY RestatedRows DEF Open, Live
  <2>3. req[r].state \in Live => Backed(req[r])'
    BY <1>1, <2>1, RestatedRows DEF Backed
  <2> QED BY <1>1, <2>1, <2>2, <2>3, RestatedRows
<1>3. \A r \in Requests : /\ req[r].state = "READY" <=> req'[r].state = "READY"
                          /\ req'[r].user = req[r].user /\ req'[r].ver = req[r].ver
                          /\ req[r].state \in Stored => req'[r].state \in Stored
  BY RestatedRows DEF Open, Stored, Settled
<1>4. \A u \in Users : latest[u] # NoRequest => latest[u] \in Requests
  BY DEF IInv, RestOK
<1>5. PointersOK'
  <2>1. \A r \in Requests : req[r].user \in Users
    BY DEF IInv, RowsOK, RequestRow
  <2> QED BY <1>1, <1>3, <1>4, <2>1 DEF DataOK, PointersOK, LatestIsCurrent
<1>6. EditsAreTracked'
  <2> SUFFICES ASSUME NEW u \in Users, ActiveGoals(goal, u) # {}
               PROVE  \E r \in Requests : req'[r].state \in Stored /\ req'[r].user = u /\ req'[r].ver = version[u]
    BY <1>1 DEF EditsAreTracked
  <2>1. PICK r \in Requests : req[r].state \in Stored /\ req[r].user = u /\ req[r].ver = version[u]
    BY DEF DataOK, EditsAreTracked
  <2> QED BY <1>3, <2>1
<1>7. ReadsOK'
  BY <1>1 DEF DataOK, ReadsOK
<1> QED BY <1>2, <1>5, <1>6, <1>7 DEF DataOK

\* A worker that keeps or drops its item, under restated requests.
LEMMA RestatedKeepsItems ==
  ASSUME IInv, DataOK, Restated, NEW w \in Workers, UNCHANGED work \/ Release(w)
  PROVE  ItemsOK'
<1>1. \A x \in Workers : work'[x] = work[x] \/ work'[x].pc = "idle"
  BY IdleOK DEF Release, IInv, RestOK
<1>2. \A x \in Workers : work[x].pc # "idle" => work[x].req \in Requests
  BY DEF IInv, WorkOK
<1>3. \A r \in Requests : /\ req'[r].goal = req[r].goal
                          /\ req[r].state # "NONE" => req'[r].state # "NONE"
  BY RestatedRows
<1> QED BY <1>1, <1>2, <1>3 DEF DataOK, ItemsOK

\* The rows the claim has retired are restated, the others as they were.
LEMMA RetiredRestated ==
  ASSUME NEW r \in Requests
  PROVE  \/ RetiredRows[r] = req[r]
         \/ req[r].state \in Open /\ RetiredRows[r] = Restate(req[r], "FAILED")
BY DEF RetiredRows, Stale, Claimable, Restate

\* claim_recompute_work restates requests: the stale ones fail, the leased one runs.
LEMMA ClaimRestated ==
  ASSUME IInv, NEW w \in Workers, NEW r \in Requests,
         RetireStale(w) \/ ClaimBusy(w, r) \/ ClaimOverBudget(w, r) \/ ClaimLease(w, r)
  PROVE  Restated
<1>1. CASE RetireStale(w) \/ ClaimBusy(w, r) \/ ClaimOverBudget(w, r)
  <2>1. req' = RetiredRows /\ UNCHANGED <<users, version, goal, latest, analysis, client>>
    BY <1>1 DEF RetireStale, ClaimBusy, ClaimOverBudget, Defer
  <2> QED BY <2>1, RetiredRestated DEF Restated
<1>2. CASE ClaimLease(w, r)
  <2>1. /\ req' = [RetiredRows EXCEPT ![r].state = "RUNNING"]
        /\ UNCHANGED <<users, version, goal, latest, analysis, client>>
    BY <1>2 DEF ClaimLease
  <2>2. r \in Current /\ req[r].state \in Open
    BY <1>2 DEF ClaimLease, Current, Claimable
  <2>3. RetiredRows[r] = req[r] /\ RetiredRows \in [Requests -> RequestRow]
    <3>1. req[r].user \in Users /\ version[req[r].user] \in Int
      BY DEF IInv, RowsOK, RestOK, RequestRow, Versions
    <3> QED BY <2>2, <3>1, RetireOK DEF IInv, RowsOK
  <2>4. req'[r] = Restate(req[r], "RUNNING") /\ \A q \in Requests : q # r => req'[q] = RetiredRows[q]
    BY <2>1, <2>3 DEF Restate
  <2> QED BY <2>1, <2>2, <2>4, RetiredRestated DEF Restated
<1> QED BY <1>1, <1>2

\* claim_recompute_work keeps the invariant: the item it hands out is a request.
LEMMA ClaimData ==
  ASSUME IInv, DataOK, NEW w \in Workers, NEW r \in Requests,
         RetireStale(w) \/ ClaimBusy(w, r) \/ ClaimOverBudget(w, r) \/ ClaimLease(w, r)
  PROVE  DataOK'
<1>1. Restated
  BY ClaimRestated
<1>2. CASE RetireStale(w) \/ ClaimBusy(w, r) \/ ClaimOverBudget(w, r)
  <2>1. work' = work
    BY <1>2 DEF RetireStale, ClaimBusy, ClaimOverBudget, Defer
  <2> QED BY <1>1, <2>1, RestatedKeepsItems, RestatedKeepsData
<1>3. CASE ClaimLease(w, r)
  <2>1. PICK t \in Tokens : work' = [work EXCEPT ![w] = Holds("claimed", r, t, NoGoal)]
    BY <1>3 DEF ClaimLease, FreshTokens
  <2>2. Holds("claimed", r, t, NoGoal).pc = "claimed" /\ Holds("claimed", r, t, NoGoal).req = r
    BY DEF Holds
  <2>3. work'[w].pc = "claimed" /\ work'[w].req = r
        /\ \A x \in Workers : x # w => work'[x] = work[x]
    BY <2>1, <2>2 DEF IInv, RestOK
  <2>4. \A q \in Requests : /\ req'[q].goal = req[q].goal
                            /\ req[q].state # "NONE" => req'[q].state # "NONE"
    BY <1>1, RestatedRows
  <2>5. \A x \in Workers : work[x].pc # "idle" => work[x].req \in Requests
    BY DEF IInv, WorkOK
  <2>6. req[r].state # "NONE"
    BY <1>3 DEF ClaimLease, Current, Claimable, Open
  <2>7. ItemsOK'
    BY <2>3, <2>4, <2>5, <2>6 DEF DataOK, ItemsOK
  <2> QED BY <1>1, <2>7, RestatedKeepsData
<1> QED BY <1>2, <1>3

\* load_recompute_context keeps it: the item gets the goal of its request's context.
LEMMA LoadContextData ==
  ASSUME IInv, DataOK, NEW w \in Workers, LoadContext(w)
  PROVE  DataOK'
<1>1. Restated
  BY DEF LoadContext, Restated
<1>2. CASE Release(w)
  BY <1>1, <1>2, RestatedKeepsItems, RestatedKeepsData
<1>3. CASE work' = [work EXCEPT ![w] = Holds("loaded", work[w].req, work[w].token, req[work[w].req].goal)]
  <2>1. /\ work'[w].req = work[w].req /\ work'[w].goal = req[work[w].req].goal
        /\ work[w].pc # "idle" /\ req' = req
        /\ \A x \in Workers : x # w => work'[x] = work[x]
    BY <1>3 DEF LoadContext, Holds, IInv, RestOK
  <2>2. ItemsOK'
    BY <2>1 DEF DataOK, ItemsOK
  <2> QED BY <1>1, <2>2, RestatedKeepsData
<1> QED BY <1>2, <1>3 DEF LoadContext

\* fail_recompute restates a request; a rejected settlement and a crash leave all.
LEMMA FailRestated ==
  ASSUME IInv, NEW w \in Workers, FailRecompute(w) \/ SettleRejected(w) \/ Crash(w)
  PROVE  Restated /\ Release(w)
<1>1. CASE FailRecompute(w)
  <2> DEFINE r == work[w].req
  <2>1. r \in Requests /\ req[r].state \in Open /\ req' = [req EXCEPT ![r].state = "FAILED"]
    BY <1>1 DEF FailRecompute, MaySettle, IInv, WorkOK, Open
  <2>2. req \in [Requests -> RequestRow]
    BY DEF IInv, RowsOK
  <2> HIDE DEF r
  <2>3. req'[r] = Restate(req[r], "FAILED") /\ \A q \in Requests : q # r => req'[q] = req[q]
    BY <2>1, <2>2 DEF Restate
  <2> QED BY <1>1, <2>1, <2>3 DEF Restated, FailRecompute
<1>2. CASE SettleRejected(w) \/ Crash(w)
  BY <1>2 DEF SettleRejected, Crash, Restated
<1> QED BY <1>1, <1>2

\* So they keep the invariant.
LEMMA FailData ==
  ASSUME IInv, DataOK, NEW w \in Workers, FailRecompute(w) \/ SettleRejected(w) \/ Crash(w)
  PROVE  DataOK'
BY FailRestated, RestatedKeepsItems, RestatedKeepsData

\* finalize_recompute keeps it: the result belongs to the goal of the request's
\* context, and it becomes the latest exactly when its version is the current one.
LEMMA FinalizeData ==
  ASSUME IInv, DataOK, NEW w \in Workers, FinalizeRecompute(w)
  PROVE  DataOK'
<1> DEFINE r == work[w].req
           u == req[r].user
<1>1. /\ r \in Requests /\ req[r].state = "RUNNING" /\ work[w].goal = req[r].goal
      /\ req[r] \in RequestRow /\ u \in Users
  BY DEF FinalizeRecompute, MaySettle, IInv, WorkOK, RowsOK, RequestRow, DataOK, ItemsOK
<1>2. /\ req' = [req EXCEPT ![r].state = "READY"] /\ analysis' = [analysis EXCEPT ![r] = req[r].goal]
      /\ latest' = IF version[u] = req[r].ver THEN [latest EXCEPT ![u] = r] ELSE latest
      /\ UNCHANGED <<users, version, goal, client>> /\ Release(w)
  BY <1>1 DEF FinalizeRecompute
<1> HIDE DEF r
<1>3. /\ req \in [Requests -> RequestRow] /\ analysis \in [Requests -> Goals \cup {NoGoal}]
      /\ latest \in [Users -> Requests \cup {NoRequest}]
      /\ NoRequest \notin Requests
  BY RecomputeAssumption DEF IInv, RestOK, RowsOK, Requests
<1>4. /\ req'[r].state = "READY" /\ req'[r].user = req[r].user /\ req'[r].ver = req[r].ver
      /\ req'[r].goal = req[r].goal /\ req'[r].occ = req[r].occ /\ req'[r].seen = req[r].seen
      /\ \A q \in Requests : q # r => req'[q] = req[q] /\ analysis'[q] = analysis[q]
      /\ analysis'[r] = req[r].goal
  <2>1. "READY" \in Stored /\ req'[r] = Restate(req[r], "READY")
    BY <1>1, <1>2, <1>3 DEF Stored, Settled, Restate
  <2> QED BY <1>1, <1>2, <1>3, <2>1, RestateFields
<1>5. RequestsOK'
  <2> SUFFICES ASSUME NEW q \in Requests
               PROVE  /\ req'[q].state # "NONE" => req'[q].ver <= version'[req'[q].user]
                      /\ req'[q].state \in Live => Backed(req[q])'
                      /\ analysis'[q] = IF req'[q].state = "READY" THEN req'[q].goal ELSE NoGoal
    BY DEF RequestsOK
  <2>1. /\ req[q].state # "NONE" => req[q].ver <= version[req[q].user]
        /\ req[q].state \in Live => Backed(req[q])
        /\ analysis[q] = IF req[q].state = "READY" THEN req[q].goal ELSE NoGoal
    BY DEF DataOK, RequestsOK
  <2>2. CASE q = r
    BY <1>1, <1>2, <1>4, <2>1, <2>2 DEF Backed, Live, Open
  <2>3. CASE q # r
    BY <1>2, <1>4, <2>1, <2>3 DEF Backed
  <2> QED BY <2>2, <2>3
<1>6. PointersOK'
  <2>1. \A x \in Users : latest[x] # NoRequest =>
          latest[x] \in Requests /\ req[latest[x]].state = "READY" /\ req[latest[x]].user = x
    BY <1>3 DEF DataOK, PointersOK
  <2>2. \A q \in Requests : /\ req'[q].user = req[q].user /\ req'[q].ver = req[q].ver
                            /\ req'[q].state = "READY" <=> q = r \/ req[q].state = "READY"
    BY <1>4
  <2>3. \A x \in Users : latest'[x] = IF x = u /\ version[u] = req[r].ver THEN r ELSE latest[x]
    BY <1>2, <1>3
  <2>4. \A x \in Users : latest'[x] # NoRequest => req'[latest'[x]].state = "READY" /\ req'[latest'[x]].user = x
    BY <1>1, <2>1, <2>2, <2>3
  <2>5. LatestIsCurrent'
    <3> SUFFICES ASSUME NEW q \in Requests, req'[q].state = "READY", req'[q].ver = version'[req'[q].user]
                 PROVE  /\ latest'[req'[q].user] # NoRequest
                        /\ req'[latest'[req'[q].user]].ver = version'[req'[q].user]
      BY DEF LatestIsCurrent
    <3> DEFINE x == req[q].user
    <3>1. x \in Users /\ req'[q].user = x /\ version' = version /\ req[q].ver = version[x]
      BY <1>2, <1>3, <2>2 DEF RequestRow
    <3>2. CASE x = u /\ version[u] = req[r].ver
      BY <1>1, <1>3, <2>2, <2>3, <3>1, <3>2
    <3>3. CASE ~(x = u /\ version[u] = req[r].ver)
      <4>1. req[q].state = "READY" /\ latest'[x] = latest[x]
        BY <2>2, <2>3, <3>1, <3>3
      <4>2. latest[x] # NoRequest /\ req[latest[x]].ver = version[x]
        BY <3>1, <4>1 DEF DataOK, PointersOK, LatestIsCurrent
      <4> QED BY <2>1, <2>2, <3>1, <4>1, <4>2
    <3> QED BY <3>2, <3>3
  <2> QED BY <2>4, <2>5 DEF PointersOK
<1>7. EditsAreTracked'
  <2> SUFFICES ASSUME NEW x \in Users, ActiveGoals(goal, x) # {}
               PROVE  \E q \in Requests : req'[q].state \in Stored /\ req'[q].user = x /\ req'[q].ver = version[x]
    BY <1>2 DEF EditsAreTracked
  <2>1. PICK q \in Requests : req[q].state \in Stored /\ req[q].user = x /\ req[q].ver = version[x]
    BY DEF DataOK, EditsAreTracked
  <2> QED BY <1>4, <2>1 DEF Stored, Settled
<1>8. ItemsOK'
  <2>1. work'[w].pc = "idle" /\ \A x \in Workers : x # w => work'[x] = work[x]
    BY <1>2, IdleOK DEF Release, IInv, RestOK
  <2>2. \A x \in Workers : work[x].pc # "idle" => work[x].req \in Requests
    BY DEF IInv, WorkOK
  <2> QED BY <1>4, <2>1, <2>2 DEF DataOK, ItemsOK
<1>9. ReadsOK'
  BY <1>2 DEF DataOK, ReadsOK
<1> QED BY <1>5, <1>6, <1>7, <1>8, <1>9 DEF DataOK

-----------------------------------------------------------------------------
(* The invariant of the whole.                                               *)

\* The empty database satisfies it.
LEMMA InitData == Init => DataOK
<1> SUFFICES ASSUME Init PROVE DataOK
  OBVIOUS
<1>1. \A r \in Requests : req[r].state = "NONE" /\ analysis[r] = NoGoal
  BY DEF Init, MissingContext
<1>2. RequestsOK
  BY <1>1 DEF RequestsOK, Live, Open
<1>3. PointersOK
  BY <1>1 DEF Init, PointersOK, LatestIsCurrent
<1>4. EditsAreTracked
  BY DEF Init, EditsAreTracked, ActiveGoals, GoalAs
<1>5. ItemsOK /\ ReadsOK
  BY IdleOK, NoClientOK DEF Init, ItemsOK, ReadsOK
<1> QED BY <1>2, <1>3, <1>4, <1>5 DEF DataOK

\* Every action keeps it.
LEMMA NextData == IInv /\ DataOK /\ [Next]_vars => DataOK'
<1> SUFFICES ASSUME IInv, DataOK, [Next]_vars PROVE DataOK'
  OBVIOUS
<1>1. CASE UserStep
  BY <1>1, EditProfileEdits, MutateGoalEdits, DeleteGoalEdits, EditsKeepData, DeleteAccountData DEF UserStep
<1>2. CASE ClientStep
  <2>1. PICK u \in Users :
          \/ \E g \in Goals : ReadVersion(u, g)
          \/ ReadGoal(u) \/ ReadInputs(u)
          \/ \E s \in Stamps, f \in BOOLEAN : SubmitAccepted(u, s, f) \/ SubmitAnswered(u, s, f)
    BY <1>2 DEF ClientStep
  <2>2. PICK s \in Stamps : TRUE
    BY RecomputeAssumption
  <2>3. CASE \E g \in Goals : ReadVersion(u, g)
    BY <2>2, <2>3, ClientReadData
  <2>4. CASE ReadGoal(u) \/ ReadInputs(u)
    <3>1. \E g \in Goals : TRUE
      BY <2>4 DEF ReadGoal, ReadInputs, IInv, RestOK
    <3> QED BY <2>2, <2>4, <3>1, ClientReadData
  <2>5. CASE \E x \in Stamps, f \in BOOLEAN : SubmitAccepted(u, x, f)
    BY <2>5, SubmitAcceptedData
  <2>6. CASE \E x \in Stamps, f \in BOOLEAN : SubmitAnswered(u, x, f)
    <3>1. \E g \in Goals : TRUE
      BY <2>6 DEF SubmitAnswered, Submits, IInv, RestOK
    <3> QED BY <2>6, <3>1, ClientReadData
  <2> QED BY <2>1, <2>3, <2>4, <2>5, <2>6
<1>3. ASSUME UNCHANGED <<users, version, latest, goal, req, analysis, work, client>> PROVE DataOK'
  BY <1>3 DEF DataOK, RequestsOK, Backed, PointersOK, LatestIsCurrent, EditsAreTracked, ItemsOK, ReadsOK
<1>4. CASE Tick
  BY <1>3, <1>4 DEF Tick
<1>5. CASE \E w \in Workers : Claim(w)
  BY <1>5, ClaimData DEF Claim, RetireStale, Stale
<1>6. CASE \E w \in Workers : LoadContext(w) \/ Settle(w) \/ Crash(w)
  BY <1>6, LoadContextData, FinalizeData, FailData DEF Settle
<1>7. CASE UNCHANGED vars
  BY <1>3, <1>7 DEF vars
<1> QED BY <1>1, <1>2, <1>4, <1>5, <1>6, <1>7 DEF Next

\* Both halves of the invariant hold throughout.
THEOREM DataInvariance == Spec => [](IInv /\ DataOK)
BY InitOK, NextOK, InitData, NextData, PTL DEF Spec

\* A request is READY exactly when its analysis is stored, for a goal that exists, and
\* the pointer to the latest analysis names such a result of the account: a finalizer
\* that comes after an erasure recreates nothing.
THEOREM ResultsAreBacked == Spec => []ResultsExist
<1>1. IInv /\ DataOK => ResultsExist
  BY RecomputeAssumption DEF DataOK, RequestsOK, PointersOK, Backed, Live, ResultsExist
<1> QED BY <1>1, DataInvariance, PTL

\* Open work names a goal that exists, of an account that exists: no worker retries a
\* request for ever because what it needs was erased.
THEOREM WorkCanBeFinished == Spec => []NoPoisonedWork
<1>1. IInv /\ DataOK => NoPoisonedWork
  BY RecomputeAssumption DEF DataOK, RequestsOK, Backed, Live, NoPoisonedWork
<1> QED BY <1>1, DataInvariance, PTL

\* Inputs read without locks, at two profile versions, are never stored together.
THEOREM InputsAreOfOneVersion == Spec => []InputsNotMixed
<1>1. IInv /\ DataOK => InputsNotMixed
  BY DEF DataOK, RequestsOK, Backed, Live, InputsNotMixed
<1> QED BY <1>1, DataInvariance, PTL

\* The latest analysis is one for the current version as soon as there is one: a slow
\* run of an older version cannot take its place.
THEOREM PointerIsCurrent == Spec => []LatestIsCurrent
<1>1. IInv /\ DataOK => LatestIsCurrent
  BY DEF DataOK, PointersOK
<1> QED BY <1>1, DataInvariance, PTL

\* While an account has an ACTIVE goal, its current profile version has a request.
THEOREM NoEditIsDropped == Spec => []EditsAreTracked
<1>1. IInv /\ DataOK => EditsAreTracked
  BY DEF DataOK
<1> QED BY <1>1, DataInvariance, PTL

-----------------------------------------------------------------------------
(* The pipeline implements the ledger of requests.                           *)

\* The ledger's view of the request rows.
Status(rows) == [r \in Requests |-> IF rows[r].state \in Open THEN "OPEN" ELSE rows[r].state]
Of(rows)     == [r \in Requests |-> rows[r].user]
At(rows)     == [r \in Requests |-> rows[r].ver]

\* Recording a request in the rows records one in the ledger.
LEMMA RecordedInLedger ==
  ASSUME NEW rows \in [Requests -> RequestRow], NEW u \in Users, NEW v \in Versions,
         Recorded(rows, u, v)
  PROVE  \E n \in Requests, s \in {"OPEN", "FAILED"} :
           /\ Status(rows)[n] = "NONE"
           /\ Status(req)' = [Status(rows) EXCEPT ![n] = s]
           /\ Of(req)' = [Of(rows) EXCEPT ![n] = u]
           /\ At(req)' = [At(rows) EXCEPT ![n] = v]
<1>1. PICK n \in Requests, row \in New :
        /\ rows[n].state = "NONE" /\ req' = [rows EXCEPT ![n] = row]
        /\ row.user = u /\ row.ver = v
  BY DEF Recorded
<1>2. req'[n] = row /\ \A r \in Requests : r # n => req'[r] = rows[r]
  BY <1>1
<1> DEFINE s == IF row.state = "PENDING" THEN "OPEN" ELSE "FAILED"
<1>3. /\ s \in {"OPEN", "FAILED"} /\ "NONE" \notin Open
      /\ s = IF row.state \in Open THEN "OPEN" ELSE row.state
  BY DEF New, Open
<1> HIDE DEF s
<1>4. Status(rows)[n] = "NONE"
  BY <1>1, <1>3 DEF Status
<1>5. Status(req)' = [Status(rows) EXCEPT ![n] = s]
  BY <1>2, <1>3 DEF Status
<1>6. Of(req)' = [Of(rows) EXCEPT ![n] = u] /\ At(req)' = [At(rows) EXCEPT ![n] = v]
  BY <1>1, <1>2 DEF Of, At
<1> QED BY <1>3, <1>4, <1>5, <1>6

\* An edit of the account is an edit of the ledger that erases what it removes.
LEMMA EditInLedger ==
  ASSUME IInv, NEW u \in Users, NEW S, Edits(u, S)
  PROVE  Ledger!Edit(u)
<1> DEFINE rows == Without(req, S)
<1>1. /\ S \in SUBSET {r \in Requests : req[r].state \in Stored /\ req[r].user = u}
      /\ S \in SUBSET {r \in Requests : req[r].state \in Stored} /\ S \in SUBSET Requests
  BY DEF Edits
<1>2. /\ rows \in [Requests -> RequestRow]
      /\ \A r \in Requests \ S : rows[r] = req[r]
      /\ \A r \in S : rows[r].state = "DELETED" /\ rows[r].user = req[r].user /\ rows[r].ver = req[r].ver
  BY <1>1, RemovedRows
<1> HIDE DEF rows
<1>3. Status(rows) = [r \in Requests |-> IF r \in S THEN "DELETED" ELSE Status(req)[r]]
  BY <1>1, <1>2 DEF Status, Open
<1>4. Of(rows) = Of(req) /\ At(rows) = At(req)
  BY <1>1, <1>2 DEF Of, At
<1>5. \A r \in S : Status(req)[r] # "NONE" /\ Of(req)[r] = u
  BY <1>1 DEF Status, Of, Stored, Open, Settled
<1>e. Ledger!Erased(S) = Status(rows)
  BY <1>3 DEF Ledger!Erased, Status
<1>d. S \in SUBSET {r \in Requests : Status(req)[r] # "NONE" /\ Of(req)[r] = u}
  BY <1>1, <1>5
<1>r. SUFFICES Ledger!Record(Status(rows), u, version[u] + 1)
  <2>1. version' = [version EXCEPT ![u] = @ + 1]
    BY DEF Edits, Bump
  <2>2. latest' = [latest EXCEPT ![u] = IF @ \in S THEN NoRequest ELSE @]
    BY DEF Edits
  <2> QED BY <1>e, <1>d, <2>1, <2>2 DEF Ledger!Edit, Status, Of
<1>6. CASE req' = rows
  <2>1. Status(req)' = Status(rows) /\ Of(req)' = Of(rows) /\ At(req)' = At(rows)
    BY <1>6 DEF Status, Of, At
  <2> QED BY <1>4, <2>1 DEF Ledger!Record, Status, Of, At
<1>7. CASE Recorded(rows, u, version[u] + 1)
  <2>1. version[u] + 1 \in Versions
    BY EditRows
  <2>2. PICK n \in Requests, s \in {"OPEN", "FAILED"} :
          /\ Status(rows)[n] = "NONE"
          /\ Status(req)' = [Status(rows) EXCEPT ![n] = s]
          /\ Of(req)' = [Of(rows) EXCEPT ![n] = u]
          /\ At(req)' = [At(rows) EXCEPT ![n] = version[u] + 1]
    BY <1>2, <1>7, <2>1, RecordedInLedger
  <2>3. /\ Of(req)' = [Of(req) EXCEPT ![n] = u]
        /\ At(req)' = [At(req) EXCEPT ![n] = version[u] + 1]
    BY <1>4, <2>2
  <2> QED BY <2>2, <2>3 DEF Ledger!Record, Status, Of, At
<1> QED BY <1>6, <1>7 DEF Edits, rows

\* A submission that is accepted is one of the ledger.
LEMMA SubmitInLedger ==
  ASSUME IInv, DataOK, NEW u \in Users, NEW s \in Stamps, NEW f \in BOOLEAN, SubmitAccepted(u, s, f)
  PROVE  Ledger!Submit(u)
<1>1. version' = version /\ latest' = latest
  BY DEF SubmitAccepted
<1>2. PICK n \in Requests, x \in {"OPEN", "FAILED"} :
        /\ Status(req)[n] = "NONE"
        /\ Status(req)' = [Status(req) EXCEPT ![n] = x]
        /\ Of(req)' = [Of(req) EXCEPT ![n] = u]
        /\ At(req)' = [At(req) EXCEPT ![n] = version[u]]
  <2>1. req \in [Requests -> RequestRow]
    BY DEF IInv, RowsOK
  <2> QED BY <2>1, SubmitRecords, RecordedInLedger
<1> QED BY <1>1, <1>2 DEF Ledger!Submit, Ledger!Record, Status, Of, At

\* Erasing an account erases its requests from the ledger.
LEMMA EraseInLedger ==
  ASSUME IInv, NEW u \in Users, DeleteAccount(u)
  PROVE  Ledger!EraseAccount(u)
<1> DEFINE S == {r \in Requests : req[r].state \in Stored /\ req[r].user = u}
<1>1. /\ req' = Without(req, S) /\ version' = version
      /\ latest' = [latest EXCEPT ![u] = NoRequest]
  BY DEF DeleteAccount
<1>2. /\ \A r \in S : req'[r].state = "DELETED" /\ req'[r].user = req[r].user /\ req'[r].ver = req[r].ver
      /\ \A r \in Requests \ S : req'[r] = req[r]
  <2>1. S \in SUBSET {r \in Requests : req[r].state \in Stored}
    OBVIOUS
  <2> HIDE DEF S
  <2> QED BY <1>1, <2>1, RemovedRows
<1>3. \A r \in Requests : r \notin S /\ req[r].state # "NONE" /\ req[r].user = u => req[r].state = "DELETED"
  BY DEF IInv, RowsOK, RequestRow
<1>4. \A r \in Requests : Status(req)[r] # "NONE" <=> req[r].state # "NONE"
  BY DEF Status, Open
<1>5. Status(req)' = [r \in Requests |-> IF Status(req)[r] # "NONE" /\ Of(req)[r] = u
                                         THEN "DELETED" ELSE Status(req)[r]]
  <2>1. \A r \in Requests : Status(req)'[r] = IF req[r].state # "NONE" /\ req[r].user = u
                                             THEN "DELETED" ELSE Status(req)[r]
    BY <1>2, <1>3 DEF Status, Open, Stored, Settled
  <2> QED BY <1>4, <2>1 DEF Status, Of
<1>6. Of(req)' = Of(req) /\ At(req)' = At(req)
  BY <1>2 DEF Of, At
<1> QED BY <1>1, <1>5, <1>6 DEF Ledger!EraseAccount, Ledger!Erased, Status, Of, At

\* A result that is stored is published in the ledger.
LEMMA PublishInLedger ==
  ASSUME IInv, NEW w \in Workers, FinalizeRecompute(w)
  PROVE  \E r \in Requests : Ledger!Publish(r)
<1> DEFINE r == work[w].req
           u == req[r].user
<1>1. /\ r \in Requests /\ req[r].state = "RUNNING" /\ req[r] \in RequestRow
      /\ req \in [Requests -> RequestRow]
  BY DEF FinalizeRecompute, MaySettle, IInv, WorkOK, RowsOK
<1>2. /\ req' = [req EXCEPT ![r].state = "READY"] /\ version' = version
      /\ latest' = IF version[u] = req[r].ver THEN [latest EXCEPT ![u] = r] ELSE latest
  BY DEF FinalizeRecompute
<1> HIDE DEF r
<1>3. /\ req'[r].state = "READY" /\ req'[r].user = req[r].user /\ req'[r].ver = req[r].ver
      /\ \A q \in Requests : q # r => req'[q] = req[q]
  <2>1. "READY" \in Stored /\ req'[r] = Restate(req[r], "READY")
    BY <1>1, <1>2 DEF Stored, Settled, Restate
  <2> QED BY <1>1, <1>2, <2>1, RestateFields
<1>4. Status(req)[r] = "OPEN" /\ Of(req)[r] = u /\ At(req)[r] = req[r].ver
  BY <1>1 DEF Status, Of, At, Open
<1>5. Status(req)' = [Status(req) EXCEPT ![r] = "READY"]
  BY <1>3 DEF Status, Open
<1>6. Of(req)' = Of(req) /\ At(req)' = At(req)
  BY <1>3 DEF Of, At
<1>7. latest' = IF At(req)[r] = version[Of(req)[r]] THEN [latest EXCEPT ![Of(req)[r]] = r] ELSE latest
  BY <1>2, <1>4
<1> QED BY <1>1, <1>2, <1>4, <1>5, <1>6, <1>7 DEF Ledger!Publish, Status, Of, At

\* Restated requests are open in the ledger or given up there.
LEMMA RestatedInLedger ==
  ASSUME IInv, Restated
  PROVE  \E S \in SUBSET Requests : Ledger!GiveUp(S)
<1>1. PICK S \in SUBSET Requests :
        \A r \in Requests : r \in S <=> req[r].state \in Open /\ req'[r].state = "FAILED"
  <2> DEFINE T == {r \in Requests : req[r].state \in Open /\ req'[r].state = "FAILED"}
  <2>1. T \in SUBSET Requests /\ \A r \in Requests : r \in T <=> req[r].state \in Open /\ req'[r].state = "FAILED"
    OBVIOUS
  <2> HIDE DEF T
  <2> QED BY <2>1
<1>2. \A r \in S : Status(req)[r] = "OPEN"
  BY <1>1 DEF Status
<1>3. Status(req)' = [r \in Requests |-> IF r \in S THEN "FAILED" ELSE Status(req)[r]]
  <2>1. \A r \in Requests : Status(req)'[r] = IF r \in S THEN "FAILED" ELSE Status(req)[r]
    BY <1>1, RestatedRows DEF Status, Open
  <2> QED BY <2>1 DEF Status
<1>4. Of(req)' = Of(req) /\ At(req)' = At(req)
  BY RestatedRows DEF Of, At
<1>5. version' = version /\ latest' = latest
  BY DEF Restated
<1> QED BY <1>2, <1>3, <1>4, <1>5 DEF Ledger!GiveUp, Status, Of, At

\* The empty database is the empty ledger.
LEMMA InitInLedger == Init => Ledger!Init
<1> SUFFICES ASSUME Init PROVE Ledger!Init
  OBVIOUS
<1> DEFINE c == CHOOSE u \in Users : TRUE
<1>1. c \in Users
  BY RecomputeAssumption
<1>2. \A r \in Requests : req[r].state = "NONE" /\ req[r].user = c /\ req[r].ver = 1
  BY DEF Init, MissingContext
<1> HIDE DEF c
<1>3. /\ Status(req) = [r \in Requests |-> "NONE"]
      /\ Of(req) \in [Requests -> Users] /\ At(req) \in [Requests -> {1}]
  BY <1>1, <1>2 DEF Status, Of, At, Open
<1>4. version = [u \in Users |-> 1] /\ latest = [u \in Users |-> NoRequest]
  BY DEF Init
<1> QED BY <1>3, <1>4 DEF Ledger!Init, Status, Of, At

\* Every step of the pipeline is one of the ledger, or none.
LEMMA NextInLedger == IInv /\ DataOK /\ [Next]_vars => [Ledger!Next]_(Ledger!vars)
<1> SUFFICES ASSUME IInv, DataOK, [Next]_vars PROVE [Ledger!Next]_(Ledger!vars)
  OBVIOUS
<1>1. CASE UserStep
  <2>1. PICK u \in Users :
          \/ EditProfile(u) \/ DeleteAccount(u)
          \/ \E g \in Goals : \/ \E x \in {"DRAFT", "ACTIVE", "ARCHIVED"}, t \in Targets : MutateGoal(u, g, x, t)
                              \/ DeleteGoal(u, g)
    BY <1>1 DEF UserStep
  <2>2. CASE DeleteAccount(u)
    BY <2>2, EraseInLedger DEF Ledger!Next
  <2>3. CASE ~DeleteAccount(u)
    <3>1. \E S : Edits(u, S)
      BY <2>1, <2>3, EditProfileEdits, MutateGoalEdits, DeleteGoalEdits
    <3> QED BY <3>1, EditInLedger DEF Ledger!Next
  <2> QED BY <2>2, <2>3
<1>2. ASSUME req' = req, version' = version, latest' = latest PROVE UNCHANGED Ledger!vars
  BY <1>2 DEF Ledger!vars
<1>3. CASE ClientStep
  <2>1. CASE \E u \in Users, s \in Stamps, f \in BOOLEAN : SubmitAccepted(u, s, f)
    BY <2>1, SubmitInLedger DEF Ledger!Next
  <2>2. CASE ~\E u \in Users, s \in Stamps, f \in BOOLEAN : SubmitAccepted(u, s, f)
    <3>1. req' = req /\ version' = version /\ latest' = latest
      BY <1>3, <2>2 DEF ClientStep, ReadVersion, ReadGoal, ReadInputs, SubmitAnswered
    <3> QED BY <1>2, <3>1
  <2> QED BY <2>1, <2>2
<1>4. CASE \E w \in Workers : FinalizeRecompute(w)
  BY <1>4, PublishInLedger DEF Ledger!Next
<1>5. CASE \E w \in Workers : Claim(w) \/ FailRecompute(w) \/ SettleRejected(w) \/ Crash(w)
  <2>1. Restated
    BY <1>5, ClaimRestated, FailRestated DEF Claim, RetireStale, Stale
  <2> QED BY <2>1, RestatedInLedger DEF Ledger!Next
<1>6. CASE (\E w \in Workers : LoadContext(w)) \/ Tick \/ UNCHANGED vars
  BY <1>2, <1>6 DEF LoadContext, Tick, vars
<1> QED BY <1>1, <1>3, <1>4, <1>5, <1>6 DEF Next, Settle

\* Whatever workers, leases, retries and erasures do, each request is answered at most
\* once, an answer is final, and the shown result moves only to one computed for the
\* profile version that is current.
THEOREM LedgerIsImplemented == Spec => ImplementsLedger
BY DataInvariance, InitInLedger, NextInLedger, PTL DEF Spec, ImplementsLedger, Ledger!Spec

=============================================================================
