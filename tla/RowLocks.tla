------------------------------ MODULE RowLocks ------------------------------
(***************************************************************************)
(* The row locks the store's transactions take on an account's rows, and   *)
(* the order they take them in.  Recompute and Roadmaps treat a            *)
(* transaction as one step because they serialize on these locks; here the *)
(* transactions run statement by statement, and the question is whether    *)
(* two of them can wait for each other.                                    *)
(*                                                                         *)
(* The rows of a table that belong to one account stand as one row.  A     *)
(* transaction may roll back at any point (a version conflict, a missing   *)
(* record, a lost connection).  A blocked statement waits; PostgreSQL      *)
(* would abort one transaction of a cycle, and no caller here retries it.  *)
(***************************************************************************)
EXTENDS Integers, Sequences, FiniteSets

CONSTANTS Txns, Accounts, Kinds    \* Kinds: the transactions an instance explores

Tables == {"users", "profiles", "goals", "roadmaps", "jobs", "requests", "budget"}

\* PostgreSQL row-lock modes, by strength; 0 is no lock.
KeyShare    == 1    \* taken by a foreign-key check on the referenced row
Share       == 2
NoKeyUpdate == 3    \* an UPDATE of other columns; with_for_update(key_share=True)
Update      == 4    \* a DELETE; with_for_update()
Modes       == 0 .. 4

\* The conflict table of the four modes: KEY SHARE stops only UPDATE, SHARE goes
\* with itself, and every other pair excludes each other.
Conflicts(m, n) ==
  /\ m # 0 /\ n # 0
  /\ \/ m = Update \/ n = Update
     \/ m = NoKeyUpdate /\ n > KeyShare
     \/ n = NoKeyUpdate /\ m > KeyShare

AllKinds == {"edit", "step", "goal", "roadmap", "plan", "erase", "deleteGoal", "submit",
             "finalize", "reconcile", "keyed", "claim"}

ASSUME RowLocksAssumption == Kinds \subseteq AllKinds

VARIABLES todo,   \* todo[t]: the locks transaction t still asks for, in order
          kind,   \* kind[t]: what t is, or "none" between transactions
          held    \* held[t][<<table, account>>]: the strongest mode t holds

vars == <<todo, kind, held>>

Rows == Tables \X Accounts

\* A statement locks a row; skip = 0: it waits, skip = n: SKIP LOCKED, and the
\* statements up to the n-th from here are for the rows of the skipped result.
Lock(table, a, mode)         == [row |-> <<table, a>>, mode |-> mode, skip |-> 0]
TryLock(table, a, mode, n)   == [row |-> <<table, a>>, mode |-> mode, skip |-> n]

-----------------------------------------------------------------------------
(* The transactions, by the locks of their statements.                       *)

\* mutate_profile: the UPDATE of the profile, then an event row that references
\* the account.  The capability and preference writers without a key alike.
EditProfile(a) == <<Lock("profiles", a, NoKeyUpdate), Lock("users", a, KeyShare)>>

\* mutate_step_state.
MutateStep(a) == <<Lock("profiles", a, NoKeyUpdate), Lock("roadmaps", a, Update), Lock("users", a, KeyShare)>>

\* mutate_goal without an idempotency key.
MutateGoal(a) == <<Lock("profiles", a, Update), Lock("goals", a, Update), Lock("roadmaps", a, NoKeyUpdate),
                   Lock("users", a, KeyShare)>>

\* create_roadmap without a key; mutate_roadmap takes the first two.
CreateRoadmap(a) == <<Lock("profiles", a, Update), Lock("roadmaps", a, Update), Lock("users", a, KeyShare),
                      Lock("goals", a, KeyShare)>>

\* PostgresWeeklyPlanStore.upsert and delete: the roadmap row only.
WeeklyPlan(a) == <<Lock("roadmaps", a, Update)>>

\* Mutant: erasure takes the strong lock on the account first.
EraseStrong(a) == <<Lock("users", a, Update), Lock("profiles", a, Update), Lock("jobs", a, Update),
                    Lock("requests", a, Update)>>

\* delete_account: descendants first, the account row at the very end.
EraseAccount(a) ==
  <<Lock("users", a, NoKeyUpdate), Lock("profiles", a, Update), Lock("roadmaps", a, Update),
    Lock("jobs", a, Update), Lock("requests", a, Update), Lock("goals", a, Update),
    Lock("budget", a, Update), Lock("users", a, Update)>>

\* delete_goal.
DeleteGoal(a) ==
  <<Lock("users", a, NoKeyUpdate), Lock("profiles", a, Update), Lock("goals", a, Update),
    Lock("roadmaps", a, Update), Lock("jobs", a, Update), Lock("requests", a, Update)>>

\* submit_analysis_recompute_in_session.
SubmitAnalysis(a) == <<Lock("users", a, NoKeyUpdate), Lock("profiles", a, Update), Lock("budget", a, NoKeyUpdate)>>

\* finalize_recompute and fail_recompute; the foreign keys of an analysis come last.
Finalize(a) ==
  <<Lock("users", a, Update), Lock("profiles", a, Update), Lock("jobs", a, Update), Lock("requests", a, Update),
    Lock("goals", a, KeyShare)>>

\* reconcile_automatic_roadmap, with the roadmap it creates and activates.
Reconcile(a) ==
  <<Lock("users", a, Update), Lock("profiles", a, Update), Lock("requests", a, Update),
    Lock("roadmaps", a, Update), Lock("goals", a, KeyShare)>>

\* execute_idempotency around a goal, capability or roadmap write, and
\* apply_roadmap_revision: _lock_google_account comes before everything else.
KeyedWrite(a) ==
  <<Lock("users", a, Update), Lock("profiles", a, Update), Lock("goals", a, Update), Lock("roadmaps", a, Update)>>

\* claim_recompute_work: a stale job of account a is retired, then a job of
\* account b is claimed; a row that is locked is skipped, a lock once taken stays.
\* Only the owner's lock lets it go on to the budget.
ClaimWork(a, b) ==
  <<TryLock("jobs", a, Update, 2), Lock("requests", a, NoKeyUpdate),
    TryLock("jobs", b, Update, 5), TryLock("profiles", b, Update, 4), TryLock("users", b, Update, 3),
    Lock("budget", b, NoKeyUpdate), Lock("requests", b, NoKeyUpdate)>>

Program(k, a, b) ==
  CASE k = "edit" -> EditProfile(a)
    [] k = "step" -> MutateStep(a)
    [] k = "goal" -> MutateGoal(a)
    [] k = "roadmap" -> CreateRoadmap(a)
    [] k = "plan" -> WeeklyPlan(a)
    [] k = "erase" -> EraseAccount(a)
    [] k = "deleteGoal" -> DeleteGoal(a)
    [] k = "submit" -> SubmitAnalysis(a)
    [] k = "finalize" -> Finalize(a)
    [] k = "reconcile" -> Reconcile(a)
    [] k = "keyed" -> KeyedWrite(a)
    [] k = "claim" -> ClaimWork(a, b)

-----------------------------------------------------------------------------
Nothing == [r \in Rows |-> 0]

Running(t) == kind[t] # "none"
Asks(t)    == todo[t] # <<>>

\* The transactions whose locks stand in the way of t's next statement.
Blockers(t) ==
  IF Asks(t) THEN {x \in Txns \ {t} : Conflicts(Head(todo[t]).mode, held[x][Head(todo[t]).row])} ELSE {}

Waiting(t) == Asks(t) /\ Head(todo[t]).skip = 0 /\ Blockers(t) # {}

Begin(t, k, a, b) ==
  /\ ~Running(t)
  /\ k # "claim" => a = b
  /\ kind' = [kind EXCEPT ![t] = k]
  /\ todo' = [todo EXCEPT ![t] = Program(k, a, b)]
  /\ held' = held

\* A lock is granted; one of the same row that is already held is strengthened.
Grant(t) ==
  /\ Asks(t) /\ Blockers(t) = {}
  /\ LET s == Head(todo[t]) IN
       held' = [held EXCEPT ![t][s.row] = IF s.mode > @ THEN s.mode ELSE @]
  /\ todo' = [todo EXCEPT ![t] = Tail(@)]
  /\ kind' = kind

SkipLocked(t) ==
  /\ Asks(t) /\ Blockers(t) # {} /\ Head(todo[t]).skip > 0
  /\ todo' = [todo EXCEPT ![t] = SubSeq(@, Head(@).skip + 1, Len(@))]
  /\ UNCHANGED <<kind, held>>

\* Commit, and rollback after any statement, release everything.
Release(t) ==
  /\ kind' = [kind EXCEPT ![t] = "none"]
  /\ todo' = [todo EXCEPT ![t] = <<>>]
  /\ held' = [held EXCEPT ![t] = Nothing]

Commit(t)   == Running(t) /\ ~Asks(t) /\ Release(t)
Rollback(t) == Asks(t) /\ ~Waiting(t) /\ Release(t)

Init ==
  /\ todo = [t \in Txns |-> <<>>]
  /\ kind = [t \in Txns |-> "none"]
  /\ held = [t \in Txns |-> Nothing]

Next ==
  \E t \in Txns :
    \/ \E k \in Kinds, a, b \in Accounts : Begin(t, k, a, b)
    \/ Grant(t) \/ SkipLocked(t) \/ Commit(t) \/ Rollback(t)

Spec == Init /\ [][Next]_vars

-----------------------------------------------------------------------------
(* Properties.                                                               *)

\* No transactions wait for each other in a circle: in every set of transactions
\* one can go on without the others of the set.
NoLockCycle ==
  \A D \in (SUBSET Txns) \ {{}} : \E t \in D : ~(Waiting(t) /\ Blockers(t) \cap D # {})

\* "Erasure must be able to upgrade to the lock required by its final users
\* DELETE": once it has the profile, nobody can hold up that statement.
ErasureUpgrades ==
  \A t \in Txns : kind[t] = "erase" /\ Len(todo[t]) = 1 => Blockers(t) = {}

\* The order of the row locks is safe: no circle of waiting transactions, and
\* erasure can upgrade its lock (the comments of accounts.py and goal_deletion.py).
LocksOrdered == NoLockCycle /\ ErasureUpgrades

\* GoalDeletionRepository: "Match account deletion/worker ownership locks while
\* allowing FK key checks from a write already holding the profile lock to finish".
\* A write that holds the profile and checks a foreign key of the account never
\* waits for a transaction that waits for the profile.
KeyChecksFinish ==
  \A t, x \in Txns, a \in Accounts :
    /\ held[t][<<"profiles", a>>] # 0
    /\ Waiting(t) /\ Head(todo[t]) = Lock("users", a, KeyShare) /\ x \in Blockers(t)
    => ~(Waiting(x) /\ t \in Blockers(x))
=============================================================================
