----------------------------- MODULE LockProofs ------------------------------
(***************************************************************************)
(* The row locks, for every number of transactions and accounts.           *)
(*                                                                         *)
(* A transaction is somewhere in its program (Stage): it asks for the rest *)
(* of it and holds what it asked for before.  Conflicting locks are never  *)
(* held together (Compatible).                                             *)
(*                                                                         *)
(* A transaction that waits and holds something is then of one of five     *)
(* classes, and the classes have an order: no transaction waits for one of *)
(* its own level or a later one.  So nobody waits in a circle.             *)
(***************************************************************************)
EXTENDS RowLocks, SequenceTheorems, TLAPS

Statement == [row: Rows, mode: 1 .. 4, skip: 0 .. 5]

\* The rest of a program from its i-th statement on.
From(P, i) == SubSeq(P, i, Len(P))

\* Where the locks a transaction is sure to hold begin: a claim that skipped a locked
\* row has passed over the statements for it.
Since(k, i) == IF k # "claim" \/ i <= 2 THEN 1 ELSE IF i <= 7 THEN 3 ELSE 8

\* A transaction at the i-th statement of its program.
Stage(t, P, i) ==
  /\ todo[t] = From(P, i)
  /\ \A r \in Rows : held[t][r] # 0 => \E j \in 1 .. i - 1 : P[j].row = r /\ P[j].mode = held[t][r]
  /\ \A j \in Since(kind[t], i) .. i - 1 : held[t][P[j].row] >= P[j].mode
  /\ kind[t] = "claim" =>
       \A c \in Accounts : held[t][<<"requests", c>>] # 0 => held[t][<<"jobs", c>>] = Update

InProgram(t, k, a, b) ==
  /\ k \in Kinds /\ (k # "claim" => a = b) /\ kind[t] = k
  /\ \E i \in 1 .. Len(Program(k, a, b)) + 1 : Stage(t, Program(k, a, b), i)

Compatible ==
  \A t, x \in Txns : t # x => \A r \in Rows : ~Conflicts(held[t][r], held[x][r])

IInv ==
  /\ held \in [Txns -> [Rows -> Modes]] /\ DOMAIN kind = Txns /\ DOMAIN todo = Txns
  /\ Compatible
  /\ \A t \in Txns : \/ kind[t] = "none" /\ todo[t] = <<>> /\ held[t] = Nothing
                     \/ \E k \in Kinds, a, b \in Accounts : InProgram(t, k, a, b)

-----------------------------------------------------------------------------
(* Programs.                                                                 *)

\* The rest of a program.
LEMMA FromIs ==
  ASSUME NEW S, NEW P \in Seq(S), NEW i \in 1 .. Len(P)
  PROVE  /\ From(P, i) # <<>> /\ Head(From(P, i)) = P[i] /\ Tail(From(P, i)) = From(P, i + 1)
         /\ From(P, 1) = P /\ From(P, Len(P) + 1) = <<>>
         /\ \A n \in 1 .. Len(P) : i + n <= Len(P) + 1 =>
              SubSeq(From(P, i), n + 1, Len(From(P, i))) = From(P, i + n)
<1>1. Len(P) \in Nat /\ Len(P) \in i .. Len(P) /\ \A j \in 1 .. Len(P) : P[j] \in S
  BY LenProperties, ElementOfSeq
<1>2. Head(From(P, i)) = P[i] /\ Tail(From(P, i)) = From(P, i + 1)
  BY <1>1, HeadTailOfSubSeq DEF From
<1>3. /\ From(P, i) \in Seq(S) /\ Len(From(P, i)) = Len(P) - i + 1
      /\ \A j \in 1 .. Len(P) - i + 1 : From(P, i)[j] = P[i + j - 1]
  BY <1>1, SubSeqProperties DEF From
<1>4. From(P, i) # <<>>
  BY <1>1, <1>3, EmptySeq
<1>5. From(P, 1) = P /\ From(P, Len(P) + 1) = <<>>
  BY <1>1, SubSeqFull, SubSeqEmpty DEF From
<1>6. ASSUME NEW n \in 1 .. Len(P), i + n <= Len(P) + 1
      PROVE  SubSeq(From(P, i), n + 1, Len(From(P, i))) = From(P, i + n)
  <2>1. CASE i + n = Len(P) + 1
    <3>1. Len(From(P, i)) = n /\ n \in Int /\ n + 1 \in Int /\ n < n + 1
      BY <1>1, <1>3, <2>1
    <3> QED BY <1>5, <2>1, <3>1, SubSeqEmpty
  <2>2. CASE i + n <= Len(P)
    <3>1. n + 1 \in 1 .. Len(P) - i + 1 /\ Len(P) - i + 1 \in 1 .. Len(P) - i + 1 /\ Len(P) \in 1 .. Len(P)
      BY <1>1, <2>2
    <3>2. SubSeq(SubSeq(P, i, Len(P)), n + 1, Len(P) - i + 1) = SubSeq(P, i + (n + 1) - 1, i + (Len(P) - i + 1) - 1)
      BY <3>1, SubSeqOfSubSeq
    <3>3. i + (n + 1) - 1 = i + n /\ i + (Len(P) - i + 1) - 1 = Len(P)
      BY <1>1
    <3> QED BY <1>3, <3>2, <3>3 DEF From
  <2> QED BY <1>1, <1>6, <2>1, <2>2
<1> QED BY <1>2, <1>4, <1>5, <1>6
-----------------------------------------------------------------------------
(* The programs, statement by statement.                                     *)

\* A program of n statements that wait.
Plain(P, n) == P \in Seq(Statement) /\ Len(P) = n /\ \A j \in 1 .. n : P[j].skip = 0

\* mutate_profile.
LEMMA EditIs ==
  ASSUME NEW a \in Accounts, NEW b \in Accounts
  PROVE  LET P == Program("edit", a, b) IN
         /\ Plain(P, 2)
         /\ P[1] = Lock("profiles", a, NoKeyUpdate)
         /\ P[2] = Lock("users", a, KeyShare)
BY DEF Plain, Program, EditProfile, Lock, Statement, Rows, Tables, KeyShare, NoKeyUpdate

\* mutate_step_state.
LEMMA StepIs ==
  ASSUME NEW a \in Accounts, NEW b \in Accounts
  PROVE  LET P == Program("step", a, b) IN
         /\ Plain(P, 3)
         /\ P[1] = Lock("profiles", a, NoKeyUpdate)
         /\ P[2] = Lock("roadmaps", a, Update)
         /\ P[3] = Lock("users", a, KeyShare)
BY DEF Plain, Program, MutateStep, Lock, Statement, Rows, Tables, KeyShare, NoKeyUpdate, Update

\* mutate_goal.
LEMMA GoalIs ==
  ASSUME NEW a \in Accounts, NEW b \in Accounts
  PROVE  LET P == Program("goal", a, b) IN
         /\ Plain(P, 4)
         /\ P[1] = Lock("profiles", a, Update)
         /\ P[2] = Lock("goals", a, Update)
         /\ P[3] = Lock("roadmaps", a, NoKeyUpdate)
         /\ P[4] = Lock("users", a, KeyShare)
BY DEF Plain, Program, MutateGoal, Lock, Statement, Rows, Tables, KeyShare, NoKeyUpdate, Update

\* create_roadmap.
LEMMA RoadmapIs ==
  ASSUME NEW a \in Accounts, NEW b \in Accounts
  PROVE  LET P == Program("roadmap", a, b) IN
         /\ Plain(P, 4)
         /\ P[1] = Lock("profiles", a, Update)
         /\ P[2] = Lock("roadmaps", a, Update)
         /\ P[3] = Lock("users", a, KeyShare)
         /\ P[4] = Lock("goals", a, KeyShare)
BY DEF Plain, Program, CreateRoadmap, Lock, Statement, Rows, Tables, KeyShare, Update

\* The weekly plan store.
LEMMA PlanIs ==
  ASSUME NEW a \in Accounts, NEW b \in Accounts
  PROVE  LET P == Program("plan", a, b) IN
         /\ Plain(P, 1)
         /\ P[1] = Lock("roadmaps", a, Update)
BY DEF Plain, Program, WeeklyPlan, Lock, Statement, Rows, Tables, Update

\* delete_account.
LEMMA EraseIs ==
  ASSUME NEW a \in Accounts, NEW b \in Accounts
  PROVE  LET P == Program("erase", a, b) IN
         /\ Plain(P, 8)
         /\ P[1] = Lock("users", a, NoKeyUpdate)
         /\ P[2] = Lock("profiles", a, Update)
         /\ P[3] = Lock("roadmaps", a, Update)
         /\ P[4] = Lock("jobs", a, Update)
         /\ P[5] = Lock("requests", a, Update)
         /\ P[6] = Lock("goals", a, Update)
         /\ P[7] = Lock("budget", a, Update)
         /\ P[8] = Lock("users", a, Update)
BY DEF Plain, Program, EraseAccount, Lock, Statement, Rows, Tables, NoKeyUpdate, Update

\* delete_goal.
LEMMA DeleteGoalIs ==
  ASSUME NEW a \in Accounts, NEW b \in Accounts
  PROVE  LET P == Program("deleteGoal", a, b) IN
         /\ Plain(P, 6)
         /\ P[1] = Lock("users", a, NoKeyUpdate)
         /\ P[2] = Lock("profiles", a, Update)
         /\ P[3] = Lock("goals", a, Update)
         /\ P[4] = Lock("roadmaps", a, Update)
         /\ P[5] = Lock("jobs", a, Update)
         /\ P[6] = Lock("requests", a, Update)
BY DEF Plain, Program, DeleteGoal, Lock, Statement, Rows, Tables, NoKeyUpdate, Update

\* submit_analysis_recompute_in_session.
LEMMA SubmitIs ==
  ASSUME NEW a \in Accounts, NEW b \in Accounts
  PROVE  LET P == Program("submit", a, b) IN
         /\ Plain(P, 3)
         /\ P[1] = Lock("users", a, NoKeyUpdate)
         /\ P[2] = Lock("profiles", a, Update)
         /\ P[3] = Lock("budget", a, NoKeyUpdate)
BY DEF Plain, Program, SubmitAnalysis, Lock, Statement, Rows, Tables, NoKeyUpdate, Update

\* finalize_recompute and fail_recompute.
LEMMA FinalizeIs ==
  ASSUME NEW a \in Accounts, NEW b \in Accounts
  PROVE  LET P == Program("finalize", a, b) IN
         /\ Plain(P, 5)
         /\ P[1] = Lock("users", a, Update)
         /\ P[2] = Lock("profiles", a, Update)
         /\ P[3] = Lock("jobs", a, Update)
         /\ P[4] = Lock("requests", a, Update)
         /\ P[5] = Lock("goals", a, KeyShare)
BY DEF Plain, Program, Finalize, Lock, Statement, Rows, Tables, KeyShare, Update

\* reconcile_automatic_roadmap.
LEMMA ReconcileIs ==
  ASSUME NEW a \in Accounts, NEW b \in Accounts
  PROVE  LET P == Program("reconcile", a, b) IN
         /\ Plain(P, 5)
         /\ P[1] = Lock("users", a, Update)
         /\ P[2] = Lock("profiles", a, Update)
         /\ P[3] = Lock("requests", a, Update)
         /\ P[4] = Lock("roadmaps", a, Update)
         /\ P[5] = Lock("goals", a, KeyShare)
BY DEF Plain, Program, Reconcile, Lock, Statement, Rows, Tables, KeyShare, Update

\* execute_idempotency around a write.
LEMMA KeyedIs ==
  ASSUME NEW a \in Accounts, NEW b \in Accounts
  PROVE  LET P == Program("keyed", a, b) IN
         /\ Plain(P, 4)
         /\ P[1] = Lock("users", a, Update)
         /\ P[2] = Lock("profiles", a, Update)
         /\ P[3] = Lock("goals", a, Update)
         /\ P[4] = Lock("roadmaps", a, Update)
BY DEF Plain, Program, KeyedWrite, Lock, Statement, Rows, Tables, Update

\* claim_recompute_work.
LEMMA ClaimIs ==
  ASSUME NEW a \in Accounts, NEW b \in Accounts
  PROVE  LET P == Program("claim", a, b) IN
         /\ P \in Seq(Statement) /\ Len(P) = 7
         /\ P[1].skip = 2 /\ P[2].skip = 0 /\ P[3].skip = 5 /\ P[4].skip = 4
         /\ P[5].skip = 3 /\ P[6].skip = 0 /\ P[7].skip = 0
         /\ P[1] = TryLock("jobs", a, Update, 2)
         /\ P[2] = Lock("requests", a, NoKeyUpdate)
         /\ P[3] = TryLock("jobs", b, Update, 5)
         /\ P[4] = TryLock("profiles", b, Update, 4)
         /\ P[5] = TryLock("users", b, Update, 3)
         /\ P[6] = Lock("budget", b, NoKeyUpdate)
         /\ P[7] = Lock("requests", b, NoKeyUpdate)
BY DEF Program, ClaimWork, Lock, TryLock, Statement, Rows, Tables, NoKeyUpdate, Update

\* What all programs have in common: a statement that skips is one of a claim, and
\* where it leads to; a claim locks requests after their job.
LEMMA ProgramIs ==
  ASSUME NEW k \in AllKinds, NEW a \in Accounts, NEW b \in Accounts
  PROVE  LET P == Program(k, a, b) IN
         /\ P \in Seq(Statement) /\ Len(P) \in 1 .. 8
         /\ \A j \in 1 .. Len(P) : P[j].skip > 0 =>
              k = "claim" /\ ((j = 1 /\ j + P[j].skip = 3) \/ (j \in 3 .. 5 /\ j + P[j].skip = 8))
<1> DEFINE P == Program(k, a, b)
<1>1. k # "claim" => \E n \in 1 .. 8 : Plain(P, n)
  <2>1. k = "edit" => Plain(P, 2)
    BY EditIs
  <2>2. k = "step" => Plain(P, 3)
    BY StepIs
  <2>3. k = "goal" => Plain(P, 4)
    BY GoalIs
  <2>4. k = "roadmap" => Plain(P, 4)
    BY RoadmapIs
  <2>5. k = "plan" => Plain(P, 1)
    BY PlanIs
  <2>6. k = "erase" => Plain(P, 8)
    BY EraseIs
  <2>7. k = "deleteGoal" => Plain(P, 6)
    BY DeleteGoalIs
  <2>8. k = "submit" => Plain(P, 3)
    BY SubmitIs
  <2>9. k = "finalize" => Plain(P, 5)
    BY FinalizeIs
  <2>10. k = "reconcile" => Plain(P, 5)
    BY ReconcileIs
  <2>11. k = "keyed" => Plain(P, 4)
    BY KeyedIs
  <2> HIDE DEF P
  <2> QED BY <2>1, <2>2, <2>3, <2>4, <2>5, <2>6, <2>7, <2>8, <2>9, <2>10, <2>11 DEF AllKinds
<1>2. CASE k # "claim"
  <2>1. PICK n \in 1 .. 8 : Plain(P, n)
    BY <1>1, <1>2
  <2> HIDE DEF P
  <2> QED BY <1>2, <2>1 DEF Plain, P
<1>3. CASE k = "claim"
  <2>0. P \in Seq(Statement) /\ Len(P) = 7
    BY <1>3, ClaimIs
  <2>1. /\ P[1].skip = 2 /\ P[2].skip = 0 /\ P[3].skip = 5 /\ P[4].skip = 4
        /\ P[5].skip = 3 /\ P[6].skip = 0 /\ P[7].skip = 0
    BY <1>3, ClaimIs
  <2> HIDE DEF P
  <2>2. ASSUME NEW j \in 1 .. 7, P[j].skip > 0
        PROVE  (j = 1 /\ j + P[j].skip = 3) \/ (j \in 3 .. 5 /\ j + P[j].skip = 8)
    <3>1. j = 1 \/ j = 2 \/ j = 3 \/ j = 4 \/ j = 5 \/ j = 6 \/ j = 7
      OBVIOUS
    <3> QED BY <2>1, <2>2, <3>1
  <2>3. /\ P \in Seq(Statement) /\ Len(P) \in 1 .. 8
        /\ \A j \in 1 .. Len(P) : P[j].skip > 0 =>
              k = "claim" /\ ((j = 1 /\ j + P[j].skip = 3) \/ (j \in 3 .. 5 /\ j + P[j].skip = 8))
    BY <1>3, <2>0, <2>2
  <2> QED BY <2>3 DEF P
<1> QED BY <1>2, <1>3

-----------------------------------------------------------------------------
(* The invariant.                                                            *)

\* A transaction between two statements, whatever the others do.
Between(t) ==
  \/ kind[t] = "none" /\ todo[t] = <<>> /\ held[t] = Nothing
  \/ \E k \in Kinds, a, b \in Accounts : InProgram(t, k, a, b)

\* The steps of one transaction leave the others where they are.
Others(t) == \A x \in Txns \ {t} : todo'[x] = todo[x] /\ kind'[x] = kind[x] /\ held'[x] = held[x]

\* Between is about one transaction: it holds for the others as before.
LEMMA OthersStay ==
  ASSUME IInv, NEW t \in Txns, Others(t), NEW x \in Txns \ {t}
  PROVE  Between(x)'
<1>1. Between(x)
  BY DEF IInv, Between
<1>2. todo'[x] = todo[x] /\ kind'[x] = kind[x] /\ held'[x] = held[x]
  BY DEF Others
<1>3. ASSUME NEW k \in Kinds, NEW a \in Accounts, NEW b \in Accounts, InProgram(x, k, a, b)
      PROVE  InProgram(x, k, a, b)'
  <2>1. PICK i \in 1 .. Len(Program(k, a, b)) + 1 : Stage(x, Program(k, a, b), i)
    BY <1>3 DEF InProgram
  <2>2. Stage(x, Program(k, a, b), i)'
    BY <1>2, <2>1 DEF Stage
  <2> QED BY <1>2, <1>3, <2>2 DEF InProgram
<1> QED BY <1>1, <1>2, <1>3 DEF Between

\* Initially nobody runs.
LEMMA InitOK == Init => IInv
<1> SUFFICES ASSUME Init PROVE IInv
  OBVIOUS
<1>1. Nothing \in [Rows -> Modes]
  BY DEF Nothing, Modes
<1>2. held \in [Txns -> [Rows -> Modes]] /\ DOMAIN kind = Txns /\ DOMAIN todo = Txns
  BY <1>1 DEF Init
<1>3. Compatible
  BY DEF Compatible, Conflicts, Init, Nothing
<1>4. \A t \in Txns : kind[t] = "none" /\ todo[t] = <<>> /\ held[t] = Nothing
  BY DEF Init
<1> QED BY <1>2, <1>3, <1>4 DEF IInv

\* A transaction that still asks is at one of its statements.
LEMMA AtStatement ==
  ASSUME IInv, NEW t \in Txns, Asks(t)
  PROVE  \E k \in Kinds, a, b \in Accounts : \E i \in 1 .. Len(Program(k, a, b)) :
           /\ (k # "claim" => a = b) /\ kind[t] = k
           /\ Program(k, a, b) \in Seq(Statement) /\ Len(Program(k, a, b)) \in 1 .. 8
           /\ Program(k, a, b)[i] \in Statement
           /\ Stage(t, Program(k, a, b), i)
           /\ Head(todo[t]) = Program(k, a, b)[i]
<1>1. PICK k \in Kinds, a \in Accounts, b \in Accounts : InProgram(t, k, a, b)
  BY DEF IInv, Asks
<1> DEFINE P == Program(k, a, b)
<1>2. PICK i \in 1 .. Len(P) + 1 : Stage(t, P, i)
  BY <1>1 DEF InProgram
<1>3. P \in Seq(Statement) /\ Len(P) \in 1 .. 8
  BY ProgramIs, RowLocksAssumption
<1> HIDE DEF P
<1>4. todo[t] = From(P, i) /\ todo[t] # <<>>
  BY <1>2 DEF Stage, Asks
<1>5. From(P, Len(P) + 1) = <<>>
  BY <1>3, FromIs
<1>6. i \in 1 .. Len(P)
  BY <1>3, <1>4, <1>5
<1>7. P[i] \in Statement
  BY <1>3, <1>6, ElementOfSeq
<1>8. Head(todo[t]) = P[i]
  BY <1>3, <1>4, <1>6, FromIs
<1> QED BY <1>1, <1>2, <1>3, <1>6, <1>7, <1>8 DEF InProgram, P

\* One transaction's step preserves the invariant if it preserves its own part.
LEMMA Suffices ==
  ASSUME IInv, NEW t \in Txns, Others(t), Between(t)', Compatible',
         held' \in [Txns -> [Rows -> Modes]], DOMAIN kind' = Txns, DOMAIN todo' = Txns
  PROVE  IInv'
<1>1. \A x \in Txns : Between(x)'
  BY OthersStay
<1> QED BY <1>1 DEF IInv, Between

\* A transaction begins with its first statement and holds nothing.
LEMMA BeginOK ==
  ASSUME IInv, NEW t \in Txns, NEW k \in Kinds, NEW a \in Accounts, NEW b \in Accounts, Begin(t, k, a, b)
  PROVE  IInv'
<1> DEFINE P == Program(k, a, b)
<1>1. P \in Seq(Statement) /\ Len(P) \in 1 .. 8
  BY ProgramIs, RowLocksAssumption
<1>2. ~Running(t) /\ (k # "claim" => a = b) /\ kind' = [kind EXCEPT ![t] = k]
      /\ todo' = [todo EXCEPT ![t] = P] /\ held' = held
  BY DEF Begin
<1> HIDE DEF P
<1>3. kind[t] = "none" /\ held[t] = Nothing
  BY <1>2, RowLocksAssumption DEF IInv, Running, InProgram, AllKinds
<1>4. kind'[t] = k /\ todo'[t] = P /\ held'[t] = Nothing
  BY <1>2, <1>3 DEF IInv
<1>5. From(P, 1) = P
  <2>1. \A n \in 1 .. 8 : 1 \in 1 .. n
    OBVIOUS
  <2>2. 1 \in 1 .. Len(P)
    BY <1>1, <2>1
  <2> QED BY <1>1, <2>2, FromIs
<1>6. Stage(t, P, 1)'
  <2>1. todo'[t] = From(P, 1)
    BY <1>4, <1>5
  <2>2. \A r \in Rows : held'[t][r] = 0
    BY <1>4 DEF Nothing
  <2>3. \A c \in Accounts : held'[t][<<"requests", c>>] = 0
    BY <2>2 DEF Rows, Tables
  <2>4. Since(kind'[t], 1) .. 1 - 1 = {}
    BY DEF Since
  <2> QED BY <2>1, <2>2, <2>3, <2>4 DEF Stage
<1>7. InProgram(t, k, a, b)'
  <2>1. 1 \in 1 .. Len(P) + 1
    BY <1>1
  <2> QED BY <1>2, <1>4, <1>6, <2>1 DEF InProgram, P
<1>8. Others(t)
  BY <1>2 DEF Others, IInv
<1> QED BY <1>2, <1>7, <1>8, Suffices DEF IInv, Between, Compatible

\* A transaction that ends holds nothing.
LEMMA ReleaseOK ==
  ASSUME IInv, NEW t \in Txns, Release(t)
  PROVE  IInv'
<1>1. kind'[t] = "none" /\ todo'[t] = <<>> /\ held'[t] = Nothing
  BY DEF Release, IInv
<1>2. Others(t)
  BY DEF Others, Release, IInv
<1>3. held' \in [Txns -> [Rows -> Modes]] /\ DOMAIN kind' = Txns /\ DOMAIN todo' = Txns
  BY DEF Release, IInv, Nothing, Modes
<1>4. Compatible'
  <2> SUFFICES ASSUME NEW x \in Txns, NEW y \in Txns, x # y, NEW r \in Rows
               PROVE  ~Conflicts(held'[x][r], held'[y][r])
    BY DEF Compatible
  <2>1. x = t \/ y = t => held'[x][r] = 0 \/ held'[y][r] = 0
    BY <1>1 DEF Nothing
  <2>2. x # t /\ y # t => held'[x][r] = held[x][r] /\ held'[y][r] = held[y][r]
    BY <1>2 DEF Others
  <2>3. ~Conflicts(held[x][r], held[y][r])
    BY DEF IInv, Compatible
  <2> QED BY <2>1, <2>2, <2>3 DEF Conflicts
<1> QED BY <1>1, <1>2, <1>3, <1>4, Suffices DEF Between

\* A lock that is granted is compatible with what the others hold, and so is the
\* stronger of it and the one held before.
LEMMA GrantOK ==
  ASSUME IInv, NEW t \in Txns, Grant(t)
  PROVE  IInv'
<1>1. PICK k \in Kinds, a \in Accounts, b \in Accounts : \E i \in 1 .. Len(Program(k, a, b)) :
         /\ (k # "claim" => a = b) /\ kind[t] = k
         /\ Program(k, a, b) \in Seq(Statement) /\ Len(Program(k, a, b)) \in 1 .. 8
         /\ Program(k, a, b)[i] \in Statement
         /\ Stage(t, Program(k, a, b), i)
         /\ Head(todo[t]) = Program(k, a, b)[i]
  BY AtStatement DEF Grant
<1> DEFINE P == Program(k, a, b)
<1>2. PICK i \in 1 .. Len(P) :
         /\ (k # "claim" => a = b) /\ kind[t] = k
         /\ P \in Seq(Statement) /\ Len(P) \in 1 .. 8 /\ P[i] \in Statement
         /\ Stage(t, P, i) /\ Head(todo[t]) = P[i]
  BY <1>1
<1> DEFINE row == P[i].row
           mode == P[i].mode
           new == IF mode > held[t][row] THEN mode ELSE held[t][row]
<1>3. k = "claim" => /\ Len(P) = 7
                     /\ P[1] = TryLock("jobs", a, Update, 2)
                     /\ P[2] = Lock("requests", a, NoKeyUpdate)
                     /\ P[3] = TryLock("jobs", b, Update, 5)
                     /\ P[4] = TryLock("profiles", b, Update, 4)
                     /\ P[5] = TryLock("users", b, Update, 3)
                     /\ P[6] = Lock("budget", b, NoKeyUpdate)
                     /\ P[7] = Lock("requests", b, NoKeyUpdate)
  BY ClaimIs
<1>4. row \in Rows /\ mode \in 1 .. 4
  BY <1>2 DEF Statement
<1>5. held[t] \in [Rows -> Modes] /\ held[t][row] \in 0 .. 4
  BY <1>4 DEF IInv, Modes
<1>6. held' = [held EXCEPT ![t][row] = new] /\ todo' = [todo EXCEPT ![t] = Tail(todo[t])] /\ kind' = kind
      /\ Blockers(t) = {} /\ Asks(t)
  BY <1>2 DEF Grant
<1> HIDE DEF P
<1>7. Tail(todo[t]) = From(P, i + 1)
  BY <1>2, FromIs DEF Stage
<1>8. new \in 1 .. 4 /\ new \in Modes /\ new >= mode /\ new >= held[t][row] /\ (new = mode \/ new = held[t][row])
  BY <1>4, <1>5 DEF Modes
<1> HIDE DEF new, row, mode
<1>9. /\ held'[t] = [held[t] EXCEPT ![row] = new] /\ todo'[t] = From(P, i + 1) /\ kind'[t] = k
      /\ held'[t] \in [Rows -> Modes] /\ Others(t)
  BY <1>2, <1>4, <1>5, <1>6, <1>7, <1>8 DEF IInv, Others
<1>10. held'[t][row] = new /\ \A r \in Rows \ {row} : held'[t][r] = held[t][r]
  BY <1>4, <1>5, <1>9
<1>11. held' \in [Txns -> [Rows -> Modes]] /\ DOMAIN kind' = Txns /\ DOMAIN todo' = Txns
  BY <1>4, <1>6, <1>8 DEF IInv
<1>12. Compatible'
  <2>1. \A x \in Txns \ {t} : ~Conflicts(mode, held[x][row])
    BY <1>2, <1>6 DEF Blockers, row, mode
  <2>2. \A x \in Txns \ {t} : ~Conflicts(held[t][row], held[x][row])
    BY <1>4 DEF IInv, Compatible
  <2>3. \A x \in Txns \ {t} : ~Conflicts(new, held[x][row])
    BY <1>8, <2>1, <2>2
  <2>4. \A m, n : Conflicts(m, n) <=> Conflicts(n, m)
    BY DEF Conflicts
  <2> SUFFICES ASSUME NEW x \in Txns, NEW y \in Txns, x # y, NEW r \in Rows
               PROVE  ~Conflicts(held'[x][r], held'[y][r])
    BY DEF Compatible
  <2>5. ~Conflicts(held[x][r], held[y][r])
    BY DEF IInv, Compatible
  <2>6. CASE x = t /\ r = row
    BY <1>9, <1>10, <2>3, <2>6 DEF Others
  <2>7. CASE y = t /\ r = row
    BY <1>9, <1>10, <2>3, <2>4, <2>7 DEF Others
  <2>8. CASE ~(x = t /\ r = row) /\ ~(y = t /\ r = row)
    BY <1>9, <1>10, <2>5, <2>8 DEF Others
  <2> QED BY <2>6, <2>7, <2>8
<1>13. Stage(t, P, i + 1)'
  <2>1. \A r \in Rows : held'[t][r] # 0 => \E j \in 1 .. i + 1 - 1 : P[j].row = r /\ P[j].mode = held'[t][r]
    <3> SUFFICES ASSUME NEW r \in Rows, held'[t][r] # 0
                 PROVE  \E j \in 1 .. i : P[j].row = r /\ P[j].mode = held'[t][r]
      OBVIOUS
    <3>1. held[t][r] # 0 => \E j \in 1 .. i - 1 : P[j].row = r /\ P[j].mode = held[t][r]
      BY <1>2 DEF Stage
    <3>2. CASE r = row /\ new = mode
      BY <1>2, <1>10, <3>2 DEF row, mode
    <3>3. CASE r # row \/ new = held[t][row]
      <4>1. held'[t][r] = held[t][r]
        BY <1>10, <3>3
      <4> QED BY <3>1, <4>1
    <3> QED BY <1>8, <3>2, <3>3
  <2>2. \A j \in Since(k, i + 1) .. i : held'[t][P[j].row] >= P[j].mode
    <3> SUFFICES ASSUME NEW j \in Since(k, i + 1) .. i
                 PROVE  held'[t][P[j].row] >= P[j].mode
      OBVIOUS
    <3>1. CASE j = i
      BY <1>8, <1>10, <3>1 DEF row, mode
    <3>2. CASE j # i
      <4>1. j \in Since(k, i) .. i - 1 /\ j \in 1 .. Len(P)
        BY <1>2, <1>3, <3>2 DEF Since
      <4>2. held[t][P[j].row] >= P[j].mode
        BY <1>2, <4>1 DEF Stage
      <4>3. P[j] \in Statement
        BY <1>2, <4>1, ElementOfSeq
      <4>4. P[j].row \in Rows /\ P[j].mode \in 1 .. 4
        BY <4>3 DEF Statement
      <4>5. held[t][P[j].row] \in 0 .. 4
        BY <1>5, <4>4 DEF Modes
      <4>6. CASE P[j].row = row
        BY <1>8, <1>10, <4>2, <4>4, <4>5, <4>6
      <4>7. CASE P[j].row # row
        BY <1>10, <4>2, <4>4, <4>7
      <4> QED BY <4>6, <4>7
    <3> QED BY <3>1, <3>2
  <2>3. k = "claim" => \A c \in Accounts : held'[t][<<"requests", c>>] # 0 => held'[t][<<"jobs", c>>] = Update
    <3> SUFFICES ASSUME k = "claim", NEW c \in Accounts, held'[t][<<"requests", c>>] # 0
                 PROVE  held'[t][<<"jobs", c>>] = Update
      OBVIOUS
    <3>1. <<"requests", c>> \in Rows /\ <<"jobs", c>> \in Rows /\ <<"jobs", c>> # <<"requests", c>>
      BY DEF Rows, Tables
    <3>2. held'[t][<<"jobs", c>>] >= held[t][<<"jobs", c>>] /\ held'[t][<<"jobs", c>>] \in Modes
      <4>1. held[t][<<"jobs", c>>] \in 0 .. 4 /\ held'[t][<<"jobs", c>>] \in Modes
        BY <1>5, <1>9, <3>1 DEF Modes
      <4>2. CASE <<"jobs", c>> = row
        BY <1>8, <1>10, <4>1, <4>2
      <4>3. CASE <<"jobs", c>> # row
        BY <1>10, <3>1, <4>1, <4>3
      <4> QED BY <4>2, <4>3
    <3>3. held[t][<<"jobs", c>>] = Update
      <4>1. CASE held[t][<<"requests", c>>] # 0
        BY <1>2, <4>1 DEF Stage
      <4>2. CASE row = <<"requests", c>>
        <5>1. (i = 2 /\ c = a) \/ (i = 7 /\ c = b)
          <6>0. Len(P) = 7
            BY <1>3
          <6>1. i = 1 \/ i = 2 \/ i = 3 \/ i = 4 \/ i = 5 \/ i = 6 \/ i = 7
            BY <6>0
          <6> QED BY <1>3, <4>2, <6>1 DEF Lock, TryLock, row
        <5>2. CASE i = 2 /\ c = a
          <6>1. held[t][P[1].row] >= P[1].mode
            BY <1>2, <5>2 DEF Stage, Since
          <6>2. P[1].row = <<"jobs", c>> /\ P[1].mode = Update
            BY <1>3, <5>2 DEF TryLock
          <6> QED BY <1>5, <3>1, <6>1, <6>2 DEF Update, Modes
        <5>3. CASE i = 7 /\ c = b
          <6>1. held[t][P[3].row] >= P[3].mode
            BY <1>2, <5>3 DEF Stage, Since
          <6>2. P[3].row = <<"jobs", c>> /\ P[3].mode = Update
            BY <1>3, <5>3 DEF TryLock
          <6> QED BY <1>5, <3>1, <6>1, <6>2 DEF Update, Modes
        <5> QED BY <5>1, <5>2, <5>3
      <4> QED BY <1>10, <3>1, <4>1, <4>2
    <3> QED BY <3>2, <3>3 DEF Update, Modes
  <2>4. todo'[t] = From(P, i + 1) /\ kind'[t] = k /\ i + 1 - 1 = i
    BY <1>9
  <2> QED BY <2>1, <2>2, <2>3, <2>4 DEF Stage
<1>14. InProgram(t, k, a, b)'
  <2>1. i + 1 \in 1 .. Len(P) + 1
    BY <1>2
  <2> QED BY <1>2, <1>9, <1>13, <2>1 DEF InProgram, P
<1> QED BY <1>9, <1>11, <1>12, <1>14, Suffices DEF Between

\* A claim that skips a locked row goes on with the next thing it looks for.
LEMMA SkipOK ==
  ASSUME IInv, NEW t \in Txns, SkipLocked(t)
  PROVE  IInv'
<1>1. PICK k \in Kinds, a \in Accounts, b \in Accounts : \E i \in 1 .. Len(Program(k, a, b)) :
         /\ (k # "claim" => a = b) /\ kind[t] = k
         /\ Program(k, a, b) \in Seq(Statement) /\ Len(Program(k, a, b)) \in 1 .. 8
         /\ Program(k, a, b)[i] \in Statement
         /\ Stage(t, Program(k, a, b), i)
         /\ Head(todo[t]) = Program(k, a, b)[i]
  BY AtStatement DEF SkipLocked
<1> DEFINE P == Program(k, a, b)
<1>2. PICK i \in 1 .. Len(P) :
         /\ (k # "claim" => a = b) /\ kind[t] = k
         /\ P \in Seq(Statement) /\ Len(P) \in 1 .. 8 /\ P[i] \in Statement
         /\ Stage(t, P, i) /\ Head(todo[t]) = P[i]
  BY <1>1
<1> DEFINE to == i + P[i].skip
<1>3. /\ k = "claim" /\ ((i = 1 /\ to = 3) \/ (i \in 3 .. 5 /\ to = 8))
      /\ P[i].skip \in 1 .. 5 /\ Len(P) = 7
  <2>1. P[i].skip > 0
    BY <1>2 DEF SkipLocked
  <2>2. k = "claim" /\ ((i = 1 /\ i + P[i].skip = 3) \/ (i \in 3 .. 5 /\ i + P[i].skip = 8))
    BY <1>2, <2>1, ProgramIs, RowLocksAssumption
  <2>3. P[i].skip \in 1 .. 5
    BY <1>2, <2>1 DEF Statement
  <2>4. Len(P) = 7
    BY <2>2, ClaimIs
  <2> QED BY <2>2, <2>3, <2>4
<1>4. todo' = [todo EXCEPT ![t] = SubSeq(todo[t], P[i].skip + 1, Len(todo[t]))] /\ kind' = kind /\ held' = held
  BY <1>2 DEF SkipLocked
<1> HIDE DEF P
<1>5. SubSeq(From(P, i), P[i].skip + 1, Len(From(P, i))) = From(P, to)
  <2>1. P[i].skip \in 1 .. Len(P) /\ i + P[i].skip <= Len(P) + 1
    BY <1>3
  <2>2. \A n \in 1 .. Len(P) : i + n <= Len(P) + 1 =>
          SubSeq(From(P, i), n + 1, Len(From(P, i))) = From(P, i + n)
    BY <1>2, FromIs
  <2> QED BY <2>1, <2>2
<1> HIDE DEF to
<1>6. todo[t] = From(P, i)
  BY <1>2 DEF Stage
<1>7. todo'[t] = From(P, to) /\ kind'[t] = k /\ held'[t] = held[t] /\ Others(t)
      /\ DOMAIN kind' = Txns /\ DOMAIN todo' = Txns
  BY <1>2, <1>4, <1>5, <1>6 DEF IInv, Others
<1>8. Stage(t, P, to)'
  <2>1. \A r \in Rows : held'[t][r] # 0 => \E j \in 1 .. to - 1 : P[j].row = r /\ P[j].mode = held'[t][r]
    BY <1>2, <1>3, <1>7 DEF Stage
  <2>2. Since(k, to) .. to - 1 = {}
    BY <1>3 DEF Since
  <2>3. k = "claim" => \A c \in Accounts : held'[t][<<"requests", c>>] # 0 => held'[t][<<"jobs", c>>] = Update
    BY <1>2, <1>7 DEF Stage
  <2> QED BY <1>7, <2>1, <2>2, <2>3 DEF Stage
<1>9. InProgram(t, k, a, b)'
  <2>1. to \in 1 .. Len(P) + 1
    BY <1>3
  <2> QED BY <1>2, <1>7, <1>8, <2>1 DEF InProgram, P
<1> QED BY <1>4, <1>7, <1>9, Suffices DEF IInv, Between, Compatible

\* Every step is one of a transaction.
LEMMA StepOK == IInv /\ [Next]_vars => IInv'
<1> SUFFICES ASSUME IInv, [Next]_vars PROVE IInv'
  OBVIOUS
<1>1. CASE UNCHANGED vars
  BY <1>1 DEF IInv, Compatible, InProgram, Stage, vars
<1>2. CASE Next
  <2>1. PICK t \in Txns : \/ \E k \in Kinds, a, b \in Accounts : Begin(t, k, a, b)
                          \/ Grant(t) \/ SkipLocked(t) \/ Commit(t) \/ Rollback(t)
    BY <1>2 DEF Next
  <2>2. ASSUME NEW k \in Kinds, NEW a \in Accounts, NEW b \in Accounts, Begin(t, k, a, b) PROVE IInv'
    BY <2>2, BeginOK
  <2>3. CASE Grant(t)
    BY <2>3, GrantOK
  <2>4. CASE SkipLocked(t)
    BY <2>4, SkipOK
  <2>5. CASE Commit(t) \/ Rollback(t)
    BY <2>5, ReleaseOK DEF Commit, Rollback
  <2> QED BY <2>1, <2>2, <2>3, <2>4, <2>5
<1> QED BY <1>1, <1>2

\* Conflicting locks are never held together, and a transaction holds what it
\* asked for so far.
THEOREM Invariance == Spec => []IInv
BY InitOK, StepOK, PTL DEF Spec

-----------------------------------------------------------------------------
(* The order of the locks.  A transaction is stuck when it waits and holds   *)
(* something others may wait for.                                            *)

Holds(t, T, c) == held[t][<<T, c>>]
Wants(t, T, c) == Head(todo[t]).row = <<T, c>>
Stuck(t)       == Waiting(t) /\ \E r \in Rows : held[t][r] # 0

Own(t, c)      == \A T \in Tables, d \in Accounts : Holds(t, T, d) # 0 => d = c

\* An unkeyed write that holds the profile.
Outward(t, c) ==
  /\ kind[t] \in {"edit", "step", "goal", "roadmap"} /\ Own(t, c) /\ Holds(t, "profiles", c) >= NoKeyUpdate
  /\ \/ Wants(t, "roadmaps", c) \/ Wants(t, "goals", c)
     \/ Wants(t, "users", c) /\ Head(todo[t]).mode = KeyShare

\* A transaction that holds the account and waits for the profile.
Entering(t, c) ==
  /\ Holds(t, "users", c) = NoKeyUpdate \/ (Holds(t, "users", c) = Update /\ kind[t] \in {"finalize", "reconcile", "keyed"})
  /\ \A T \in Tables, d \in Accounts : Holds(t, T, d) # 0 => T = "users" /\ d = c
  /\ Wants(t, "profiles", c)

\* One that holds both, and waits for a row no claim locks, or for one a claim may have.
Inside(t, c) ==
  /\ Own(t, c) /\ Holds(t, "users", c) >= NoKeyUpdate /\ Holds(t, "profiles", c) = Update
  /\ Holds(t, "requests", c) # 0 => \/ Holds(t, "jobs", c) = Update
                                    \/ Wants(t, "roadmaps", c) \/ Wants(t, "goals", c)
WantsKept(t, c)    == \E T \in {"roadmaps", "goals", "budget", "users"} : Wants(t, T, c)
WantsClaimed(t, c) == \E T \in {"jobs", "requests"} : Wants(t, T, c)

\* A claim that retires a stale job, and one that has its job and the owner's lock.
Retiring(t, c) ==
  /\ \A T \in Tables, d \in Accounts : Holds(t, T, d) # 0 => T = "jobs" /\ d = c
  /\ Holds(t, "jobs", c) = Update /\ Wants(t, "requests", c)
Claiming(t, c) ==
  /\ \A T \in Tables, d \in Accounts : Holds(t, T, d) # 0 => T \in {"jobs", "requests"} \/ d = c
  /\ \A d \in Accounts : Holds(t, "requests", d) # 0 => Holds(t, "jobs", d) = Update
  /\ Holds(t, "jobs", c) = Update /\ Holds(t, "profiles", c) = Update /\ Holds(t, "users", c) = Update
  /\ Wants(t, "budget", c) \/ Wants(t, "requests", c)

\* The order: what a stuck transaction of one level waits for is held, among the
\* stuck ones, only by those of the levels before.
First(t)  == \E c \in Accounts : Outward(t, c) \/ Claiming(t, c) \/ (Inside(t, c) /\ WantsKept(t, c))
Second(t) == \E c \in Accounts : Entering(t, c) \/ Retiring(t, c)
Third(t)  == \E c \in Accounts : Inside(t, c) /\ WantsClaimed(t, c)

\* Conflicting locks of two transactions.
LEMMA Exclusion ==
  ASSUME IInv, NEW t \in Txns, NEW x \in Txns, t # x, NEW T \in Tables, NEW c \in Accounts
  PROVE  /\ Holds(t, T, c) \in 0 .. 4 /\ Holds(x, T, c) \in 0 .. 4
         /\ Holds(t, T, c) = Update => Holds(x, T, c) = 0
         /\ Holds(t, T, c) >= NoKeyUpdate => Holds(x, T, c) <= KeyShare
<1>1. <<T, c>> \in Rows
  BY DEF Rows
<1>2. Holds(t, T, c) \in 0 .. 4 /\ Holds(x, T, c) \in 0 .. 4
  BY <1>1 DEF IInv, Holds, Modes
<1>3. ~Conflicts(Holds(t, T, c), Holds(x, T, c))
  BY <1>1 DEF IInv, Compatible, Holds
<1> QED BY <1>2, <1>3 DEF Conflicts, Update, NoKeyUpdate, KeyShare

\* Who stands in the way holds the row; a key check is stopped by UPDATE alone.
LEMMA InTheWay ==
  ASSUME IInv, NEW t \in Txns, NEW x \in Blockers(t), NEW T \in Tables, NEW c \in Accounts, Wants(t, T, c)
  PROVE  /\ x \in Txns /\ x # t /\ Holds(x, T, c) # 0
         /\ Head(todo[t]).mode = KeyShare => Holds(x, T, c) = Update
<1>1. x \in Txns \ {t} /\ Conflicts(Head(todo[t]).mode, held[x][<<T, c>>])
  BY DEF Blockers, Wants
<1> QED BY <1>1 DEF Conflicts, Holds, KeyShare, Update, NoKeyUpdate

\* A profile-first write waits for nobody who is stuck.
LEMMA OutwardIsFirst ==
  ASSUME IInv, NEW t \in Txns, NEW c \in Accounts, Outward(t, c), NEW x \in Blockers(t),
         kind[x] \notin {"finalize", "reconcile", "keyed"}
  PROVE  ~First(x) /\ ~Second(x) /\ ~Third(x)
<1>1. PICK T \in {"roadmaps", "goals", "users"} : Wants(t, T, c) /\ (T = "users" => Head(todo[t]).mode = KeyShare)
  BY DEF Outward
<1>2. x \in Txns /\ x # t /\ Holds(x, T, c) # 0 /\ (T = "users" => Holds(x, T, c) = Update)
  BY <1>1, InTheWay DEF Tables
<1>3. Holds(x, "profiles", c) <= KeyShare /\ Holds(x, "profiles", c) \in 0 .. 4
  BY <1>2, Exclusion DEF Tables, Outward
<1>4. ASSUME NEW d \in Accounts, Outward(x, d) PROVE FALSE
  <2>1. d = c
    BY <1>1, <1>2, <1>4 DEF Outward, Own, Tables
  <2> QED BY <1>3, <1>4, <2>1 DEF Outward, KeyShare, NoKeyUpdate
<1>5. ASSUME NEW d \in Accounts PROVE ~Entering(x, d)
  BY <1>1, <1>2 DEF Entering, Tables, NoKeyUpdate, Update
<1>6. ASSUME NEW d \in Accounts PROVE ~Inside(x, d)
  BY <1>1, <1>2, <1>3 DEF Inside, Own, Tables, KeyShare, Update
<1>7. ASSUME NEW d \in Accounts PROVE ~Retiring(x, d)
  BY <1>1, <1>2 DEF Retiring, Tables
<1>8. ASSUME NEW d \in Accounts PROVE ~Claiming(x, d)
  BY <1>1, <1>2, <1>3 DEF Claiming, Tables, KeyShare, Update
<1> QED BY <1>4, <1>5, <1>6, <1>7, <1>8 DEF First, Second, Third

\* Nor does a claim that has its job and its owner.
LEMMA ClaimingIsFirst ==
  ASSUME IInv, NEW t \in Txns, NEW c \in Accounts, Claiming(t, c), NEW x \in Blockers(t)
  PROVE  ~First(x) /\ ~Second(x) /\ ~Third(x)
<1>1. PICK T \in {"budget", "requests"} : Wants(t, T, c)
  BY DEF Claiming
<1>2. x \in Txns /\ x # t /\ Holds(x, T, c) # 0
  BY <1>1, InTheWay DEF Tables
<1>3. Holds(x, "profiles", c) = 0 /\ Holds(x, "users", c) = 0 /\ Holds(x, "jobs", c) = 0
  BY <1>2, Exclusion DEF Tables, Claiming
<1>4. ASSUME NEW d \in Accounts, Outward(x, d) PROVE FALSE
  <2>1. d = c
    BY <1>1, <1>2, <1>4 DEF Outward, Own, Tables
  <2> QED BY <1>3, <1>4, <2>1 DEF Outward, NoKeyUpdate
<1>5. ASSUME NEW d \in Accounts PROVE ~Entering(x, d)
  BY <1>1, <1>2 DEF Entering, Tables
<1>6. ASSUME NEW d \in Accounts PROVE ~Inside(x, d)
  BY <1>1, <1>2, <1>3 DEF Inside, Own, Tables, Update
<1>7. ASSUME NEW d \in Accounts PROVE ~Retiring(x, d)
  BY <1>1, <1>2 DEF Retiring, Tables
<1>8. ASSUME NEW d \in Accounts PROVE ~Claiming(x, d)
  BY <1>1, <1>2, <1>3 DEF Claiming, Tables, Update
<1> QED BY <1>4, <1>5, <1>6, <1>7, <1>8 DEF First, Second, Third

\* Nor one that has the account and the profile, for a row no claim locks for others.
LEMMA KeptIsFirst ==
  ASSUME IInv, NEW t \in Txns, NEW c \in Accounts, Inside(t, c), WantsKept(t, c), NEW x \in Blockers(t)
  PROVE  ~First(x) /\ ~Second(x) /\ ~Third(x)
<1>1. PICK T \in {"roadmaps", "goals", "budget", "users"} : Wants(t, T, c)
  BY DEF WantsKept
<1>2. x \in Txns /\ x # t /\ Holds(x, T, c) # 0
  BY <1>1, InTheWay DEF Tables
<1>3. Holds(x, "profiles", c) = 0 /\ Holds(x, "users", c) <= KeyShare
  BY <1>2, Exclusion DEF Tables, Inside
<1>4. ASSUME NEW d \in Accounts, Outward(x, d) PROVE FALSE
  <2>1. d = c
    BY <1>1, <1>2, <1>4 DEF Outward, Own, Tables
  <2> QED BY <1>3, <1>4, <2>1 DEF Outward, NoKeyUpdate
<1>5. ASSUME NEW d \in Accounts PROVE ~Entering(x, d)
  BY <1>1, <1>2, <1>3 DEF Entering, Tables, NoKeyUpdate, Update, KeyShare
<1>6. ASSUME NEW d \in Accounts PROVE ~Inside(x, d)
  BY <1>1, <1>2, <1>3 DEF Inside, Own, Tables, Update
<1>7. ASSUME NEW d \in Accounts PROVE ~Retiring(x, d)
  BY <1>1, <1>2 DEF Retiring, Tables
<1>8. ASSUME NEW d \in Accounts PROVE ~Claiming(x, d)
  BY <1>1, <1>2, <1>3 DEF Claiming, Tables, Update
<1> QED BY <1>4, <1>5, <1>6, <1>7, <1>8 DEF First, Second, Third

\* What waits for the profile waits for an unkeyed write at most.
LEMMA EnteringIsSecond ==
  ASSUME IInv, NEW t \in Txns, NEW c \in Accounts, Entering(t, c), NEW x \in Blockers(t)
  PROVE  ~Second(x) /\ ~Third(x)
<1>1. x \in Txns /\ x # t /\ Holds(x, "profiles", c) # 0
  BY InTheWay DEF Tables, Entering
<1>2. Holds(x, "users", c) <= KeyShare /\ Holds(x, "users", c) \in 0 .. 4
  BY <1>1, Exclusion DEF Tables, Entering, Update, NoKeyUpdate
<1>3. ASSUME NEW d \in Accounts PROVE ~Entering(x, d)
  BY <1>1 DEF Entering, Tables
<1>4. ASSUME NEW d \in Accounts, Inside(x, d) PROVE FALSE
  <2>1. d = c
    BY <1>1, <1>4 DEF Inside, Own, Tables
  <2> QED BY <1>2, <1>4, <2>1 DEF Inside, KeyShare, NoKeyUpdate
<1>5. ASSUME NEW d \in Accounts PROVE ~Retiring(x, d)
  BY <1>1 DEF Retiring, Tables
<1> QED BY <1>3, <1>4, <1>5 DEF Second, Third

\* A claim that retires a job waits for a reconciliation at most: the others who
\* hold requests hold the job, too.
LEMMA RetiringIsSecond ==
  ASSUME IInv, NEW t \in Txns, NEW c \in Accounts, Retiring(t, c), NEW x \in Blockers(t)
  PROVE  ~Second(x) /\ ~Third(x)
<1>1. x \in Txns /\ x # t /\ Holds(x, "requests", c) # 0
  BY InTheWay DEF Tables, Retiring
<1>2. Holds(x, "jobs", c) = 0
  BY <1>1, Exclusion DEF Tables, Retiring
<1>3. ASSUME NEW d \in Accounts PROVE ~Entering(x, d)
  BY <1>1 DEF Entering, Tables
<1>4. ASSUME NEW d \in Accounts, Inside(x, d), WantsClaimed(x, d) PROVE FALSE
  <2>1. d = c
    BY <1>1, <1>4 DEF Inside, Own, Tables
  <2>2. Wants(x, "roadmaps", c) \/ Wants(x, "goals", c)
    BY <1>1, <1>2, <1>4, <2>1 DEF Inside, Update
  <2> QED BY <1>4, <2>1, <2>2 DEF WantsClaimed, Wants
<1>5. ASSUME NEW d \in Accounts PROVE ~Retiring(x, d)
  BY <1>1 DEF Retiring, Tables
<1> QED BY <1>3, <1>4, <1>5 DEF Second, Third

\* One that has the account and the profile never waits for another such one.
LEMMA InsideIsThird ==
  ASSUME IInv, NEW t \in Txns, NEW c \in Accounts, Inside(t, c), WantsClaimed(t, c), NEW x \in Blockers(t)
  PROVE  ~Third(x)
<1>1. PICK T \in {"jobs", "requests"} : Wants(t, T, c)
  BY DEF WantsClaimed
<1>2. x \in Txns /\ x # t /\ Holds(x, T, c) # 0
  BY <1>1, InTheWay DEF Tables
<1>3. Holds(x, "profiles", c) = 0
  BY <1>2, Exclusion DEF Tables, Inside
<1> QED BY <1>1, <1>2, <1>3 DEF Third, Inside, Own, Tables, Update

-----------------------------------------------------------------------------
(* Every stuck transaction is of one of these classes.                       *)

\* Profile first: the roadmap, the goals, and the key check.
OutwardShape(P, c) ==
  /\ P[1].row = <<"profiles", c>> /\ P[1].mode \in NoKeyUpdate .. Update
  /\ \A j \in 2 .. Len(P) : \/ P[j].row = <<"roadmaps", c>> \/ P[j].row = <<"goals", c>>
                            \/ P[j].row = <<"users", c>> /\ P[j].mode = KeyShare

\* Account first, then the profile; requests after the job, or else before nothing
\* but roadmaps and goals.
Kept(c) == {<<"roadmaps", c>>, <<"goals", c>>, <<"budget", c>>, <<"users", c>>}
InwardShape(P, k, c) ==
  /\ P[1].row = <<"users", c>>
  /\ P[1].mode = NoKeyUpdate \/ (P[1].mode = Update /\ k \in {"finalize", "reconcile", "keyed"})
  /\ P[2].row = <<"profiles", c>> /\ P[2].mode = Update
  /\ \A j \in 3 .. Len(P) : P[j].row \in Kept(c) \cup {<<"jobs", c>>, <<"requests", c>>}
  /\ \A j \in 3 .. Len(P) : P[j].row = <<"requests", c>> =>
       \/ \E l \in 3 .. j - 1 : P[l].row = <<"jobs", c>> /\ P[l].mode = Update
       \/ \A l \in j + 1 .. Len(P) : P[l].row \in {<<"roadmaps", c>>, <<"goals", c>>}

\* The unkeyed writes.
LEMMA OutwardShapes ==
  ASSUME NEW k \in {"edit", "step", "goal", "roadmap"}, NEW a \in Accounts, NEW b \in Accounts
  PROVE  OutwardShape(Program(k, a, b), a)
<1> DEFINE P == Program(k, a, b)
<1>1. CASE k = "edit"
  <2>1. Len(P) = 2 /\ P[1] = Lock("profiles", a, NoKeyUpdate) /\ P[2] = Lock("users", a, KeyShare)
    BY <1>1, EditIs DEF Plain
  <2> HIDE DEF P
  <2>2. OutwardShape(P, a)
    BY <2>1 DEF OutwardShape, Lock, NoKeyUpdate, Update
  <2> QED BY <2>2 DEF P
<1>2. CASE k = "step"
  <2>1. /\ Len(P) = 3 /\ P[1] = Lock("profiles", a, NoKeyUpdate)
        /\ P[2] = Lock("roadmaps", a, Update) /\ P[3] = Lock("users", a, KeyShare)
    BY <1>2, StepIs DEF Plain
  <2> HIDE DEF P
  <2>2. OutwardShape(P, a)
    BY <2>1 DEF OutwardShape, Lock, NoKeyUpdate, Update
  <2> QED BY <2>2 DEF P
<1>3. CASE k = "goal"
  <2>1. /\ Len(P) = 4 /\ P[1] = Lock("profiles", a, Update) /\ P[2] = Lock("goals", a, Update)
        /\ P[3] = Lock("roadmaps", a, NoKeyUpdate) /\ P[4] = Lock("users", a, KeyShare)
    BY <1>3, GoalIs DEF Plain
  <2> HIDE DEF P
  <2>2. OutwardShape(P, a)
    BY <2>1 DEF OutwardShape, Lock, NoKeyUpdate, Update
  <2> QED BY <2>2 DEF P
<1>4. CASE k = "roadmap"
  <2>1. /\ Len(P) = 4 /\ P[1] = Lock("profiles", a, Update) /\ P[2] = Lock("roadmaps", a, Update)
        /\ P[3] = Lock("users", a, KeyShare) /\ P[4] = Lock("goals", a, KeyShare)
    BY <1>4, RoadmapIs DEF Plain
  <2> HIDE DEF P
  <2>2. OutwardShape(P, a)
    BY <2>1 DEF OutwardShape, Lock, NoKeyUpdate, Update
  <2> QED BY <2>2 DEF P
<1> QED BY <1>1, <1>2, <1>3, <1>4

\* Where an unkeyed write can wait, holding something.
LEMMA OutwardClass ==
  ASSUME NEW t \in Txns, NEW c \in Accounts, NEW P, Len(P) \in 1 .. 8, OutwardShape(P, c),
         kind[t] \in {"edit", "step", "goal", "roadmap"},
         held[t] \in [Rows -> Modes],
         NEW i \in 2 .. Len(P), Stage(t, P, i), Head(todo[t]) = P[i]
  PROVE  Outward(t, c)
<1>1. Own(t, c)
  <2> SUFFICES ASSUME NEW T \in Tables, NEW d \in Accounts, held[t][<<T, d>>] # 0
               PROVE  d = c
    BY DEF Own, Holds
  <2>1. PICK j \in 1 .. i - 1 : P[j].row = <<T, d>>
    BY DEF Stage, Rows
  <2>2. j = 1 \/ j \in 2 .. Len(P)
    OBVIOUS
  <2> QED BY <2>1, <2>2 DEF OutwardShape
<1>2. Holds(t, "profiles", c) >= NoKeyUpdate
  <2>1. 1 \in Since(kind[t], i) .. i - 1
    BY DEF Since
  <2>2. held[t][P[1].row] >= P[1].mode
    BY <2>1 DEF Stage
  <2>3. held[t][<<"profiles", c>>] \in 0 .. 4
    BY DEF Rows, Tables, Modes
  <2> QED BY <2>2, <2>3 DEF OutwardShape, Holds, NoKeyUpdate, Update
<1>3. Wants(t, "roadmaps", c) \/ Wants(t, "goals", c) \/ (Wants(t, "users", c) /\ Head(todo[t]).mode = KeyShare)
  BY DEF OutwardShape, Wants
<1> QED BY <1>1, <1>2, <1>3 DEF Outward

\* Erasure, goal deletion, submission, the background transactions, keyed writes.
LEMMA InwardShapes ==
  ASSUME NEW k \in {"erase", "deleteGoal", "submit", "finalize", "reconcile", "keyed"},
         NEW a \in Accounts, NEW b \in Accounts
  PROVE  InwardShape(Program(k, a, b), k, a)
<1> DEFINE P == Program(k, a, b)
<1>1. CASE k = "erase"
  <2>1. /\ Len(P) = 8
        /\ P[1] = Lock("users", a, NoKeyUpdate) /\ P[2] = Lock("profiles", a, Update)
        /\ P[3] = Lock("roadmaps", a, Update) /\ P[4] = Lock("jobs", a, Update)
        /\ P[5] = Lock("requests", a, Update) /\ P[6] = Lock("goals", a, Update)
        /\ P[7] = Lock("budget", a, Update) /\ P[8] = Lock("users", a, Update)
    BY <1>1, EraseIs DEF Plain
  <2> HIDE DEF P
  <2>2. InwardShape(P, k, a)
    BY <1>1, <2>1 DEF InwardShape, Kept, Lock, NoKeyUpdate, Update
  <2> QED BY <2>2 DEF P
<1>2. CASE k = "deleteGoal"
  <2>1. /\ Len(P) = 6
        /\ P[1] = Lock("users", a, NoKeyUpdate) /\ P[2] = Lock("profiles", a, Update)
        /\ P[3] = Lock("goals", a, Update) /\ P[4] = Lock("roadmaps", a, Update)
        /\ P[5] = Lock("jobs", a, Update) /\ P[6] = Lock("requests", a, Update)
    BY <1>2, DeleteGoalIs DEF Plain
  <2> HIDE DEF P
  <2>2. InwardShape(P, k, a)
    BY <1>2, <2>1 DEF InwardShape, Kept, Lock, NoKeyUpdate, Update
  <2> QED BY <2>2 DEF P
<1>3. CASE k = "submit"
  <2>1. /\ Len(P) = 3
        /\ P[1] = Lock("users", a, NoKeyUpdate) /\ P[2] = Lock("profiles", a, Update)
        /\ P[3] = Lock("budget", a, NoKeyUpdate)
    BY <1>3, SubmitIs DEF Plain
  <2> HIDE DEF P
  <2>2. InwardShape(P, k, a)
    BY <1>3, <2>1 DEF InwardShape, Kept, Lock, NoKeyUpdate, Update
  <2> QED BY <2>2 DEF P
<1>4. CASE k = "finalize"
  <2>1. /\ Len(P) = 5
        /\ P[1] = Lock("users", a, Update) /\ P[2] = Lock("profiles", a, Update)
        /\ P[3] = Lock("jobs", a, Update) /\ P[4] = Lock("requests", a, Update)
        /\ P[5] = Lock("goals", a, KeyShare)
    BY <1>4, FinalizeIs DEF Plain
  <2> HIDE DEF P
  <2>2. InwardShape(P, k, a)
    BY <1>4, <2>1 DEF InwardShape, Kept, Lock, NoKeyUpdate, Update
  <2> QED BY <2>2 DEF P
<1>5. CASE k = "reconcile"
  <2>1. /\ Len(P) = 5
        /\ P[1] = Lock("users", a, Update) /\ P[2] = Lock("profiles", a, Update)
        /\ P[3] = Lock("requests", a, Update) /\ P[4] = Lock("roadmaps", a, Update)
        /\ P[5] = Lock("goals", a, KeyShare)
    BY <1>5, ReconcileIs DEF Plain
  <2> HIDE DEF P
  <2>2. InwardShape(P, k, a)
    BY <1>5, <2>1 DEF InwardShape, Kept, Lock, NoKeyUpdate, Update
  <2> QED BY <2>2 DEF P
<1>6. CASE k = "keyed"
  <2>1. /\ Len(P) = 4
        /\ P[1] = Lock("users", a, Update) /\ P[2] = Lock("profiles", a, Update)
        /\ P[3] = Lock("goals", a, Update) /\ P[4] = Lock("roadmaps", a, Update)
    BY <1>6, KeyedIs DEF Plain
  <2> HIDE DEF P
  <2>2. InwardShape(P, k, a)
    BY <1>6, <2>1 DEF InwardShape, Kept, Lock, NoKeyUpdate, Update
  <2> QED BY <2>2 DEF P
<1> QED BY <1>1, <1>2, <1>3, <1>4, <1>5, <1>6

\* Where these can wait, holding something.
LEMMA InwardClass ==
  ASSUME NEW t \in Txns, NEW c \in Accounts, NEW P, Len(P) \in 1 .. 8, InwardShape(P, kind[t], c),
         kind[t] # "claim", held[t] \in [Rows -> Modes],
         NEW i \in 2 .. Len(P), Stage(t, P, i), Head(todo[t]) = P[i]
  PROVE  Entering(t, c) \/ (Inside(t, c) /\ (WantsKept(t, c) \/ WantsClaimed(t, c)))
<1>1. \A T \in Tables, d \in Accounts : held[t][<<T, d>>] \in 0 .. 4
  BY DEF Rows, Modes
<1>2. \A j \in 1 .. i - 1 : held[t][P[j].row] >= P[j].mode
  BY DEF Stage, Since
<1>3. \A T \in Tables, d \in Accounts : held[t][<<T, d>>] # 0 =>
        \E j \in 1 .. i - 1 : P[j].row = <<T, d>> /\ P[j].mode = held[t][<<T, d>>]
  BY DEF Stage, Rows
<1>4. held[t][<<"users", c>>] >= NoKeyUpdate
  <2>1. held[t][P[1].row] >= P[1].mode
    BY <1>2
  <2> QED BY <1>1, <2>1 DEF InwardShape, NoKeyUpdate, Update, Tables
<1>5. CASE i = 2
  <2>1. \A T \in Tables, d \in Accounts : held[t][<<T, d>>] # 0 =>
          T = "users" /\ d = c /\ P[1].mode = held[t][<<T, d>>]
    BY <1>3, <1>5 DEF InwardShape
  <2>2. held[t][<<"users", c>>] = P[1].mode
    BY <1>4, <2>1 DEF Tables, NoKeyUpdate
  <2> QED BY <1>5, <2>1, <2>2 DEF InwardShape, Entering, Holds, Wants
<1>6. CASE i # 2
  <2>1. i \in 3 .. Len(P)
    BY <1>6
  <2>2. held[t][<<"profiles", c>>] = Update
    <3>1. held[t][P[2].row] >= P[2].mode
      BY <1>2, <2>1
    <3> QED BY <1>1, <3>1 DEF InwardShape, Tables, Update
  <2>3. Own(t, c)
    <3> SUFFICES ASSUME NEW T \in Tables, NEW d \in Accounts, held[t][<<T, d>>] # 0
                 PROVE  d = c
      BY DEF Own, Holds
    <3>1. PICK j \in 1 .. i - 1 : P[j].row = <<T, d>>
      BY <1>3
    <3>2. j = 1 \/ j = 2 \/ j \in 3 .. Len(P)
      OBVIOUS
    <3> QED BY <3>1, <3>2 DEF InwardShape, Kept
  <2>4. WantsKept(t, c) \/ WantsClaimed(t, c)
    BY <2>1 DEF InwardShape, Kept, WantsKept, WantsClaimed, Wants
  <2>5. ASSUME held[t][<<"requests", c>>] # 0
        PROVE  held[t][<<"jobs", c>>] = Update \/ Wants(t, "roadmaps", c) \/ Wants(t, "goals", c)
    <3>1. PICK j \in 1 .. i - 1 : P[j].row = <<"requests", c>>
      BY <1>3, <2>5 DEF Tables
    <3>2. j \in 3 .. Len(P) /\ i \in j + 1 .. Len(P)
      <4>1. j # 1 /\ j # 2
        BY <3>1 DEF InwardShape
      <4> QED BY <4>1
    <3>3. CASE \E l \in 3 .. j - 1 : P[l].row = <<"jobs", c>> /\ P[l].mode = Update
      <4>1. PICK l \in 3 .. j - 1 : P[l].row = <<"jobs", c>> /\ P[l].mode = Update
        BY <3>3
      <4>2. l \in 1 .. i - 1
        <5>1. i \in Int /\ j \in Int /\ j < i
          OBVIOUS
        <5> QED BY <4>1, <5>1
      <4>3. held[t][P[l].row] >= P[l].mode
        BY <1>2, <4>2
      <4> QED BY <1>1, <4>1, <4>3 DEF Tables, Update
    <3>4. CASE \A l \in j + 1 .. Len(P) : P[l].row \in {<<"roadmaps", c>>, <<"goals", c>>}
      BY <3>2, <3>4 DEF Wants
    <3> QED BY <3>1, <3>2, <3>3, <3>4 DEF InwardShape
  <2> QED BY <1>4, <2>2, <2>3, <2>4, <2>5 DEF Inside, Holds
<1> QED BY <1>5, <1>6

\* A claim waits in two places; elsewhere it skips what is locked.
LEMMA ClaimClass ==
  ASSUME NEW t \in Txns, NEW a \in Accounts, NEW b \in Accounts, kind[t] = "claim", held[t] \in [Rows -> Modes],
         NEW i \in 2 .. 7, Stage(t, Program("claim", a, b), i), Head(todo[t]) = Program("claim", a, b)[i],
         Head(todo[t]).skip = 0
  PROVE  Retiring(t, a) \/ Claiming(t, b)
<1> DEFINE P == Program("claim", a, b)
<1>1. /\ P[1] = TryLock("jobs", a, Update, 2) /\ P[2] = Lock("requests", a, NoKeyUpdate)
      /\ P[3] = TryLock("jobs", b, Update, 5) /\ P[4] = TryLock("profiles", b, Update, 4)
      /\ P[5] = TryLock("users", b, Update, 3) /\ P[6] = Lock("budget", b, NoKeyUpdate)
      /\ P[7] = Lock("requests", b, NoKeyUpdate)
  BY ClaimIs
<1>2. P[3].skip = 5 /\ P[4].skip = 4 /\ P[5].skip = 3
  BY ClaimIs
<1>3. Stage(t, P, i) /\ Head(todo[t]) = P[i]
  OBVIOUS
<1> HIDE DEF P
<1>4. /\ P[1].row = <<"jobs", a>> /\ P[2].row = <<"requests", a>> /\ P[3].row = <<"jobs", b>>
      /\ P[4].row = <<"profiles", b>> /\ P[5].row = <<"users", b>> /\ P[6].row = <<"budget", b>>
      /\ P[7].row = <<"requests", b>>
  BY <1>1 DEF Lock, TryLock
<1>5. P[1].mode = 4 /\ P[3].mode = 4 /\ P[4].mode = 4 /\ P[5].mode = 4
  BY <1>1 DEF TryLock, Update
<1>6. i = 2 \/ i = 6 \/ i = 7
  <2>1. i # 3 /\ i # 4 /\ i # 5
    BY <1>2, <1>3
  <2> QED BY <2>1
<1>7. \A T \in Tables, d \in Accounts : held[t][<<T, d>>] \in 0 .. 4
  BY DEF Rows, Modes
<1>8. \A T \in Tables, d \in Accounts : held[t][<<T, d>>] # 0 => \E j \in 1 .. i - 1 : P[j].row = <<T, d>>
  BY <1>3 DEF Stage, Rows
<1>9. \A j \in Since("claim", i) .. i - 1 : held[t][P[j].row] >= P[j].mode
  BY <1>3 DEF Stage
<1>10. CASE i = 2
  <2>1. held[t][P[1].row] >= P[1].mode
    BY <1>9, <1>10 DEF Since
  <2>2. held[t][<<"jobs", a>>] = Update
    BY <1>4, <1>5, <1>7, <2>1 DEF Tables, Update
  <2>3. \A T \in Tables, d \in Accounts : held[t][<<T, d>>] # 0 => T = "jobs" /\ d = a
    BY <1>4, <1>8, <1>10
  <2>4. Wants(t, "requests", a)
    BY <1>3, <1>4, <1>10 DEF Wants
  <2> QED BY <2>2, <2>3, <2>4 DEF Retiring, Holds
<1>11. CASE i # 2
  <2>1. held[t][P[3].row] >= P[3].mode /\ held[t][P[4].row] >= P[4].mode /\ held[t][P[5].row] >= P[5].mode
    <3>1. Since("claim", i) = 3 /\ 3 \in 3 .. i - 1 /\ 4 \in 3 .. i - 1 /\ 5 \in 3 .. i - 1
      BY <1>6, <1>11 DEF Since
    <3> QED BY <1>9, <3>1
  <2>2. held[t][<<"jobs", b>>] = Update /\ held[t][<<"profiles", b>>] = Update /\ held[t][<<"users", b>>] = Update
    BY <1>4, <1>5, <1>7, <2>1 DEF Tables, Update
  <2>3. \A T \in Tables, d \in Accounts : held[t][<<T, d>>] # 0 => T \in {"jobs", "requests"} \/ d = b
    <3> SUFFICES ASSUME NEW T \in Tables, NEW d \in Accounts, held[t][<<T, d>>] # 0
                 PROVE  T \in {"jobs", "requests"} \/ d = b
      OBVIOUS
    <3>1. PICK j \in 1 .. i - 1 : P[j].row = <<T, d>>
      BY <1>8
    <3>2. j = 1 \/ j = 2 \/ j = 3 \/ j = 4 \/ j = 5 \/ j = 6
      BY <1>6
    <3> QED BY <1>4, <3>1, <3>2
  <2>4. Wants(t, "budget", b) \/ Wants(t, "requests", b)
    BY <1>3, <1>4, <1>6, <1>11 DEF Wants
  <2>5. \A d \in Accounts : held[t][<<"requests", d>>] # 0 => held[t][<<"jobs", d>>] = Update
    BY <1>3 DEF Stage
  <2> QED BY <2>2, <2>3, <2>4, <2>5 DEF Claiming, Holds
<1> QED BY <1>10, <1>11

\* Nobody else can be stuck.
LEMMA Classes ==
  ASSUME IInv, NEW t \in Txns, Stuck(t)
  PROVE  kind[t] \in Kinds /\ (First(t) \/ Second(t) \/ Third(t))
<1>1. PICK k \in Kinds, a \in Accounts, b \in Accounts : \E i \in 1 .. Len(Program(k, a, b)) :
         /\ (k # "claim" => a = b) /\ kind[t] = k
         /\ Program(k, a, b) \in Seq(Statement) /\ Len(Program(k, a, b)) \in 1 .. 8
         /\ Program(k, a, b)[i] \in Statement
         /\ Stage(t, Program(k, a, b), i)
         /\ Head(todo[t]) = Program(k, a, b)[i]
  BY AtStatement DEF Stuck, Waiting
<1> DEFINE P == Program(k, a, b)
<1>2. PICK i \in 1 .. Len(P) : kind[t] = k /\ Len(P) \in 1 .. 8 /\ Stage(t, P, i) /\ Head(todo[t]) = P[i]
  BY <1>1
<1>3. i # 1
  BY <1>2 DEF Stuck, Stage
<1>4. held[t] \in [Rows -> Modes]
  BY DEF IInv
<1>5. i \in 2 .. Len(P)
  BY <1>2, <1>3
<1>6. CASE k \in {"edit", "step", "goal", "roadmap"}
  <2>1. OutwardShape(P, a)
    BY <1>6, OutwardShapes
  <2> HIDE DEF P
  <2>2. Outward(t, a)
    BY <1>2, <1>4, <1>5, <1>6, <2>1, OutwardClass
  <2> QED BY <1>2, <2>2 DEF First
<1>7. CASE k \in {"erase", "deleteGoal", "submit", "finalize", "reconcile", "keyed"}
  <2>1. InwardShape(P, k, a)
    BY <1>7, InwardShapes
  <2> HIDE DEF P
  <2>2. Entering(t, a) \/ (Inside(t, a) /\ (WantsKept(t, a) \/ WantsClaimed(t, a)))
    BY <1>2, <1>4, <1>5, <1>7, <2>1, InwardClass
  <2> QED BY <1>2, <2>2 DEF First, Second, Third
<1>8. CASE k = "claim"
  <2>1. Len(P) = 7
    BY <1>8, ClaimIs
  <2>2. Head(todo[t]).skip = 0
    BY DEF Stuck, Waiting
  <2>3. i \in 2 .. 7 /\ kind[t] = "claim"
    BY <1>2, <1>5, <1>8, <2>1
  <2>4. Stage(t, Program("claim", a, b), i) /\ Head(todo[t]) = Program("claim", a, b)[i]
    BY <1>2, <1>8
  <2>5. Retiring(t, a) \/ Claiming(t, b)
    BY <1>4, <2>2, <2>3, <2>4, ClaimClass
  <2> QED BY <1>2, <2>5 DEF First, Second
<1>9. k # "plan"
  <2> SUFFICES ASSUME k = "plan" PROVE FALSE
    OBVIOUS
  <2>1. Len(P) = 1
    BY PlanIs DEF Plain
  <2> HIDE DEF P
  <2> QED BY <1>2, <1>3, <2>1
<1> QED BY <1>6, <1>7, <1>8, <1>9, RowLocksAssumption DEF AllKinds

-----------------------------------------------------------------------------
(* The results.                                                              *)

\* Workers and keyed writes lock the account against key checks; unkeyed writes make
\* key checks under the profile's lock.  Not both kinds of transactions run.
OneFamily ==
  \/ Kinds \cap {"finalize", "reconcile", "keyed"} = {}
  \/ Kinds \cap {"edit", "step", "goal", "roadmap"} = {}

\* The levels are an order.
LEMMA Ordered ==
  ASSUME IInv, OneFamily, NEW t \in Txns, NEW x \in Blockers(t), Stuck(t), Stuck(x)
  PROVE  ~First(t) /\ (Second(t) => First(x)) /\ (Third(t) => First(x) \/ Second(x))
<1>1. x \in Txns
  BY DEF Blockers
<1>2. kind[x] \in Kinds /\ kind[t] \in Kinds /\ (First(x) \/ Second(x) \/ Third(x))
  BY <1>1, Classes
<1>3. ASSUME NEW c \in Accounts, Outward(t, c) PROVE FALSE
  <2>1. kind[x] \notin {"finalize", "reconcile", "keyed"}
    BY <1>2, <1>3 DEF OneFamily, Outward
  <2> QED BY <1>2, <1>3, <2>1, OutwardIsFirst
<1>4. ~First(t)
  BY <1>2, <1>3, ClaimingIsFirst, KeptIsFirst DEF First
<1>5. Second(t) => First(x)
  BY <1>2, EnteringIsSecond, RetiringIsSecond DEF Second
<1>6. Third(t) => First(x) \/ Second(x)
  <2>1. Third(t) => ~Third(x)
    BY InsideIsThird DEF Third
  <2> QED BY <1>2, <2>1
<1> QED BY <1>4, <1>5, <1>6

\* Along a circle everybody is stuck and none is of the first level; so none is of
\* the second, and none of the third.
LEMMA NoCycle == ASSUME IInv, OneFamily PROVE NoLockCycle
<1> SUFFICES ASSUME NEW D \in (SUBSET Txns) \ {{}},
                    \A t \in D : Waiting(t) /\ Blockers(t) \cap D # {}
             PROVE  FALSE
  BY DEF NoLockCycle
<1>1. ASSUME NEW t \in D, NEW x \in Blockers(t) \cap D PROVE Stuck(x)
  <2>1. Conflicts(Head(todo[t]).mode, held[x][Head(todo[t]).row]) /\ Asks(t)
    BY DEF Blockers
  <2>2. Head(todo[t]).row \in Rows
    <3>1. \E s \in Statement : Head(todo[t]) = s
      BY <2>1, AtStatement
    <3> QED BY <3>1 DEF Statement
  <2>3. held[x][Head(todo[t]).row] # 0
    BY <2>1 DEF Conflicts
  <2> QED BY <2>2, <2>3 DEF Stuck
<1>0. ASSUME NEW t \in D PROVE \E x \in D : x \in Blockers(t)
  <2>1. Blockers(t) \cap D # {}
    OBVIOUS
  <2> QED BY <2>1
<1>2. PICK t0 \in D : TRUE
  <2>1. D # {}
    OBVIOUS
  <2> QED BY <2>1
<1>3. PICK t1 \in D : t1 \in Blockers(t0)
  BY <1>0
<1>4. PICK t2 \in D : t2 \in Blockers(t1)
  BY <1>0
<1>5. PICK t3 \in D : t3 \in Blockers(t2)
  BY <1>0
<1>6. PICK t4 \in D : t4 \in Blockers(t3)
  BY <1>0
<1>7. Stuck(t1) /\ Stuck(t2) /\ Stuck(t3) /\ Stuck(t4)
  BY <1>1, <1>3, <1>4, <1>5, <1>6
<1>8. ~First(t1) /\ ~First(t2) /\ ~First(t3)
  BY <1>4, <1>5, <1>6, <1>7, Ordered
<1>9. ~Second(t1) /\ ~Second(t2)
  BY <1>4, <1>5, <1>7, <1>8, Ordered
<1>10. ~Third(t1)
  BY <1>4, <1>7, <1>8, <1>9, Ordered
<1> QED BY <1>7, <1>8, <1>9, <1>10, Classes

\* Whoever holds just a key check on an account has its profile.
LEMMA KeyCheckUnderProfile ==
  ASSUME IInv, NEW x \in Txns, NEW c \in Accounts, Holds(x, "users", c) = KeyShare
  PROVE  Holds(x, "profiles", c) >= NoKeyUpdate
<1>0. /\ <<"users", c>> \in Rows /\ held[x][<<"users", c>>] = 1
      /\ \A T \in Tables, d \in Accounts : held[x][<<T, d>>] \in 0 .. 4
  BY DEF Holds, KeyShare, Rows, Tables, IInv, Modes
<1>1. PICK k \in Kinds, a \in Accounts, b \in Accounts : InProgram(x, k, a, b)
  BY <1>0 DEF IInv, Nothing
<1> DEFINE P == Program(k, a, b)
<1>2. PICK i \in 1 .. Len(P) + 1 : Stage(x, P, i)
  BY <1>1 DEF InProgram
<1>3. PICK j \in 1 .. i - 1 : P[j].row = <<"users", c>> /\ P[j].mode = 1
  BY <1>0, <1>2 DEF Stage
<1>4. Len(P) \in 1 .. 8 /\ kind[x] = k
  BY <1>1, ProgramIs, RowLocksAssumption DEF InProgram
<1>5. CASE k \in {"edit", "step", "goal", "roadmap"}
  <2>1. OutwardShape(P, a)
    BY <1>5, OutwardShapes
  <2> HIDE DEF P
  <2>2. held[x][P[1].row] >= P[1].mode
    <3>1. 1 \in Since(k, i) .. i - 1
      BY <1>3, <1>5 DEF Since
    <3> QED BY <1>2, <1>4, <3>1 DEF Stage
  <2>3. c = a
    <3>1. j = 1 \/ j \in 2 .. Len(P)
      BY <1>4
    <3> QED BY <1>3, <2>1, <3>1 DEF OutwardShape
  <2> QED BY <1>0, <2>1, <2>2, <2>3 DEF OutwardShape, Holds, Tables, NoKeyUpdate, Update
<1>6. CASE k \in {"erase", "deleteGoal", "submit", "finalize", "reconcile", "keyed"}
  <2>1. InwardShape(P, k, a)
    BY <1>6, InwardShapes
  <2> HIDE DEF P
  <2>2. held[x][P[1].row] >= P[1].mode
    <3>1. 1 \in Since(k, i) .. i - 1
      BY <1>3, <1>6 DEF Since
    <3> QED BY <1>2, <1>4, <3>1 DEF Stage
  <2>3. c = a
    <3>1. j = 1 \/ j = 2 \/ j \in 3 .. Len(P)
      BY <1>4
    <3> QED BY <1>3, <2>1, <3>1 DEF InwardShape, Kept
  <2> QED BY <1>0, <2>1, <2>2, <2>3 DEF InwardShape, NoKeyUpdate, Update
<1>7. CASE k = "claim"
  <2>1. /\ Len(P) = 7 /\ P[1] = TryLock("jobs", a, Update, 2) /\ P[2] = Lock("requests", a, NoKeyUpdate)
        /\ P[3] = TryLock("jobs", b, Update, 5) /\ P[4] = TryLock("profiles", b, Update, 4)
        /\ P[5] = TryLock("users", b, Update, 3) /\ P[6] = Lock("budget", b, NoKeyUpdate)
        /\ P[7] = Lock("requests", b, NoKeyUpdate)
    BY <1>7, ClaimIs
  <2> HIDE DEF P
  <2>2. j = 1 \/ j = 2 \/ j = 3 \/ j = 4 \/ j = 5 \/ j = 6 \/ j = 7
    BY <2>1
  <2>3. P[1].mode = 4 /\ P[2].mode = 3 /\ P[3].mode = 4 /\ P[4].mode = 4 /\ P[5].mode = 4
        /\ P[6].mode = 3 /\ P[7].mode = 3
    BY <2>1 DEF Lock, TryLock, Update, NoKeyUpdate
  <2> QED BY <1>3, <2>2, <2>3
<1>8. CASE k = "plan"
  <2>1. Len(P) = 1 /\ P[1] = Lock("roadmaps", a, Update)
    BY <1>8, PlanIs DEF Plain
  <2> HIDE DEF P
  <2>2. P[1].row = <<"roadmaps", a>> /\ j = 1
    BY <2>1 DEF Lock
  <2> QED BY <1>3, <2>2
<1> QED BY <1>5, <1>6, <1>7, <1>8, RowLocksAssumption DEF AllKinds

\* Only a key check is compatible with erasure's first lock, and it is made under the
\* profile's lock, which erasure has.
LEMMA ErasureCanUpgrade == ASSUME IInv PROVE ErasureUpgrades
<1> SUFFICES ASSUME NEW t \in Txns, kind[t] = "erase", Len(todo[t]) = 1, NEW x \in Blockers(t)
             PROVE  FALSE
  BY DEF ErasureUpgrades
<1>1. PICK k \in Kinds, a \in Accounts, b \in Accounts : \E i \in 1 .. Len(Program(k, a, b)) :
         /\ (k # "claim" => a = b) /\ kind[t] = k
         /\ Program(k, a, b) \in Seq(Statement) /\ Len(Program(k, a, b)) \in 1 .. 8
         /\ Program(k, a, b)[i] \in Statement
         /\ Stage(t, Program(k, a, b), i)
         /\ Head(todo[t]) = Program(k, a, b)[i]
  BY AtStatement DEF Blockers
<1> DEFINE P == Program("erase", a, b)
<1>2. PICK i \in 1 .. Len(P) : P \in Seq(Statement) /\ Stage(t, P, i) /\ Head(todo[t]) = P[i]
  BY <1>1
<1>3. /\ Len(P) = 8 /\ P[1] = Lock("users", a, NoKeyUpdate) /\ P[2] = Lock("profiles", a, Update)
      /\ P[8] = Lock("users", a, Update)
  BY EraseIs DEF Plain
<1> HIDE DEF P
<1>4. i = 8
  <2>1. todo[t] = SubSeq(P, i, Len(P))
    BY <1>2 DEF Stage, From
  <2>2. Len(SubSeq(P, i, Len(P))) = Len(P) - i + 1
    BY <1>2, <1>3, SubSeqProperties
  <2> QED BY <1>2, <1>3, <2>1, <2>2
<1>5. Wants(t, "users", a)
  BY <1>2, <1>3, <1>4 DEF Wants, Lock
<1>6. Holds(t, "users", a) >= NoKeyUpdate /\ Holds(t, "profiles", a) = Update
  <2>1. held[t][P[1].row] >= P[1].mode /\ held[t][P[2].row] >= P[2].mode
    <3>1. 1 \in Since("erase", i) .. i - 1 /\ 2 \in Since("erase", i) .. i - 1
      BY <1>4 DEF Since
    <3> QED BY <1>2, <3>1 DEF Stage
  <2>2. P[1].row = <<"users", a>> /\ P[1].mode = NoKeyUpdate /\ P[2].row = <<"profiles", a>> /\ P[2].mode = Update
    BY <1>3 DEF Lock
  <2>3. held[t][<<"profiles", a>>] \in 0 .. 4 /\ held[t][<<"users", a>>] \in 0 .. 4
    BY DEF IInv, Rows, Tables, Modes
  <2> QED BY <2>1, <2>2, <2>3 DEF Holds, NoKeyUpdate, Update
<1>7. x \in Txns /\ x # t /\ Holds(x, "users", a) # 0
  BY <1>5, InTheWay DEF Tables
<1>8. Holds(x, "users", a) = KeyShare /\ Holds(x, "profiles", a) = 0
  BY <1>6, <1>7, Exclusion DEF Tables, KeyShare
<1>9. Holds(x, "profiles", a) >= NoKeyUpdate
  BY <1>7, <1>8, KeyCheckUnderProfile
<1> QED BY <1>8, <1>9 DEF NoKeyUpdate

\* LocksOrdered, when the unkeyed writes and the background transactions do not meet:
\* no circle of waiting transactions, and erasure can always strengthen its lock.
THEOREM LocksAreOrdered == ASSUME OneFamily PROVE Spec => []LocksOrdered
<1>1. IInv => LocksOrdered
  BY NoCycle, ErasureCanUpgrade DEF LocksOrdered
<1> QED BY <1>1, Invariance, PTL

\* Erasure can strengthen its lock whatever else runs.
THEOREM ErasureAlwaysUpgrades == Spec => []ErasureUpgrades
BY ErasureCanUpgrade, Invariance, PTL
=============================================================================
