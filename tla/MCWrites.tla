------------------------------ MODULE MCWrites ------------------------------
(***************************************************************************)
(* What requests and workers write through one store, component by         *)
(* component: row locks, keyed requests, quotas and the weekly plan.  A    *)
(* behaviour follows one of them; the others keep their initial state.     *)
(***************************************************************************)
EXTENDS RowLocks, KeyedRequests, Quotas, WeeklyPlan, TLC

CONSTANTS t1, t2, t3, a1, a2

VARIABLE focus   \* the component a behaviour is about, and its limits

ProfileFirst == {"edit", "step", "goal", "roadmap", "plan"}
AccountFirst == {"erase", "deleteGoal", "submit", "claim"}
Background   == {"finalize", "reconcile", "keyed"}
\* Every kind of transaction is met by each other kind in one of the two mixes.
Mixes == [edits   |-> ProfileFirst \cup AccountFirst,
          workers |-> AccountFirst \cup Background \cup {"plan"}]

QuotaLimit == [s \in Scopes |-> IF s = "computeMinute" THEN 1 ELSE 2]

locksVars == <<kind, todo, held>>
WritesVars == <<locksVars, keyedVars, quotaVars, planVars, focus>>

WritesInit ==
  /\ focus \in {"edits", "workers", "keyed", "chat", "request", "compute", "plan"}
  /\ Init /\ KeyedInit /\ QuotaInit /\ PlanInit
  \* payloads are interchangeable: a record that exists already is of h1
  /\ (\A e \in effects : e.hash = "h1") /\ (focus = "keyed" \/ effects = {})

\* Handlers are interchangeable: the first request is p1's.
RequestsInOrder == submitted = 0 /\ submitted' = 1 => pc'["p2"] = "idle"

Locks   == /\ focus \in DOMAIN Mixes /\ Next
           /\ \A t \in Txns : kind'[t] \in Mixes[focus] \cup {"none"}
           /\ UNCHANGED <<keyedVars, quotaVars, planVars, focus>>
Keyed   == /\ focus = "keyed" /\ KeyedNext /\ RequestsInOrder
           /\ UNCHANGED <<locksVars, quotaVars, planVars, focus>>
Quota   == /\ focus \in {"chat", "request", "compute"} /\ QuotaNextOf({focus})
           /\ UNCHANGED <<locksVars, keyedVars, planVars, focus>>
Plan    == /\ focus = "plan" /\ PlanNext
           /\ UNCHANGED <<locksVars, keyedVars, quotaVars, focus>>

WritesNext == Locks \/ Keyed \/ Quota \/ Plan
WritesSpec == WritesInit /\ [][WritesNext]_WritesVars

\* Transactions, and accounts, are interchangeable with their like.
WritesSymmetry == Permutations({t1, t2, t3}) \cup Permutations({a1, a2})
=============================================================================
