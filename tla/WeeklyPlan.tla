----------------------------- MODULE WeeklyPlan -----------------------------
(***************************************************************************)
(* The saved weekly plan of one roadmap (persistence/weekly_plan.py and    *)
(* api/roadmap_plan.py): browser tabs read, save and reset it while the    *)
(* steps of the roadmap are completed and reopened.                        *)
(*                                                                         *)
(* A save reads the steps, then the stored plan, computes a schedule for   *)
(* every step, and only then opens the transaction that writes it.  The    *)
(* schedule a write gives an open step is told apart by the number of the  *)
(* write (WeeklyPack models how it is computed); 0 is the solver's.  The   *)
(* capacity, order and customized flag of a plan are not told apart.       *)
(***************************************************************************)
EXTENDS Integers

CONSTANTS PlanSteps, Tabs, MaxPlanVersion

ASSUME WeeklyPlanAssumption == MaxPlanVersion \in Nat

VARIABLES
  planRow,     \* the roadmap_plan_overrides row; version 0: no row
  stepDone,    \* the steps in state COMPLETED
  planClosed,  \* the roadmap is ARCHIVED
  tab,         \* tab[b]: where a browser tab is and what it has read
  writes,      \* successful writes so far (history)
  lastReset    \* the write number of the last reset, and the steps done then (history)

planVars == <<planRow, stepDone, planClosed, tab, writes, lastReset>>

Unscheduled == [state |-> "none", by |-> 0]
NoPlan == [version |-> 0, schedules |-> [s \in PlanSteps |-> Unscheduled]]
Closed == [pc |-> "closed", version |-> 0, writes |-> 0, done |-> {}, existing |-> NoPlan]

PlanInit ==
  /\ planRow = NoPlan /\ stepDone = {} /\ planClosed = FALSE
  /\ tab = [b \in Tabs |-> Closed] /\ writes = 0
  /\ lastReset = [at |-> 0, kept |-> {}]

-----------------------------------------------------------------------------
\* get_weekly_plan: the tab now knows the stored version.
GetPlan(b) ==
  /\ tab[b].pc \in {"closed", "open"}
  /\ tab' = [tab EXCEPT ![b].pc = "open", ![b].version = planRow.version, ![b].writes = writes]
  /\ UNCHANGED <<planRow, stepDone, planClosed, writes, lastReset>>

\* put_weekly_plan begins: _load_plan reads the roadmap's steps.
LoadPlan(b) ==
  /\ tab[b].pc = "open"
  /\ tab' = [tab EXCEPT ![b].pc = "loaded", ![b].done = stepDone]
  /\ UNCHANGED <<planRow, stepDone, planClosed, writes, lastReset>>

\* ... store.get, and build_weekly_plan over both reads.
ReadExisting(b) ==
  /\ tab[b].pc = "loaded"
  /\ tab' = [tab EXCEPT ![b].pc = "built", ![b].existing = planRow]
  /\ UNCHANGED <<planRow, stepDone, planClosed, writes, lastReset>>

\* The schedules a save sends: those of completed steps as shown so far, the others
\* newly packed.
Preview(b) ==
  [s \in PlanSteps |->
     IF s \in tab[b].done THEN [state |-> "COMPLETED", by |-> tab[b].existing.schedules[s].by]
     ELSE [state |-> "TODO", by |-> writes + 1]]

\* upsert: under the roadmap's row lock, refused when archived or when a completed
\* step would be stored as open.
ProgressKept(b) == \A s \in stepDone : Preview(b)[s].state = "COMPLETED"

\* Mutant: the version is not compared.
CanWriteAny(b) == ~planClosed /\ planRow.version < MaxPlanVersion

\* _write: optimistic, by the version the tab was shown.
CanWrite(b) == ~planClosed /\ planRow.version = tab[b].version /\ planRow.version < MaxPlanVersion

Written(b, schedules) ==
  /\ planRow' = [version |-> tab[b].version + 1, schedules |-> schedules]
  /\ writes' = writes + 1
  /\ tab' = [tab EXCEPT ![b] = [Closed EXCEPT !.pc = "open", !.version = tab[b].version + 1, !.writes = writes + 1]]

\* A refused write answers 409; the tab has to reload.
Refused(b) == /\ tab' = [tab EXCEPT ![b] = Closed]
              /\ UNCHANGED <<planRow, writes, lastReset>>

SavePlan(b) ==
  /\ tab[b].pc = "built"
  /\ IF CanWrite(b) /\ ProgressKept(b)
       THEN Written(b, Preview(b)) /\ UNCHANGED lastReset
       ELSE Refused(b)
  /\ UNCHANGED <<stepDone, planClosed>>

\* delete: a versioned tombstone that keeps the schedules of completed steps only.
ResetSchedules == [s \in PlanSteps |-> IF s \in stepDone THEN planRow.schedules[s] ELSE Unscheduled]

ResetPlan(b) ==
  /\ tab[b].pc = "open"
  /\ IF CanWrite(b)
       THEN /\ Written(b, ResetSchedules)
            /\ lastReset' = [at |-> writes + 1, kept |-> stepDone]
       ELSE Refused(b)
  /\ UNCHANGED <<stepDone, planClosed>>

-----------------------------------------------------------------------------
\* mutate_step_state and the archiving of the roadmap, as far as a plan sees them.
ToggleStep(s) ==
  /\ ~planClosed
  /\ stepDone' = IF s \in stepDone THEN stepDone \ {s} ELSE stepDone \cup {s}
  /\ UNCHANGED <<planRow, planClosed, tab, writes, lastReset>>

ArchivePlan == /\ ~planClosed /\ planClosed' = TRUE
               /\ UNCHANGED <<planRow, stepDone, tab, writes, lastReset>>

PlanNext ==
  \/ \E b \in Tabs : \/ GetPlan(b) \/ LoadPlan(b) \/ ReadExisting(b) \/ SavePlan(b) \/ ResetPlan(b)
  \/ \E s \in PlanSteps : ToggleStep(s)
  \/ ArchivePlan

PlanSpec == PlanInit /\ [][PlanNext]_planVars

-----------------------------------------------------------------------------
\* The schedule build_weekly_plan shows for a completed step.
Shown(s) == planRow.schedules[s].by

\* Completed history is immutable: while a step stays completed, no save and no
\* reset, of any tab, moves the dates it is shown with.
CompletedHistoryFixed ==
  [][\A s \in stepDone \cap stepDone' : Shown(s)' = Shown(s)]_planVars

\* No lost update: a save or a reset is the step of one tab, and that tab had been shown
\* the result of the very last write, resets included ("a stale tab with version=0"); that
\* another tab is up to date does not help it.
WriterSawLastWrite ==
  [][planRow' # planRow =>
       /\ tab' # tab
       /\ \A b \in Tabs : tab'[b] # tab[b] => tab[b].writes = writes /\ tab[b].pc # "closed"]_planVars

\* A reset forgets: a schedule older than the last reset belongs to a step that was
\* complete then, so a step finished later never inherits an obsolete customization.
ResetForgets ==
  \A s \in PlanSteps :
    planRow.schedules[s].by \in 1 .. lastReset.at - 1 => s \in lastReset.kept

\* Tabs that save and reset one plan lose nothing: nobody overwrites what they
\* have not seen, completed history stays, and a reset forgets the rest (upsert,
\* delete).
NothingLost == []ResetForgets /\ CompletedHistoryFixed /\ WriterSawLastWrite
=============================================================================
