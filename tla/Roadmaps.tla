------------------------------ MODULE Roadmaps ------------------------------
(***************************************************************************)
(* The goals, route proposals, roadmaps and step completions of one        *)
(* account.  Every operation locks the account's profile row, so one       *)
(* action is one transaction; the recompute worker and the automatic       *)
(* roadmap loop interleave with the user between transactions, and a       *)
(* RENAME reads the roadmap's state before its transaction starts.         *)
(*                                                                         *)
(* A step is identified inside its roadmap by its kind: the semantics      *)
(* (action, template revision, outcomes, criteria) the code compares when  *)
(* it carries a completion over to another roadmap.  A proposal has at     *)
(* most one step of a kind.                                                *)
(***************************************************************************)
EXTENDS Naturals, FiniteSets

CONSTANTS Goals, NoGoal, Occupations, NoOcc, Kinds, NoKind,
          MaxProposals, MaxRoadmaps, MaxEvents,   \* rows ever created
          MaxVersion, MaxRoadmapVersion,          \* bounds of the version counters
          GoalStatuses, Explored                  \* statuses and rarer events an instance explores

ASSUME RoadmapsAssumption ==
  /\ NoOcc \notin Occupations /\ NoKind \notin Kinds /\ NoGoal \notin Goals
  /\ MaxProposals \in Nat /\ MaxRoadmaps \in Nat /\ MaxEvents \in Nat
  /\ MaxVersion \in Nat \ {0} /\ MaxRoadmapVersion \in Nat \ {0, 1}
  /\ GoalStatuses \subseteq {"DRAFT", "ACTIVE", "ARCHIVED"}
  /\ Explored \subseteq {"rename", "expire", "revoke"}

VARIABLES
  version,   \* profiles.version
  latest,    \* profiles.latest_analysis_id, named by its proposal; 0 for none
  goal,      \* goal[g]: status, mode and occupation
  prop,      \* prop[p]: a recompute request and the route proposal it produces
  road,      \* road[m]: a roadmap with its steps and their completion lineage
  event,     \* event[e]: a STEP_COMPLETED event, with the step's kind and goal
  cap,       \* cap[e]: lifecycle of the capabilities credited by event e
  rename     \* a RENAME call between reading the state and writing it

vars == <<version, latest, goal, prop, road, event, cap, rename>>

Proposals == 1 .. MaxProposals
Maps      == 1 .. MaxRoadmaps
Events    == 1 .. MaxEvents

StepStates == {"NONE", "TODO", "IN_PROGRESS", "COMPLETED"}
NoGoalRow  == [status |-> "NONE", mode |-> "DISCOVERY", occ |-> NoOcc]
NoSteps    == [k \in Kinds |-> "NONE"]
NoLine     == [k \in Kinds |-> 0]
NoProposal == [state |-> "NONE", goal |-> NoGoal, ver |-> 0, occ |-> NoOcc,
               feasible |-> FALSE, steps |-> {}, auto |-> FALSE]
NoRoadmap  == [state |-> "NONE", goal |-> NoGoal, prop |-> 0, ver |-> 0,
               fresh |-> TRUE, step |-> NoSteps, line |-> NoLine]
NoRename   == [road |-> 0, ver |-> 0, prof |-> 0, state |-> "NONE"]

Used(f)    == {i \in DOMAIN f : f[i].state # "NONE"}
Saved(m)   == road[m].state \in {"DRAFT", "ACTIVE", "ARCHIVED"}
Stored(p)  == prop[p].state = "READY"

\* What a goal aims at: GoalUpdateRequest wants an occupation of a TARGETED goal.
Targets == {[mode |-> "TARGETED", occ |-> o] : o \in Occupations}
             \cup {[mode |-> "DISCOVERY", occ |-> o] : o \in Occupations \cup {NoOcc}}
Target(g) == [mode |-> goal[g].mode, occ |-> goal[g].occ]
GoalAs(status, t) == [status |-> status, mode |-> t.mode, occ |-> t.occ]

-----------------------------------------------------------------------------
(* Goals and the profile.  A stale expected version changes nothing, so each *)
(* action is the call whose expected versions are the current ones.          *)

Bump == version < MaxVersion /\ version' = version + 1

\* Operations that only change what the next recompute reads.
EditProfile ==
  /\ Bump
  /\ UNCHANGED <<latest, goal, prop, road, event, cap, rename>>

\* delete_capability, of one a completion credited.
DeleteCapability(e) ==
  /\ "revoke" \in Explored
  /\ event[e].kind # NoKind
  /\ Bump
  /\ cap' = [cap EXCEPT ![e] = "REVOKED"]
  /\ UNCHANGED <<latest, goal, prop, road, event, rename>>

Archived(m) == [road[m] EXCEPT !.state = "ARCHIVED", !.ver = @ + 1]

\* User operations leave one version for the automatic activation.
InBounds == \A m \in Maps : road[m].ver + 1 < MaxRoadmapVersion

\* Mutant: changing a goal leaves its roadmap active.
MutateGoalKeepsRoadmap(g, status, t) ==
  /\ goal[g].status # "DELETED" /\ InBounds
  /\ status = "ACTIVE" => \A h \in Goals \ {g} : goal[h].status # "ACTIVE"
  /\ Bump
  /\ goal' = [goal EXCEPT ![g] = GoalAs(status, t)]
  /\ UNCHANGED <<latest, prop, road, event, cap, rename>>

\* mutate_goal: one ACTIVE goal at a time; a goal that changes its target or is no
\* longer ACTIVE archives its active roadmap.
MutateGoal(g, status, t) ==
  LET leaves == goal[g].status # "NONE" /\ \/ Target(g) # t
                                           \/ goal[g].status = "ACTIVE" /\ status # "ACTIVE" IN
  /\ goal[g].status # "DELETED" /\ InBounds
  /\ status = "ACTIVE" => \A h \in Goals \ {g} : goal[h].status # "ACTIVE"
  /\ Bump
  /\ goal' = [goal EXCEPT ![g] = GoalAs(status, t)]
  /\ road' = [m \in Maps |->
       IF leaves /\ road[m].goal = g /\ road[m].state = "ACTIVE" THEN Archived(m) ELSE road[m]]
  /\ UNCHANGED <<latest, prop, event, cap, rename>>

\* delete_goal: its requests, proposals and roadmaps go; what completions of its
\* steps credited stays.
DeleteGoal(g) ==
  /\ goal[g].status \notin {"NONE", "DELETED"}
  /\ Bump
  /\ goal' = [goal EXCEPT ![g] = [NoGoalRow EXCEPT !.status = "DELETED"]]
  /\ prop' = [p \in Proposals |-> IF prop[p].state # "NONE" /\ prop[p].goal = g
                                  THEN [NoProposal EXCEPT !.state = "DELETED"] ELSE prop[p]]
  /\ road' = [m \in Maps |-> IF road[m].state # "NONE" /\ road[m].goal = g
                             THEN [NoRoadmap EXCEPT !.state = "DELETED"] ELSE road[m]]
  /\ latest' = IF latest \in Proposals /\ prop[latest].goal = g THEN 0 ELSE latest
  /\ UNCHANGED <<event, cap, rename>>

-----------------------------------------------------------------------------
(* Recompute, seen from here: a request pins the goal's occupation and the   *)
(* profile version; its finalization stores a proposal, maybe much later.    *)

\* A submission, or a carried context: for an ACTIVE goal with an occupation.
Request(p, g) ==
  /\ p = Cardinality(Used(prop)) + 1 /\ p \in Proposals
  /\ goal[g].status = "ACTIVE" /\ goal[g].occ # NoOcc
  /\ prop' = [prop EXCEPT ![p] = [NoProposal EXCEPT !.state = "OPEN", !.goal = g,
                                     !.ver = version, !.occ = goal[g].occ]]
  /\ UNCHANGED <<version, latest, goal, road, event, cap, rename>>

\* finalize_recompute with the proposal the planner found; the same transaction
\* leaves the automatic roadmap as follow-up work.
Finalize(p, steps, feasible) ==
  /\ prop[p].state = "OPEN"
  /\ prop' = [prop EXCEPT ![p].state = "READY", ![p].steps = steps,
                                     ![p].feasible = feasible, ![p].auto = TRUE]
  /\ latest' = IF prop[p].ver = version THEN p ELSE latest
  /\ UNCHANGED <<version, goal, road, event, cap, rename>>

-----------------------------------------------------------------------------
(* Roadmaps.  NewMap and Activated are the two halves of create and activate *)
(* that reconciliation and revision also go through.                         *)

ActiveOf(g) == {m \in Maps : road[m].state = "ACTIVE" /\ road[m].goal = g}
NextMap     == Cardinality(Used(road)) + 1

\* A completion of the goal's active roadmap is inherited by a step of the same
\* kind, with its original event.
Inherits(p, k) ==
  k \in prop[p].steps /\ \E m \in ActiveOf(prop[p].goal) : road[m].step[k] = "COMPLETED"

\* Mutant: an inherited completion does not record the event it comes from.
NewMapWithoutLineage(p) ==
  [state |-> "DRAFT", goal |-> prop[p].goal, prop |-> p, ver |-> 1, fresh |-> TRUE,
   step |-> [k \in Kinds |-> IF k \notin prop[p].steps THEN "NONE"
                             ELSE IF Inherits(p, k) THEN "COMPLETED" ELSE "TODO"],
   line |-> NoLine]

\* create_roadmap: the row, its steps and the inherited completions.
NewMap(p) ==
  [state |-> "DRAFT", goal |-> prop[p].goal, prop |-> p, ver |-> 1, fresh |-> TRUE,
   step |-> [k \in Kinds |-> IF k \notin prop[p].steps THEN "NONE"
                             ELSE IF Inherits(p, k) THEN "COMPLETED" ELSE "TODO"],
   line |-> [k \in Kinds |-> IF Inherits(p, k)
                             THEN road[CHOOSE m \in ActiveOf(prop[p].goal) : TRUE].line[k] ELSE 0]]

MayCreate(p) ==
  /\ Stored(p) /\ prop[p].ver = version /\ prop[p].feasible
  /\ goal[prop[p].goal].status \notin {"NONE", "DELETED"}
  /\ NextMap \in Maps

CreateRoadmap(p) ==
  /\ MayCreate(p)
  /\ road' = [road EXCEPT ![NextMap] = NewMap(p)]
  /\ UNCHANGED <<version, latest, goal, prop, event, cap, rename>>

\* What mutate_roadmap requires before it makes row ACTIVE.
MayActivate(row) ==
  LET g == row.goal IN
  /\ row.fresh
  /\ Stored(row.prop) /\ prop[row.prop].feasible
  /\ goal[g].status = "ACTIVE" /\ goal[g].mode = "TARGETED"
  /\ prop[row.prop].occ = goal[g].occ

\* row, at index m, becomes ACTIVE and every other active roadmap ARCHIVED.
Activated(row, m) ==
  [n \in Maps |-> IF n = m THEN [row EXCEPT !.state = "ACTIVE", !.ver = @ + 1]
                  ELSE IF road[n].state = "ACTIVE" THEN Archived(n) ELSE road[n]]

\* mutate_roadmap called with the current versions.
ActivateRoadmap(m) ==
  /\ Saved(m) /\ InBounds /\ MayActivate(road[m])
  /\ road' = Activated(road[m], m)
  /\ UNCHANGED <<version, latest, goal, prop, event, cap, rename>>

ArchiveRoadmap(m) ==
  /\ Saved(m) /\ InBounds
  /\ road' = [road EXCEPT ![m] = Archived(m)]
  /\ UNCHANGED <<version, latest, goal, prop, event, cap, rename>>

\* Mutant: the handler also takes the state of a roadmap that is gone.
RenameReadAny(m) ==
  /\ "rename" \in Explored
  /\ rename = NoRename /\ road[m].state # "NONE"
  /\ rename' = [road |-> m, ver |-> road[m].ver, prof |-> version, state |-> road[m].state]
  /\ UNCHANGED <<version, latest, goal, prop, road, event, cap>>

\* RENAME: the route handler first reads the state it will write back, for a
\* caller that has seen the current versions ...
RenameRead(m) ==
  /\ "rename" \in Explored
  /\ rename = NoRename /\ Saved(m)
  /\ rename' = [road |-> m, ver |-> road[m].ver, prof |-> version, state |-> road[m].state]
  /\ UNCHANGED <<version, latest, goal, prop, road, event, cap>>

\* Mutant: the rename ignores the roadmap version it was asked for.
RenameUnchecked ==
  LET m == rename.road IN
  /\ rename # NoRename
  /\ rename' = NoRename
  /\ IF Saved(m) /\ (rename.state = "ACTIVE" => MayActivate(road[m]))
     THEN /\ InBounds
          /\ road' = IF rename.state = "ACTIVE" THEN Activated(road[m], m)
                     ELSE [road EXCEPT ![m].state = rename.state, ![m].ver = @ + 1]
     ELSE road' = road
  /\ UNCHANGED <<version, latest, goal, prop, event, cap>>

\* ... then calls mutate_roadmap with it and with the versions the caller knows.
RenameWrite ==
  LET m == rename.road IN
  /\ rename # NoRename
  /\ rename' = NoRename
  /\ IF /\ Saved(m) /\ road[m].ver = rename.ver /\ version = rename.prof
        /\ rename.state = "ACTIVE" => MayActivate(road[m])
     THEN /\ InBounds
          /\ road' = IF rename.state = "ACTIVE" THEN Activated(road[m], m)
                     ELSE [road EXCEPT ![m].state = rename.state, ![m].ver = @ + 1]
     ELSE road' = road
  /\ UNCHANGED <<version, latest, goal, prop, event, cap>>

\* Nothing here writes the validity a roadmap's source was given; it may run out.
ExpireSource(m) ==
  /\ "expire" \in Explored
  /\ Saved(m) /\ road[m].fresh
  /\ road' = [road EXCEPT ![m].fresh = FALSE]
  /\ UNCHANGED <<version, latest, goal, prop, event, cap, rename>>

-----------------------------------------------------------------------------
(* The automatic roadmap.                                                    *)

First(S) == CHOOSE m \in S : \A n \in S : m <= n

\* Mutant: the automatic roadmap does not look for an active one.
EligibleAnyway(p) ==
  LET g == goal[prop[p].goal] IN
  /\ prop[p].ver = version /\ prop[p].feasible
  /\ g.status = "ACTIVE" /\ g.mode = "TARGETED"

\* The proposal is current and actionable and the goal has no active roadmap.
Eligible(p) ==
  LET g == goal[prop[p].goal] IN
  /\ prop[p].ver = version /\ prop[p].feasible
  /\ g.status = "ACTIVE" /\ g.mode = "TARGETED"
  /\ ActiveOf(prop[p].goal) = {}

\* The rows a roadmap of proposal p leads to: a new roadmap, created and activated
\* in a savepoint, or the first draft there is; a conflict rolls back to road.
Automatic(p) ==
  LET E   == {m \in Maps : Saved(m) /\ road[m].prop = p}
      m   == IF E = {} THEN NextMap ELSE First(E)
      row == IF E = {} THEN NewMap(p) ELSE road[m] IN
  IF Eligible(p) /\ row.state = "DRAFT" /\ row.fresh /\ MayActivate(row)
  THEN Activated(row, m) ELSE road

\* Mutant: only eligible work is settled.
ReconcileEligible(p) ==
  /\ Stored(p) /\ prop[p].auto /\ NextMap \in Maps
  /\ road' = Automatic(p)
  /\ prop' = [prop EXCEPT ![p].auto = ~Eligible(p)]
  /\ UNCHANGED <<version, latest, goal, event, cap, rename>>

\* reconcile_automatic_roadmap: settles the follow-up work in one transaction.
Reconcile(p) ==
  /\ Stored(p) /\ prop[p].auto /\ NextMap \in Maps
  /\ road' = Automatic(p)
  /\ prop' = [prop EXCEPT ![p].auto = FALSE]
  /\ UNCHANGED <<version, latest, goal, event, cap, rename>>

-----------------------------------------------------------------------------
(* Steps.                                                                    *)

NextEvent == Cardinality({e \in Events : event[e].kind # NoKind}) + 1

\* Mutant: undoing a completion leaves the credit of the step's lineage.
UndoKeepsCredit(m, k, new) ==
  /\ road[m].state = "ACTIVE" /\ InBounds /\ new \in {"TODO", "IN_PROGRESS"}
  /\ road[m].step[k] \in {"TODO", "IN_PROGRESS", "COMPLETED"} \ {new}
  /\ road[m].step[k] = "COMPLETED" => road[m].line[k] # 0
  /\ Bump
  /\ road' = [road EXCEPT ![m].ver = @ + 1, ![m].step[k] = new]
  /\ UNCHANGED <<latest, goal, prop, event, cap, rename>>

\* mutate_step_state to TODO or IN_PROGRESS: leaving COMPLETED revokes what the
\* completion the step inherits from credited, on whichever roadmap it happened.
SetStep(m, k, new) ==
  LET done == road[m].step[k] = "COMPLETED"
      e    == road[m].line[k] IN
  /\ road[m].state = "ACTIVE" /\ InBounds /\ new \in {"TODO", "IN_PROGRESS"}
  /\ road[m].step[k] \in {"TODO", "IN_PROGRESS", "COMPLETED"} \ {new}
  /\ done => e # 0
  /\ Bump
  /\ road' = [road EXCEPT ![m].ver = @ + 1, ![m].step[k] = new]
  /\ cap' = IF done THEN [cap EXCEPT ![e] = "REVOKED"] ELSE cap
  /\ UNCHANGED <<latest, goal, prop, event, rename>>

\* mutate_step_state to COMPLETED: a new event, the step's lineage, the credit.
CompleteStep(m, k) ==
  /\ road[m].state = "ACTIVE" /\ InBounds /\ NextEvent \in Events
  /\ road[m].step[k] \in {"TODO", "IN_PROGRESS"}
  /\ Bump
  /\ event' = [event EXCEPT ![NextEvent] = [kind |-> k, goal |-> road[m].goal]]
  /\ cap' = [cap EXCEPT ![NextEvent] = "ACTIVE"]
  /\ road' = [road EXCEPT ![m].ver = @ + 1, ![m].step[k] = "COMPLETED", ![m].line[k] = NextEvent]
  /\ UNCHANGED <<latest, goal, prop, rename>>

-----------------------------------------------------------------------------
(* Revisions.                                                                *)

\* load_revision finds nothing that blocks the revision of roadmap m by proposal p.
CanApply(m, p) ==
  /\ road[m].state = "ACTIVE" /\ Stored(p)
  /\ prop[p].goal = road[m].goal /\ p # road[m].prop
  /\ prop[p].ver = version /\ latest = p
  /\ goal[prop[p].goal].status = "ACTIVE" /\ goal[prop[p].goal].mode = "TARGETED"
  /\ goal[prop[p].goal].occ = prop[p].occ
  /\ prop[p].feasible
  /\ \A k \in Kinds : road[m].step[k] = "COMPLETED" =>
       road[m].line[k] # 0 /\ event[road[m].line[k]].kind = k

\* Mutant: completed steps the new proposal does not have are dropped.
RevisedToProposal(m, p) ==
  [NewMap(p) EXCEPT !.step = [k \in Kinds |->
     IF k \in prop[p].steps /\ road[m].step[k] = "IN_PROGRESS" THEN "IN_PROGRESS" ELSE @[k]]]

\* preserve_revision_progress: work in progress is kept where the proposal still
\* has it, completed work always, appended if need be, with its original event.
Revised(m, p) ==
  LET done(k) == road[m].step[k] = "COMPLETED"
      new == NewMap(p) IN
  [new EXCEPT
     !.step = [k \in Kinds |->
        IF done(k) THEN "COMPLETED"
        ELSE IF k \in prop[p].steps /\ road[m].step[k] = "IN_PROGRESS" THEN "IN_PROGRESS"
        ELSE new.step[k]],
     !.line = [k \in Kinds |-> IF done(k) THEN road[m].line[k] ELSE new.line[k]]]

\* apply_roadmap_revision: create, preserve and activate in one transaction.
ApplyRevision(m, p) ==
  /\ CanApply(m, p) /\ MayCreate(p) /\ InBounds
  /\ MayActivate(Revised(m, p))
  /\ road' = Activated(Revised(m, p), NextMap)
  /\ UNCHANGED <<version, latest, goal, prop, event, cap, rename>>

-----------------------------------------------------------------------------
Init ==
  /\ version = 1 /\ latest = 0
  /\ goal = [g \in Goals |-> NoGoalRow]
  /\ prop = [p \in Proposals |-> NoProposal]
  /\ road = [m \in Maps |-> NoRoadmap]
  /\ event = [e \in Events |-> [kind |-> NoKind, goal |-> NoGoal]]
  /\ cap = [e \in Events |-> "NONE"]
  /\ rename = NoRename

Worker ==
  \E p \in Proposals :
    \/ \E steps \in SUBSET Kinds, feasible \in BOOLEAN : Finalize(p, steps, feasible)
    \/ Reconcile(p)

Next ==
  \/ EditProfile \/ \E e \in Events : DeleteCapability(e)
  \/ \E g \in Goals :
       \/ \E status \in GoalStatuses, t \in Targets : MutateGoal(g, status, t)
       \/ DeleteGoal(g)
       \/ \E p \in Proposals : Request(p, g)
  \/ Worker
  \/ \E p \in Proposals : CreateRoadmap(p)
  \/ \E m \in Maps :
       \/ ActivateRoadmap(m) \/ ArchiveRoadmap(m) \/ RenameRead(m) \/ ExpireSource(m)
       \/ \E k \in Kinds : CompleteStep(m, k) \/ \E new \in StepStates : SetStep(m, k, new)
       \/ \E p \in Proposals : ApplyRevision(m, p)
  \/ RenameWrite

Spec == Init /\ [][Next]_vars

\* The automatic roadmap loop lists pending work and reconciles it, over and over.
FairSpec == Spec /\ \A p \in Proposals : WF_vars(Reconcile(p))

-----------------------------------------------------------------------------
(* Properties.                                                               *)

\* Every row has the shape its table gives it.
TypeOK ==
  /\ version \in 1 .. MaxVersion /\ latest \in Proposals \cup {0}
  /\ goal \in [Goals -> [status: {"NONE", "DRAFT", "ACTIVE", "ARCHIVED", "DELETED"},
                         mode: {"TARGETED", "DISCOVERY"}, occ: Occupations \cup {NoOcc}]]
  /\ prop \in [Proposals -> [state: {"NONE", "OPEN", "READY", "DELETED"}, goal: Goals \cup {NoGoal},
                             ver: 0 .. MaxVersion, occ: Occupations \cup {NoOcc},
                             feasible: BOOLEAN, steps: SUBSET Kinds, auto: BOOLEAN]]
  /\ road \in [Maps -> [state: {"NONE", "DRAFT", "ACTIVE", "ARCHIVED", "DELETED"}, goal: Goals \cup {NoGoal},
                        prop: Proposals \cup {0}, ver: 0 .. MaxRoadmapVersion, fresh: BOOLEAN,
                        step: [Kinds -> StepStates], line: [Kinds -> Events \cup {0}]]]
  /\ event \in [Events -> [kind: Kinds \cup {NoKind}, goal: Goals \cup {NoGoal}]]
  /\ cap \in [Events -> {"NONE", "ACTIVE", "REVOKED"}]
  /\ rename \in [road: Maps \cup {0}, ver: 0 .. MaxRoadmapVersion, prof: 0 .. MaxVersion,
                 state: {"NONE", "DRAFT", "ACTIVE", "ARCHIVED"}]

\* "Keep one active roadmap per user": whatever users, revisions and the automatic
\* loop do, at most one roadmap is ACTIVE, and it serves what the user aims at now:
\* its goal is the ACTIVE one, TARGETED, at the occupation the route was planned for.
ActiveRoadmapServesGoal ==
  \A m \in Maps : road[m].state = "ACTIVE" =>
    /\ \A n \in Maps \ {m} : road[n].state # "ACTIVE"
    /\ goal[road[m].goal].status = "ACTIVE" /\ goal[road[m].goal].mode = "TARGETED"
    /\ Stored(road[m].prop) /\ goal[road[m].goal].occ = prop[road[m].prop].occ

\* A completed step knows the event that completed it, on this or on an earlier
\* roadmap of the goal, so undoing it never fails for want of a lineage and a
\* revision can always verify the history it carries over.
CompletionLineage ==
  \A m \in Maps, k \in Kinds : Saved(m) /\ road[m].step[k] = "COMPLETED" =>
    /\ road[m].line[k] \in Events
    /\ event[road[m].line[k]] = [kind |-> k, goal |-> road[m].goal]

\* A credited capability is backed by a completed step that leads to its event,
\* until its goal is deleted: undoing, completing again, inheriting and revising
\* leave no credit nobody can take back.
CreditIsBacked ==
  \A e \in Events : cap[e] = "ACTIVE" =>
    \/ goal[event[e].goal].status = "DELETED"
    \/ \E m \in Maps, k \in Kinds :
         Saved(m) /\ road[m].step[k] = "COMPLETED" /\ road[m].line[k] = e

\* preserve_revision_progress promises to "retain verified history": the roadmap
\* that replaces an active one in a revision has every completed step of it, with
\* the same event.
RevisionKeepsHistory ==
  [][\A m, n \in Maps :
       /\ road[m].state = "ACTIVE" /\ road'[m].state = "ARCHIVED"
       /\ road[n].state = "NONE" /\ road'[n].state = "ACTIVE"
       => \A k \in Kinds : road[m].step[k] = "COMPLETED" =>
            road'[n].step[k] = "COMPLETED" /\ road'[n].line[k] = road[m].line[k]]_vars

\* "A recompute never silently rewrites a saved roadmap": requests, finalizations
\* and the automatic loop leave every active and every archived roadmap alone.
RecomputeKeepsRoadmaps ==
  [][prop' # prop /\ version' = version =>
       \A m \in Maps : road[m].state \in {"ACTIVE", "ARCHIVED"} => road'[m] = road[m]]_vars

\* A RENAME writes back a state it read before its transaction; it must not undo an
\* activation or an archival that came in between.
RenameKeepsState ==
  [][rename.road # 0 /\ rename'.road = 0 => \A m \in Maps : road'[m].state = road[m].state]_vars

\* The follow-up work of a finalization is settled, also when the proposal is stale,
\* infeasible or its goal changed (or the model has no room for another roadmap).
AutoRoadmapSettles ==
  \A p \in Proposals : prop[p].auto ~> (~prop[p].auto \/ NextMap \notin Maps)

\* docs/plan.md: "Create a `DRAFT` first and activate only through an explicit user
\* action": the background transactions, those that write a request, activate nothing.
ActivationIsExplicit ==
  [][prop' # prop => \A m \in Maps : road'[m].state = "ACTIVE" => road[m].state = "ACTIVE"]_vars
=============================================================================
