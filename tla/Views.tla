-------------------------------- MODULE Views --------------------------------
(***************************************************************************)
(* What the account sees: the dashboard, a roadmap, the list of roadmaps,  *)
(* the diff of a proposal, and the personal evidence of a chat             *)
(* (persistence/queries.py, m5_dashboard_queries.py,                       *)
(* m5_dashboard_actions.py, dashboard/next_actions.py, chat/personal.py).  *)
(*                                                                         *)
(* Each view is several statements, and each statement sees what is        *)
(* committed when it runs: the sessions are READ COMMITTED and some views  *)
(* open several.  The writers between them are whole transactions, reduced *)
(* to what a view can tell apart (modules Recompute and Roadmaps have them *)
(* in full).                                                               *)
(***************************************************************************)
EXTENDS Integers, Sequences, FiniteSets, SequencesExt

CONSTANTS Goals, Roads, Steps,     \* goals, roadmaps and the steps of a roadmap
          Position, Requires,      \* a step's place, and its prerequisite steps
          Proposals,               \* the step keys of the proposals a diff may compare with
          GoalOf,                  \* the goal of a roadmap
          MaxWrites                \* bound: transactions that commit during a view

VARIABLES
  db,      \* the committed rows
  writes,  \* transactions so far
  view     \* the view being read: [kind, pc, goal, ...]

viewVars == <<db, writes, view>>

None == "none"
NoAnalysis == [goal |-> None, version |-> 0]
NoRequest == [goal |-> None, version |-> 0, state |-> None]
TodoSteps == [s \in Steps |-> "TODO"]

\* Init: a goal with an active roadmap and a current analysis, after one recompute.
ViewsInit ==
  /\ \E g \in Goals, m \in Roads :
       /\ GoalOf[m] = g
       /\ db = [version |-> 1, goals |-> Goals,
                analysis |-> [goal |-> g, version |-> 1],
                request |-> [goal |-> g, version |-> 1, state |-> "COMPLETED"],
                road |-> [r \in Roads |-> [state |-> IF r = m THEN "ACTIVE" ELSE "PROPOSED",
                                           version |-> 1, steps |-> TodoSteps]],
                expired |-> FALSE]
  /\ writes = 0
  /\ view = [kind |-> None, pc |-> "idle"]

\* A proposed roadmap is one that does not exist yet.
Exists(m) == db.road[m].state \in {"ACTIVE", "ARCHIVED"} /\ GoalOf[m] \in db.goals

-----------------------------------------------------------------------------
(* The transactions that commit meanwhile. *)

\* A profile edit that recomputes for a goal.
EditProfile(g) ==
  /\ g \in db.goals
  /\ db' = [db EXCEPT !.version = @ + 1,
                      !.request = [goal |-> g, version |-> db.version + 1, state |-> "PENDING"]]

FinishRecompute ==
  /\ db.request.state = "PENDING"
  /\ \/ db' = [db EXCEPT !.request.state = "FAILED"]
     \/ /\ db.request.goal \in db.goals
        /\ db' = [db EXCEPT !.request.state = "COMPLETED",
                            !.analysis = IF db.request.version = db.version
                                         THEN [goal |-> db.request.goal, version |-> db.version] ELSE @]

\* A step is started or completed: the roadmap's version moves with it.
MoveStep(m, s) ==
  /\ Exists(m) /\ db.road[m].state = "ACTIVE"
  /\ \/ db.road[m].steps[s] = "TODO" /\ \A p \in Requires[s] : db.road[m].steps[p] = "COMPLETED"
     \/ db.road[m].steps[s] = "IN_PROGRESS"
  /\ db' = [db EXCEPT !.road[m].version = @ + 1,
                      !.road[m].steps[s] = IF @ = "TODO" THEN "IN_PROGRESS" ELSE "COMPLETED"]

\* A proposal is accepted: the goal's roadmap is archived and a new one is active.
Accept(m) ==
  /\ GoalOf[m] \in db.goals /\ db.road[m].state = "PROPOSED"
  /\ db' = [db EXCEPT !.road = [r \in Roads |->
        IF r = m THEN [@[r] EXCEPT !.state = "ACTIVE"]
        ELSE IF GoalOf[r] = GoalOf[m] /\ @[r].state = "ACTIVE"
             THEN [@[r] EXCEPT !.state = "ARCHIVED", !.version = @ + 1] ELSE @[r]]]

\* A goal is erased with its roadmaps and analyses.
EraseGoal(g) ==
  /\ g \in db.goals
  /\ db' = [db EXCEPT !.goals = @ \ {g}, !.version = @ + 1,
                      !.analysis = IF @.goal = g THEN NoAnalysis ELSE @,
                      !.request = IF @.goal = g THEN NoRequest ELSE @]

Write ==
  /\ writes < MaxWrites /\ writes' = writes + 1
  /\ \/ \E g \in Goals : EditProfile(g) \/ EraseGoal(g)
     \/ FinishRecompute
     \/ \E m \in Roads : Accept(m) \/ \E s \in Steps : MoveStep(m, s)
     \/ db' = [db EXCEPT !.expired = TRUE]     \* the roadmap's source expires
  /\ UNCHANGED view

-----------------------------------------------------------------------------
Next_(pc) == [view EXCEPT !.pc = pc]
Missing == [view EXCEPT !.pc = "missing"]
Reads(change) == view' = change /\ UNCHANGED <<db, writes>>

\* Mutant: the steps are read before the row that carries the version.
RoadmapOrderSwapped == <<"steps", "row">>

\* get_roadmap and get_roadmap_diff: the roadmap row first, its steps after.
RoadmapOrder == <<"row", "steps">>

Following(pc) == IF pc = RoadmapOrder[1] THEN RoadmapOrder[2] ELSE "done"

OpenRoadmap(kind) ==
  /\ view.pc = "idle" /\ kind \in {"roadmap", "diff"}
  /\ \E m \in Roads, p \in IF kind = "diff" THEN Proposals ELSE {<<>>} :
       Exists(m) /\ Reads([kind |-> kind, pc |-> RoadmapOrder[1], road |-> m, proposal |-> p,
                           version |-> 0, steps |-> TodoSteps])

ReadRoadmapRow ==
  /\ view.pc = "row"
  /\ Reads(IF Exists(view.road)
           THEN [view EXCEPT !.pc = Following("row"), !.version = db.road[view.road].version]
           ELSE Missing)

ReadRoadmapSteps ==
  /\ view.pc = "steps"
  /\ Reads([view EXCEPT !.pc = Following("steps"),
                        !.steps = IF Exists(view.road) THEN db.road[view.road].steps ELSE @])

\* The step keys a proposal keeps, adds, removes, and puts in another order.
InOrder(keys) == SortSeq(SetToSeq(keys), LAMBDA a, b : Position[a] < Position[b])
PlaceOf(key, seq) == CHOOSE i \in 1..Len(seq) : seq[i] = key

\* The four lists of _diff: a move is a change of place among the kept steps.
DiffSteps(old, new) ==
  LET oldKept == SelectSeq(old, LAMBDA k : Contains(new, k))
      newKept == SelectSeq(new, LAMBDA k : Contains(old, k))
  IN [retained |-> newKept,
      added |-> SelectSeq(new, LAMBDA k : ~Contains(old, k)),
      removed |-> SelectSeq(old, LAMBDA k : ~Contains(new, k)),
      reordered |-> SelectSeq(newKept, LAMBDA k : PlaceOf(k, oldKept) # PlaceOf(k, newKept))]

\* list_roadmaps: the ids in one session, then each roadmap in its own; a roadmap that
\* was erased meanwhile makes the whole list "not found".
OpenList ==
  /\ view.pc = "idle"
  /\ Reads([kind |-> "list", pc |-> "each", left |-> {m \in Roads : Exists(m)}, listed |-> {}])

ListOne ==
  /\ view.pc = "each"
  /\ \/ view.left = {} /\ Reads(Next_("done"))
     \/ \E m \in view.left :
          Reads(IF Exists(m) THEN [view EXCEPT !.left = @ \ {m}, !.listed = @ \cup {<<m, db.road[m].version>>}]
                ELSE Missing)

-----------------------------------------------------------------------------
\* get_dashboard, for a goal named by the client.  EMPTY without one is a single read.
OpenDashboard(kind) ==
  /\ view.pc = "idle"
  /\ \E g \in db.goals :
       Reads([kind |-> kind, pc |-> IF kind = "evidence" THEN "profile" ELSE "goal", goal |-> g,
              profile |-> 0, analysis |-> NoAnalysis, road |-> None, version |-> 0,
              request |-> NoRequest, steps |-> TodoSteps, actions |-> <<>>, warnings |-> {}])

DashboardGoal ==
  /\ view.pc = "goal"
  /\ Reads(IF view.goal \in db.goals THEN Next_("analysis") ELSE Missing)

\* profiles.latest_analysis_id, when it is this goal's and of the current profile.
ShownAnalysis(g) ==
  IF db.analysis.goal = g /\ db.analysis.version = db.version THEN db.analysis ELSE NoAnalysis

DashboardAnalysis ==
  /\ view.pc = "analysis"
  /\ Reads([view EXCEPT !.pc = "roadmap", !.analysis = ShownAnalysis(view.goal)])

ActiveRoads(g) == {m \in Roads : GoalOf[m] = g /\ Exists(m) /\ db.road[m].state = "ACTIVE"}

DashboardRoadmap ==
  /\ view.pc = "roadmap"
  /\ \/ /\ ActiveRoads(view.goal) = {} /\ Reads(Next_("request"))
     \/ \E m \in ActiveRoads(view.goal) :
          Reads([view EXCEPT !.pc = "request", !.road = m, !.version = db.road[m].version])

\* The request of the current profile version whose context names the goal.
DashboardRequest ==
  /\ view.pc = "request"
  /\ Reads([view EXCEPT !.pc = IF view.road = None \/ db.expired THEN "state" ELSE "actions",
                        !.request = IF db.request.goal = view.goal /\ db.request.version = db.version
                                    THEN db.request ELSE NoRequest])

\* _is_eligible_step: the prerequisites are completed (the roadmap is the one read, its
\* source is current).
EligibleStep(s, states) == \A p \in Requires[s] : states[p] = "COMPLETED"

\* select_next_actions: steps in progress first, then those that may start, in order.
NextActions(states) ==
  LET Of(state) == InOrder({s \in Steps : states[s] = state /\ EligibleStep(s, states)})
  IN Of("IN_PROGRESS") \o Of("TODO")

\* load_next_actions: the steps; their dependencies and titles never change.
DashboardActions ==
  /\ view.pc = "actions"
  /\ LET states == IF Exists(view.road) THEN db.road[view.road].steps ELSE TodoSteps
     IN Reads([view EXCEPT !.pc = "state", !.steps = states,
                           !.actions = IF Exists(view.road) THEN NextActions(states) ELSE <<>>])

DashboardDone ==
  /\ view.pc = "state"
  /\ Reads(IF view.kind = "dashboard" THEN Next_("done")
           ELSE [view EXCEPT !.pc = IF view.analysis.goal = None THEN "roads" ELSE "reread",
                             !.warnings = IF view.analysis.goal = None THEN @ \cup {"NO_ANALYSIS"} ELSE @])

-----------------------------------------------------------------------------
(* PersonalRetriever.retrieve: ownership, profile, dashboard, analysis, roadmap. *)

EvidenceProfile ==
  /\ view.pc = "profile"
  /\ Reads(IF view.goal \in db.goals THEN [view EXCEPT !.pc = "goal", !.profile = db.version] ELSE Missing)

\* The analysis is read again by its id; it is gone when its goal is.
EvidenceAnalysis ==
  /\ view.pc = "reread"
  /\ Reads(IF view.analysis.goal # view.goal \/ view.goal \notin db.goals THEN Missing
           ELSE [view EXCEPT !.pc = "roads",
                             !.warnings = IF view.analysis.version # view.profile
                                          THEN @ \cup {"ANALYSIS_PROFILE_OUTDATED"} ELSE @])

\* The active roadmap is looked up again, then read as a roadmap view is.
EvidenceRoadmap ==
  /\ view.pc = "roads"
  /\ \/ /\ ActiveRoads(view.goal) = {}
        /\ Reads([view EXCEPT !.pc = "done", !.road = None, !.version = 0,
                              !.warnings = @ \cup {"NO_ROADMAP"}])
     \/ \E m \in ActiveRoads(view.goal) : Reads([view EXCEPT !.pc = RoadmapOrder[1], !.road = m])
     \/ db.goals # Goals /\ Reads(Missing)     \* list_roadmaps met one that was just erased

ViewsNext ==
  \/ Write
  \/ OpenRoadmap("roadmap") \/ OpenRoadmap("diff") \/ ReadRoadmapRow \/ ReadRoadmapSteps
  \/ OpenList \/ ListOne
  \/ OpenDashboard("dashboard") \/ OpenDashboard("evidence")
  \/ DashboardGoal \/ DashboardAnalysis \/ DashboardRoadmap \/ DashboardRequest \/ DashboardActions
  \/ DashboardDone \/ EvidenceProfile \/ EvidenceAnalysis \/ EvidenceRoadmap

-----------------------------------------------------------------------------
Done(kinds) == view.pc = "done" /\ view.kind \in kinds
HasRoad == view.road # None /\ Exists(view.road)

\* A client that acts on what it saw, naming the version it saw, acts on what is there:
\* the steps of a view are the ones its version names, although they are read later, in
\* other statements (get_roadmap, get_roadmap_diff, retrieve).
VersionNamesWhatWasSeen ==
  Done({"roadmap", "diff", "evidence"}) /\ HasRoad /\ view.version = db.road[view.road].version
    => view.steps = db.road[view.road].steps

\* Unless the roadmap moved on meanwhile, every action the dashboard recommends can be
\* taken: the step is in progress, or nothing it builds on is open (load_next_actions).
ActionsCanBeTaken ==
  Done({"dashboard"}) /\ HasRoad /\ view.version = db.road[view.road].version =>
    \A i \in 1..Len(view.actions) :
      LET now == db.road[view.road].steps
      IN now[view.actions[i]] # "COMPLETED" /\ \A p \in Requires[view.actions[i]] : now[p] = "COMPLETED"

\* A view of a goal holds records of that goal alone, whatever the latest analysis is
\* and whatever is accepted or erased between its statements.
ViewOfOneGoal ==
  Done({"dashboard", "evidence"}) =>
    /\ view.analysis.goal \in {None, view.goal}
    /\ view.road = None \/ GoalOf[view.road] = view.goal
    /\ view.request.goal \in {None, view.goal}

\* What the diff of a proposal tells the user adds up: every old step is kept or
\* removed, every new one kept or added, and no reported move is of a lone step.
DiffAddsUp ==
  Done({"diff"}) =>
    LET old == InOrder(Steps)
        d   == DiffSteps(old, view.proposal)
    IN /\ ToSet(old) = ToSet(d.retained) \cup ToSet(d.removed)
       /\ ToSet(view.proposal) = ToSet(d.retained) \cup ToSet(d.added)
       /\ Len(d.reordered) # 1
       /\ (d.reordered = <<>>) <=> (SelectSeq(old, LAMBDA k : Contains(d.retained, k)) = d.retained)
=============================================================================
