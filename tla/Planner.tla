------------------------------ MODULE Planner ------------------------------
(***************************************************************************)
(* One recompute's planning: a profile is evaluated against the editorial  *)
(* baseline (modules/analyses/editorial.py), the catalog is adjusted for   *)
(* product roles (product_roles/planning.py), candidates and blockers are  *)
(* generated (planning/candidates.py), the problem is built                *)
(* (workers/recompute_planning.py) and the CP-SAT planner searches first   *)
(* for a covering route and then for the best partial one                  *)
(* (planning/cp_sat_*.py).                                                 *)
(*                                                                         *)
(* A route is a function from actions to the sets of calendar slots given  *)
(* to them.  The solver is external: it may answer UNKNOWN at any time,    *)
(* FEASIBLE with any route, OPTIMAL with a best route, INFEASIBLE only     *)
(* when there is no route.  Times are whole hours, credits are halves and  *)
(* the solver's budget is counted in quarters.                             *)
(***************************************************************************)
EXTENDS Integers, Sequences, FiniteSets, FiniteSetsExt, SequencesExt

CONSTANTS
  Catalogs,    \* activity templates: functions from actions to templates
  Baselines,   \* functions from requirement keys to editorial requirements
  Profiles,    \* what the account reports: capabilities and completeness
  Preferences, \* planning constraints
  Calendars,   \* sequences of slots [at, week]; a slot lasts one hour
  ScoreMax,    \* NORMALIZED_SCORE_MAXIMUM
  SlowBuild    \* the quarters of the budget that building a model may take

None == "none"
Unknown == -1 \* an UnknownKrwCost
NoCap == -1   \* max_out_of_pocket_krw is None
Budget == 4 \* time_limit_seconds, in quarters

VARIABLES
  phase,    \* "analyse", "full", "partial", "persist", "done" or "failed"
  input,    \* [catalog, baseline, profile, prefs, calendar]
  problem,  \* the PlanningProblem, once built
  spent,    \* quarters of the budget used since planning started
  runs,     \* the solver runs: sequence of [phase, status, limit]
  route,    \* the scheduled steps
  result    \* [feasibility, status]

vars == <<phase, input, problem, spent, runs, route, result>>

Sum(S, f(_)) == FoldSet(LAMBDA x, acc : acc + f(x), 0, S)

-----------------------------------------------------------------------------
(* The gap analysis *)

Matches(in, k) ==
  {c \in in.profile.capabilities : c.entity = in.baseline[k].entity}

\* A single record supports the credit and the required experience.
Eligible(in, k) ==
  {c \in Matches(in, k) : in.baseline[k].codes \subseteq c.codes}

Evaluate(in, k) ==
  LET none(st) == [status |-> st, credit |-> 0]
      credit == Max({c.credit : c \in Eligible(in, k)})
  IN CASE Matches(in, k) = {} ->
            none(IF in.profile.entitiesComplete THEN "unmet" ELSE "needsInput")
       [] Matches(in, k) # {} /\ Eligible(in, k) # {} ->
            [status |-> IF credit = 2 THEN "satisfied"
                        ELSE IF credit > 0 THEN "partial" ELSE "unmet",
             credit |-> credit]
       [] OTHER ->
            none(IF in.baseline[k].entity \in in.profile.experienceComplete
                   THEN "unmet" ELSE "needsInput")

Analysis(in) == [k \in DOMAIN in.baseline |-> Evaluate(in, k)]

-----------------------------------------------------------------------------
(* The runtime catalog: product self-study costs nothing, and partly       *)
(* learned activities keep only their remaining hours, at least one.       *)

RemainingHours(base, credit) == (base * (2 - credit) + 1) \div 2

Effort(template, analysis) ==
  LET outcomes == {analysis[k] : k \in template.outcomes}
      credit == Min({o.credit : o \in outcomes})
  IN IF \E o \in outcomes : o.status = "partial"
       THEN Max({1, RemainingHours(template.hours, credit)})
       ELSE template.hours

RuntimeCatalog(in, analysis) ==
  [a \in DOMAIN in.catalog |->
     [in.catalog[a] EXCEPT !.hours = Effort(in.catalog[a], analysis),
                           !.cost = IF in.prefs.productRole THEN 0 ELSE @]]

-----------------------------------------------------------------------------
(* Candidate generation *)

Open(analysis) == {k \in DOMAIN analysis : analysis[k].status \in {"unmet", "partial"}}

SatisfiedFoundation(t, analysis) ==
  /\ t.foundational
  /\ t.outcomes # {}
  /\ \A k \in t.outcomes : analysis[k].status = "satisfied"

Prerequisites(catalog, analysis, a) ==
  {b \in catalog[a].prereqs : ~SatisfiedFoundation(catalog[b], analysis)}

\* The roots and everything they need, in rounds of the prerequisite relation.
Expand(catalog, analysis, roots) ==
  FoldSet(LAMBDA n, acc : acc \union UNION {Prerequisites(catalog, analysis, a) : a \in acc},
          roots, DOMAIN catalog)

Roots(catalog, analysis) ==
  {a \in DOMAIN catalog : catalog[a].outcomes \cap Open(analysis) # {}}

Candidates(catalog, analysis) ==
  [a \in Expand(catalog, analysis, Roots(catalog, analysis)) |->
     [catalog[a] EXCEPT !.prereqs = Prerequisites(catalog, analysis, a)]]

Blockers(catalog, analysis) ==
  {k \in DOMAIN analysis : analysis[k].status = "needsInput"}
    \union {k \in Open(analysis) :
              ~\E a \in Roots(catalog, analysis) : k \in catalog[a].outcomes}

NotSatisfied(in, analysis, necessity) ==
  {k \in DOMAIN analysis :
     in.baseline[k].necessity = necessity /\ analysis[k].status # "satisfied"}

BuildProblem(in, analysis) ==
  LET catalog == RuntimeCatalog(in, analysis)
      cands == Candidates(catalog, analysis)
  IN [candidates |-> cands,
      blockers |-> Blockers(catalog, analysis),
      insufficient |-> DOMAIN in.baseline = {},
      required |-> NotSatisfied(in, analysis, "required"),
      preferred |-> NotSatisfied(in, analysis, "preferred"),
      prefs |-> in.prefs,
      calendar |-> in.calendar,
      available |-> in.prefs.available,
      foundations |->
        {a \in DOMAIN cands : /\ in.prefs.careerSwitch /\ in.prefs.productRole
                              /\ cands[a].foundational
                              /\ cands[a].outcomes \cap Open(analysis) # {}}]

\* PlanningProblem refuses calendars that are empty, unordered, overlapping
\* or longer than the horizon.
ValidCalendar(cal, prefs) ==
  /\ cal # <<>>
  /\ \A i \in 1..Len(cal) - 1 : cal[i].at + 1 <= cal[i + 1].at
  /\ cal[1].at >= 0
  /\ cal[Len(cal)].at + 1 <= prefs.target

-----------------------------------------------------------------------------
(* The constraint model *)

SlotsOf(p) == 1..Len(p.calendar)
Weeks(p) == {p.calendar[s].week : s \in SlotsOf(p)}
Selected(r) == {a \in DOMAIN r : r[a] # {}}
Ends(p, S) == Max({0} \union {p.calendar[s].at + 1 : s \in S})
Covered(p, r) == UNION {p.candidates[a].outcomes : a \in Selected(r)}
KnownCost(c) == IF c.cost = Unknown THEN 0 ELSE c.cost
SpentBy(p, A) == Sum(A, LAMBDA a : KnownCost(p.candidates[a]))

EffortAssigned(p, r) ==
  \A a \in Selected(r) : Cardinality(r[a]) = p.candidates[a].hours

\* candidate_availability bounds some actions to a span of hours.
Available(p, a, s) ==
  a \in DOMAIN p.available =>
    p.available[a].from <= p.calendar[s].at /\ p.calendar[s].at + 1 <= p.available[a].until

WithinSpans(p, r) == \A a \in DOMAIN r : \A s \in r[a] : Available(p, a, s)

OneActionPerSlot(p, r) ==
  \A a, b \in DOMAIN r : a # b => r[a] \cap r[b] = {}

WithinWeeks(p, r) ==
  \A w \in Weeks(p) :
    Cardinality({s \in UNION {r[a] : a \in DOMAIN r} : p.calendar[s].week = w})
      <= p.prefs.weeklyHours

PrerequisitesFirst(p, r) ==
  \A a \in Selected(r) : \A b \in p.candidates[a].prereqs :
    /\ b \in Selected(r)
    /\ \A s \in r[a] : Ends(p, r[b]) <= p.calendar[s].at

WithinCost(p, r) ==
  p.prefs.cap # NoCap =>
    /\ \A a \in Selected(r) : p.candidates[a].cost # Unknown
    /\ SpentBy(p, Selected(r)) <= p.prefs.cap

IsRoute(p, r) ==
  /\ EffortAssigned(p, r) /\ WithinSpans(p, r) /\ OneActionPerSlot(p, r) /\ WithinWeeks(p, r)
  /\ PrerequisitesFirst(p, r) /\ WithinCost(p, r)

Covers(p, r) == p.required \subseteq Covered(p, r)

\* Every route of the model, from which action each slot is given to.
Routes(p) ==
  {r \in {[a \in DOMAIN p.candidates |-> {s \in SlotsOf(p) : use[s] = a}] :
             use \in [SlotsOf(p) -> DOMAIN p.candidates \union {None}]} : IsRoute(p, r)}

-----------------------------------------------------------------------------
(* The objective: points for preferred coverage, for time left and for     *)
(* money left, weighted; in a partial search one more required requirement *)
(* outweighs them all; earlier foundations only break ties.                *)

Weights(prefs) ==
  LET w == IF prefs.lowCost THEN <<35, 20, 45>> ELSE <<55, 30, 15>>
  IN IF prefs.fastest THEN <<w[1] - 10, w[2] + 15, w[3] - 5>> ELSE w

CoveragePoints(p, r) ==
  IF p.preferred = {} THEN 0
  ELSE (Cardinality(p.preferred \cap Covered(p, r)) * ScoreMax)
         \div Cardinality(p.preferred)

TimePoints(p, r) ==
  ((p.prefs.target - Ends(p, UNION {r[a] : a \in DOMAIN r})) * ScoreMax)
    \div p.prefs.target

CostPoints(p, r) ==
  LET bound == SpentBy(p, DOMAIN p.candidates)
      credit == IF \E a \in Selected(r) : p.candidates[a].cost = Unknown THEN 0
                ELSE bound - SpentBy(p, Selected(r))
  IN IF bound = 0 THEN 0 ELSE (credit * ScoreMax) \div bound

FoundationPoints(p, r) ==
  LET n == Len(p.calendar)
      most == n * Sum(p.foundations, LAMBDA a : p.candidates[a].hours)
      early == Sum(p.foundations, LAMBDA a : Sum(r[a], LAMBDA s : n - s + 1))
  IN (early * ScoreMax) \div most

RequiredWeightLow == ScoreMax + 1

RequiredWeight == 100 * ScoreMax + 1

Score(p, r, partial) ==
  LET w == Weights(p.prefs)
      weighted == w[1] * CoveragePoints(p, r) + w[2] * TimePoints(p, r)
                    + w[3] * CostPoints(p, r)
      primary == weighted + (IF partial
                               THEN RequiredWeight * Cardinality(p.required \cap Covered(p, r))
                               ELSE 0)
  IN IF p.foundations = {} THEN primary
     ELSE primary * (ScoreMax + 1) + FoundationPoints(p, r)

Best(p, R, partial) == {r \in R : \A q \in R : Score(p, q, partial) <= Score(p, r, partial)}

-----------------------------------------------------------------------------
(* The schedule hint: a list schedule in foundation order, each action on  *)
(* the first slots that are free after its prerequisites.                  *)

\* The slots, in order, that the week's hours leave to one more action.
HintSlots(p, h, a) ==
  LET used == UNION {h[b] : b \in DOMAIN h}
      earliest == Max({0} \union UNION {h[b] : b \in p.candidates[a].prereqs}) + 1
      inWeek(S, s) == Cardinality({t \in S : p.calendar[t].week = p.calendar[s].week})
  IN FoldLeft(LAMBDA chosen, s :
                IF \/ s < earliest \/ s \in used \/ ~Available(p, a, s)
                   \/ inWeek(used, s) + inWeek(chosen, s) >= p.prefs.weeklyHours
                   \/ Cardinality(chosen) = p.candidates[a].hours
                  THEN chosen ELSE chosen \union {s},
              {}, [s \in SlotsOf(p) |-> s])

Affordable(p, h, a) ==
  p.prefs.cap = NoCap
    \/ /\ p.candidates[a].cost # Unknown
       /\ SpentBy(p, Selected(h) \union {a}) <= p.prefs.cap

\* One round takes the first ready pending action, foundations before others.
HintRound(p, st) ==
  LET ready == {a \in st.pending : p.candidates[a].prereqs \subseteq Selected(st.h)}
      first == ready \cap p.foundations
      a == CHOOSE x \in IF first # {} THEN first ELSE ready : TRUE
      slots == HintSlots(p, st.h, a)
      fits == Affordable(p, st.h, a) /\ Cardinality(slots) = p.candidates[a].hours
  IN IF ready = {} THEN st
     ELSE [pending |-> st.pending \ {a},
           h |-> IF fits THEN [st.h EXCEPT ![a] = slots] ELSE st.h]

Hint(p) ==
  FoldSet(LAMBDA n, st : HintRound(p, st),
          [pending |-> DOMAIN p.candidates, h |-> [a \in DOMAIN p.candidates |-> {}]],
          DOMAIN p.candidates).h

-----------------------------------------------------------------------------
(* Preflight *)

Preflight(p) ==
  \/ p.insufficient
  \/ p.blockers \cap p.required # {}
  \/ ~(p.required \subseteq UNION {p.candidates[a].outcomes : a \in DOMAIN p.candidates})

Capacity(p) ==
  Sum(Weeks(p), LAMBDA w :
        Min({Cardinality({s \in SlotsOf(p) : p.calendar[s].week = w}), p.prefs.weeklyHours}))

\* Sixths of an hour stand for the fractions of up to three shared outcomes.
Share(p, a) ==
  (6 * p.candidates[a].hours) \div Cardinality(p.candidates[a].outcomes \cap p.required)

FullCapacityPossible(p) ==
  Sum(p.required, LAMBDA k :
        Min({6 * (Capacity(p) + 1)}
              \union {Share(p, a) : a \in {b \in DOMAIN p.candidates :
                                             k \in p.candidates[b].outcomes}}))
    <= 6 * Capacity(p)

-----------------------------------------------------------------------------
Init ==
  /\ phase = "analyse"
  /\ input \in {in \in [catalog : Catalogs, baseline : Baselines, profile : Profiles,
                        prefs : Preferences, calendar : Calendars] :
                  /\ ValidCalendar(in.calendar, in.prefs)
                  /\ \A a \in DOMAIN in.catalog :
                       in.catalog[a].outcomes \subseteq DOMAIN in.baseline}
  /\ problem = None
  /\ spent = 0
  /\ runs = <<>>
  /\ route = [a \in {} |-> {}]
  /\ result = [feasibility |-> None, status |-> None]

Conclude(feasibility, status, r) ==
  /\ phase' = "persist"
  /\ route' = r
  /\ result' = [feasibility |-> feasibility, status |-> status]

NoSteps == [a \in {} |-> {}]

\* execute up to the planner's preflight.
Analyse ==
  /\ phase = "analyse"
  /\ LET p == BuildProblem(input, Analysis(input)) IN
       /\ problem' = p
       /\ CASE ~(DOMAIN p.available \subseteq DOMAIN p.candidates) ->
                 /\ phase' = "failed" \* InvalidPlanningProblemError
                 /\ UNCHANGED <<route, result, runs>>
            [] DOMAIN p.available \subseteq DOMAIN p.candidates /\ Preflight(p) ->
                 /\ Conclude("INFEASIBLE", "INFEASIBLE", NoSteps)
                 /\ runs' = <<[phase |-> "FULL", status |-> "INFEASIBLE", limit |-> 0]>>
            [] OTHER ->
                 /\ phase' = "full"
                 /\ UNCHANGED <<route, result, runs>>
  /\ UNCHANGED <<input, spent>>

\* route_feasibility: risky when costs are unknown or the last fifth is used.
Feasibility(p, r) ==
  IF /\ \A a \in Selected(r) : p.candidates[a].cost # Unknown
     /\ Ends(p, UNION {r[a] : a \in DOMAIN r}) * 5 <= p.prefs.target * 4
    THEN "FEASIBLE" ELSE "RISKY"

Steps(r) == [a \in Selected(r) |-> r[a]]

\* What one call of the solver may return for the routes R of a model.
Solved(p, R, partial) ==
  {[status |-> "OPTIMAL", route |-> r] : r \in Best(p, R, partial)}
    \union {[status |-> "FEASIBLE", route |-> r] : r \in R}
    \union {[status |-> "UNKNOWN", route |-> NoSteps]}
    \union (IF R = {} THEN {[status |-> "INFEASIBLE", route |-> NoSteps]} ELSE {})

\* Both searches share the time until one deadline.
FullLimit(t) == Min({3, Max({0, Budget - t})})
PartialLimit(t) == Max({0, Budget - t})

\* A search ends at its limit, or earlier with an answer.
Took(status, limit, d) == d \in 0..limit /\ (status = "UNKNOWN" => d = limit)

FullSearch ==
  /\ phase = "full"
  /\ FullCapacityPossible(problem)
  /\ \E build \in 0..SlowBuild :
     \E s \in Solved(problem, {r \in Routes(problem) : Covers(problem, r)}, FALSE) :
     \E d \in 0..Budget :
       /\ Took(s.status, FullLimit(build), d)
       /\ spent' = build + d
       /\ runs' = Append(runs, [phase |-> "FULL", status |-> s.status,
                                limit |-> FullLimit(build)])
       /\ IF s.status \in {"OPTIMAL", "FEASIBLE"}
            THEN Conclude(Feasibility(problem, s.route), s.status, Steps(s.route))
            ELSE phase' = "partial" /\ UNCHANGED <<route, result>>
  /\ UNCHANGED <<input, problem>>

SkipFull ==
  /\ phase = "full"
  /\ ~FullCapacityPossible(problem)
  /\ phase' = "partial"
  /\ runs' = Append(runs, [phase |-> "FULL", status |-> "INFEASIBLE", limit |-> 0])
  /\ UNCHANGED <<input, problem, spent, route, result>>

Unmet(p, r) == p.required \ Covered(p, r)

PartialOutcome(p, full, s) ==
  IF full = "INFEASIBLE"
    THEN IF Selected(s.route) # {}
           THEN Conclude("PARTIAL", "INFEASIBLE", Steps(s.route))
           ELSE Conclude("INFEASIBLE", "INFEASIBLE", NoSteps)
    ELSE CASE Selected(s.route) = {} -> Conclude(None, "TIMEOUT", NoSteps)
           [] Selected(s.route) # {} /\ Unmet(p, s.route) # {} ->
                Conclude("PARTIAL", "TIMEOUT", Steps(s.route))
           [] OTHER -> Conclude(Feasibility(p, s.route), "FEASIBLE", Steps(s.route))

PartialSearch ==
  /\ phase = "partial"
  /\ \E build \in 0..SlowBuild : \E s \in Solved(problem, Routes(problem), TRUE) :
     \E d \in 0..Budget :
       LET t == spent + build IN
       /\ Took(s.status, PartialLimit(t), d)
       /\ spent' = t + d
       /\ runs' = Append(runs, [phase |-> "PARTIAL", status |-> s.status,
                                limit |-> PartialLimit(t)])
       /\ PartialOutcome(problem, Last(runs).status, s)
  /\ UNCHANGED <<input, problem>>

\* The worker fails a request without a feasibility and persists the others.
Persist ==
  /\ phase = "persist"
  /\ phase' = IF result.feasibility = None THEN "failed" ELSE "done"
  /\ UNCHANGED <<input, problem, spent, runs, route, result>>

Next == Analyse \/ FullSearch \/ SkipFull \/ PartialSearch \/ Persist

Spec == Init /\ [][Next]_vars
-----------------------------------------------------------------------------
(* The list schedule seeded as a hint is a schedule the model accepts:     *)
(* effort, free slots, weekly hours, prerequisites and the cost cap        *)
(* ("Seed search with a valid list schedule").                             *)
HintIsRoute == phase \in {"full", "partial"} => IsRoute(problem, Hint(problem))

(* "Infeasible" is never said of a problem that has a covering route, the  *)
(* capacity test before the search included ("A conservative effort lower  *)
(* bound"), unless input the analysis waits for blocks the plan.           *)
InfeasibleIsTrue ==
  phase = "persist" /\ result.status = "INFEASIBLE"
    => \/ problem.insufficient
       \/ problem.blockers \cap problem.required # {}
       \/ \A r \in Routes(problem) : ~Covers(problem, r)

(* A route labelled feasible or risky covers every open required           *)
(* requirement, a partial one leaves some open and has steps, and a        *)
(* timeout without a label has none.                                       *)
LabelsMatchRoute ==
  phase = "persist" =>
    CASE result.feasibility \in {"FEASIBLE", "RISKY"} -> Unmet(problem, route) = {}
      [] result.feasibility = "PARTIAL" ->
           route # NoSteps /\ Unmet(problem, route) # {}
      [] OTHER -> route = NoSteps

(* In terms of the source catalog: whatever a scheduled activity needs is  *)
(* scheduled to end before it starts, or is a foundation whose every       *)
(* outcome the analysis found satisfied.                                   *)
NeedsMet ==
  phase = "persist" =>
    \A a \in DOMAIN route : \A b \in input.catalog[a].prereqs :
      \/ b \in DOMAIN route /\ \A s \in route[a], t \in route[b] : t < s
      \/ /\ input.catalog[b].outcomes # {}
         /\ \A k \in input.catalog[b].outcomes : Evaluate(input, k).status = "satisfied"

(* A partial search that ends OPTIMAL leaves the fewest required           *)
(* requirements open: no weighing of time, cost or preferred coverage buys *)
(* one back ("One more required requirement outweighs the entire           *)
(* normalized weighted score").                                            *)
PartialCoversMost ==
  phase = "persist" /\ runs # <<>> /\ Last(runs).phase = "PARTIAL"
      /\ Last(runs).status = "OPTIMAL"
    => \A r \in Routes(problem) :
         Cardinality(Unmet(problem, route)) <= Cardinality(Unmet(problem, r))

(* However the full search ends, planning is over by the one deadline, but *)
(* for the time it takes to build the second model ("Full and partial      *)
(* searches share one budget").                                            *)
OneBudget == spent <= Budget + SlowBuild

(* A requirement the plan leaves out as satisfied is supported by one      *)
(* record that has both full credit and the required experience            *)
(* ("Duplicates never add credit or borrow another record's codes").       *)
OnlyProvenSkipped ==
  phase = "persist" =>
    \A k \in DOMAIN input.baseline \ (problem.required \union problem.preferred) :
      \E c \in input.profile.capabilities :
        /\ c.entity = input.baseline[k].entity
        /\ c.credit = 2
        /\ input.baseline[k].codes \subseteq c.codes
=============================================================================
