--------------------------- MODULE RoadmapProofs ---------------------------
(***************************************************************************)
(* The roadmaps of one account, for every number of goals, proposals,      *)
(* roadmaps, kinds of steps and completions.                               *)
(*                                                                         *)
(* Almost every operation moves roadmaps from one state to another, and    *)
(* they are seen through one view of such a step (RoadStep): which rows    *)
(* are new, which move, and that at most one ends up ACTIVE.  Whoever      *)
(* makes a row active has archived the others; the automatic roadmap has   *)
(* none to archive, because no two goals are ACTIVE.  What completions     *)
(* credit is seen through another (Carried).                               *)
(***************************************************************************)
EXTENDS Roadmaps, FiniteSetTheorems, TLAPS

\* The rows of the tables.
GoalRow == [status: {"NONE", "DRAFT", "ACTIVE", "ARCHIVED", "DELETED"},
            mode: {"TARGETED", "DISCOVERY"}, occ: Occupations \cup {NoOcc}]
PropRow == [state: {"NONE", "OPEN", "READY", "DELETED"}, goal: Goals \cup {NoGoal},
            ver: 0 .. MaxVersion, occ: Occupations \cup {NoOcc},
            feasible: BOOLEAN, steps: SUBSET Kinds, auto: BOOLEAN]
RoadRow == [state: {"NONE", "DRAFT", "ACTIVE", "ARCHIVED", "DELETED"}, goal: Goals \cup {NoGoal},
            prop: Proposals \cup {0}, ver: 0 .. MaxRoadmapVersion, fresh: BOOLEAN,
            step: [Kinds -> StepStates], line: [Kinds -> Events \cup {0}]]

\* mutate_goal lets one goal at a time be ACTIVE.
OneGoal == \A g, h \in Goals : goal[g].status = "ACTIVE" /\ goal[h].status = "ACTIVE" => g = h

\* Rows are used in order, and a used row is never free again.
InOrder(used, max) == \E n \in 0 .. max : used = 1 .. n
Happened           == {e \in Events : event[e].kind # NoKind}
Filled ==
  /\ InOrder(Used(prop), MaxProposals)
  /\ InOrder(Used(road), MaxRoadmaps)
  /\ InOrder(Happened, MaxEvents)

\* A roadmap belongs to the goal its proposal was made for.
Linked(row) == /\ row.goal \in Goals /\ row.prop \in Proposals
               /\ Stored(row.prop) /\ prop[row.prop].goal = row.goal

\* The foreign keys hold, and a draft has a version left for its activation.
LinksOK ==
  /\ \A p \in Proposals : prop[p].state \in {"OPEN", "READY"} => prop[p].goal \in Goals
  /\ \A m \in Maps : Saved(m) => Linked(road[m])
  /\ \A m \in Maps : road[m].state = "DRAFT" => road[m].ver < MaxRoadmapVersion

\* A completion has a goal, and nothing is credited before it.
EventsOK ==
  \A e \in Events : IF event[e].kind = NoKind THEN cap[e] = "NONE" ELSE event[e].goal \in Goals

\* A RENAME under way: its roadmap's version is at least the one it read, and with the
\* version the state is the one it read too.
RenameOK ==
  LET m == rename.road IN
  IF m = 0 THEN rename = NoRename
  ELSE /\ m \in Maps /\ road[m].state # "NONE"
       /\ Saved(m) => /\ rename.ver <= road[m].ver
                      /\ rename.ver = road[m].ver => rename.state = road[m].state

IInv == /\ TypeOK /\ OneGoal /\ Filled /\ LinksOK /\ EventsOK /\ RenameOK
        /\ ActiveRoadmapServesGoal /\ CompletionLineage /\ CreditIsBacked

-----------------------------------------------------------------------------
(* Rows and numbers.                                                         *)

\* The type invariant, row by row.
LEMMA Rows ==
  TypeOK <=> /\ version \in 1 .. MaxVersion /\ latest \in Proposals \cup {0}
             /\ goal \in [Goals -> GoalRow] /\ prop \in [Proposals -> PropRow]
             /\ road \in [Maps -> RoadRow]
             /\ event \in [Events -> [kind: Kinds \cup {NoKind}, goal: Goals \cup {NoGoal}]]
             /\ cap \in [Events -> {"NONE", "ACTIVE", "REVOKED"}]
             /\ rename \in [road: Maps \cup {0}, ver: 0 .. MaxRoadmapVersion, prof: 0 .. MaxVersion,
                            state: {"NONE", "DRAFT", "ACTIVE", "ARCHIVED"}]
BY DEF TypeOK, GoalRow, PropRow, RoadRow

\* ... and after a step.
LEMMA RowsNext ==
  TypeOK' <=> /\ version' \in 1 .. MaxVersion /\ latest' \in Proposals \cup {0}
              /\ goal' \in [Goals -> GoalRow] /\ prop' \in [Proposals -> PropRow]
              /\ road' \in [Maps -> RoadRow]
              /\ event' \in [Events -> [kind: Kinds \cup {NoKind}, goal: Goals \cup {NoGoal}]]
              /\ cap' \in [Events -> {"NONE", "ACTIVE", "REVOKED"}]
              /\ rename' \in [road: Maps \cup {0}, ver: 0 .. MaxRoadmapVersion, prof: 0 .. MaxVersion,
                              state: {"NONE", "DRAFT", "ACTIVE", "ARCHIVED"}]
BY DEF TypeOK, GoalRow, PropRow, RoadRow

\* The first of some rows is one of them: no row below it, seen as the set of rows up
\* to it, which is well-founded by inclusion.
LEMMA FirstIsThere ==
  ASSUME NEW S \in SUBSET Nat, S # {}
  PROVE  First(S) \in S
<1> DEFINE T == {0 .. m : m \in S}
<1>1. T # {} /\ T \subseteq FiniteSubsetsOf(Nat)
  <2>1. \A m \in S : 0 .. m \in SUBSET Nat /\ IsFiniteSet(0 .. m)
    BY FS_Interval
  <2> QED BY <2>1 DEF FiniteSubsetsOf
<1>2. IsWellFoundedOn(StrictSubsetOrdering(Nat), FiniteSubsetsOf(Nat))
  BY FS_StrictSubsetOrderingWellFounded
<1>3. PICK x \in T : \A y \in T : ~(<<y, x>> \in StrictSubsetOrdering(Nat))
  BY <1>1, <1>2, WFMin
<1>4. PICK m \in S : x = 0 .. m
  BY <1>3
<1>5. ASSUME NEW n \in S PROVE m <= n
  <2>1. ~(<<0 .. n, 0 .. m>> \in StrictSubsetOrdering(Nat))
    BY <1>3, <1>4
  <2>2. 0 .. n \in SUBSET Nat /\ 0 .. m \in SUBSET Nat
    OBVIOUS
  <2>3. ~(0 .. n \subseteq 0 .. m /\ 0 .. n # 0 .. m)
    BY <2>1, <2>2 DEF StrictSubsetOrdering
  <2>4. SUFFICES ASSUME n < m PROVE FALSE
    OBVIOUS
  <2>5. 0 .. n \subseteq 0 .. m /\ m \in 0 .. m /\ m \notin 0 .. n
    BY <2>4
  <2> QED BY <2>3, <2>5
<1> QED BY <1>5 DEF First

\* The row after those that are used is free, and using it keeps them in order.
LEMMA NextRow ==
  ASSUME NEW max \in Nat, NEW S, InOrder(S, max)
  PROVE  LET next == Cardinality(S) + 1 IN
         /\ next \notin S /\ next \in Nat
         /\ next \in 1 .. max => InOrder(S \cup {next}, max)
<1>1. PICK n \in 0 .. max : S = 1 .. n
  BY DEF InOrder
<1>2. Cardinality(S) = n
  BY <1>1, FS_Interval
<1>3. S \cup {n + 1} = 1 .. (n + 1)
  BY <1>1
<1>4. n + 1 \in 1 .. max => n + 1 \in 0 .. max
  OBVIOUS
<1> QED BY <1>1, <1>2, <1>3, <1>4 DEF InOrder

-----------------------------------------------------------------------------
(* One view of a step of the roadmaps.                                       *)

\* A saved row is moved: a change of state costs a version.
Moved(m) ==
  /\ Saved(m) /\ Saved(m)'
  /\ road'[m].goal = road[m].goal /\ road'[m].prop = road[m].prop
  /\ road[m].ver <= road'[m].ver
  /\ road[m].ver = road'[m].ver => road'[m].state = road[m].state

\* The next row is created, from a stored proposal.
Created(m) == m = NextMap /\ Saved(m)' /\ Linked(road'[m])

\* The row's goal is what the user aims at, and the route was planned for it.
Aimed(row) == /\ goal[row.goal].status = "ACTIVE" /\ goal[row.goal].mode = "TARGETED"
              /\ goal[row.goal].occ = prop[row.prop].occ

\* Rows move, are created, or stay.
Moves ==
  /\ road' \in [Maps -> RoadRow]
  /\ \A m \in Maps : Moved(m) \/ Created(m) \/ road'[m] = road[m]
  /\ \A m \in Maps : road'[m].state = "DRAFT" => road'[m].ver < MaxRoadmapVersion

\* ... and at most one of them is active, for the goal the user has.
RoadStep ==
  /\ Moves
  /\ \A m, n \in Maps : road'[m].state = "ACTIVE" /\ road'[n].state = "ACTIVE" => m = n
  /\ \A m \in Maps : road'[m].state = "ACTIVE" => Aimed(road'[m])

\* The proposals stay, for the roadmaps.
PropsKept ==
  /\ prop' \in [Proposals -> PropRow]
  /\ \A p \in Proposals : /\ prop'[p].state = prop[p].state /\ prop'[p].goal = prop[p].goal
                          /\ prop'[p].occ = prop[p].occ

\* The next roadmap row is free.
LEMMA NextMapFree ==
  ASSUME IInv
  PROVE  /\ NextMap \in Nat /\ (NextMap \in Maps => road[NextMap].state = "NONE")
         /\ NextMap \in Maps => InOrder(Used(road) \cup {NextMap}, MaxRoadmaps)
<1>1. InOrder(Used(road), MaxRoadmaps) /\ DOMAIN road = Maps /\ MaxRoadmaps \in Nat
  BY RoadmapsAssumption DEF IInv, Filled, TypeOK
<1>2. /\ NextMap \in Nat /\ NextMap \notin Used(road)
      /\ NextMap \in 1 .. MaxRoadmaps => InOrder(Used(road) \cup {NextMap}, MaxRoadmaps)
  BY <1>1, NextRow DEF NextMap
<1> QED BY <1>1, <1>2 DEF Used, Maps

\* Rows that move keep their links, a RENAME's reading, and their order.
LEMMA MovesOK ==
  ASSUME IInv, Moves, PropsKept, rename' \in {rename, NoRename}
  PROVE  /\ LinksOK' /\ RenameOK'
         /\ InOrder(Used(prop), MaxProposals)' /\ InOrder(Used(road), MaxRoadmaps)'
         /\ \A m \in Maps : road'[m].state = "ACTIVE" => Linked(road'[m])
<1>0. /\ road \in [Maps -> RoadRow] /\ prop \in [Proposals -> PropRow]
      /\ road' \in [Maps -> RoadRow] /\ prop' \in [Proposals -> PropRow]
  BY Rows DEF IInv, Moves, PropsKept
<1>2. \A m \in Maps : road'[m].state \in {"DRAFT", "ACTIVE", "ARCHIVED"} => Linked(road'[m])
  BY DEF Moves, Moved, Created, IInv, LinksOK, Linked, Saved
<1>3. ASSUME NEW row, Linked(row)
      PROVE  /\ row.goal \in Goals /\ row.prop \in Proposals
             /\ prop'[row.prop].state = "READY" /\ prop'[row.prop].goal = row.goal
             /\ prop'[row.prop].occ = prop[row.prop].occ
  BY <1>3 DEF Linked, Stored, PropsKept
<1>4. LinksOK'
  <2>1. \A p \in Proposals : prop'[p].state \in {"OPEN", "READY"} => prop'[p].goal \in Goals
    BY DEF PropsKept, IInv, LinksOK
  <2>2. \A m \in Maps : Saved(m)' => Linked(road[m])'
    BY <1>2, <1>3 DEF Saved, Linked, Stored
  <2> QED BY <2>1, <2>2 DEF LinksOK, Moves
<1>6. RenameOK'
  <2>1. CASE rename' = NoRename
    BY <2>1 DEF RenameOK, NoRename
  <2>2. CASE rename' = rename /\ rename.road = 0
    BY <2>2 DEF RenameOK, IInv
  <2>3. CASE rename' = rename /\ rename.road # 0
    <3>1. PICK m \in Maps : /\ m = rename.road /\ road[m].state # "NONE"
                            /\ Saved(m) => /\ rename.ver <= road[m].ver
                                           /\ rename.ver = road[m].ver => rename.state = road[m].state
      BY <2>3 DEF RenameOK, IInv
    <3>2. m # NextMap
      BY <3>1, NextMapFree
    <3>3. CASE road'[m] = road[m]
      BY <2>3, <3>1, <3>3 DEF RenameOK, Saved
    <3>4. CASE Moved(m)
      <4>1. rename.ver \in Nat /\ road[m].ver \in Nat /\ road'[m].ver \in Nat
        BY <1>0 DEF IInv, TypeOK, RoadRow
      <4>2. rename.ver <= road'[m].ver /\ (rename.ver = road'[m].ver => rename.ver = road[m].ver)
        BY <3>1, <3>4, <4>1 DEF Moved
      <4> QED BY <2>3, <3>1, <3>4, <4>2 DEF RenameOK, Moved, Saved
    <3> QED BY <3>2, <3>3, <3>4 DEF Moves, Created
  <2> QED BY <2>1, <2>2, <2>3
<1>7. InOrder(Used(prop), MaxProposals)'
  <2>1. Used(prop)' = Used(prop)
    BY <1>0 DEF Used, PropsKept
  <2> QED BY <2>1 DEF IInv, Filled, InOrder
<1>8. InOrder(Used(road), MaxRoadmaps)'
  <2>1. \A m \in Maps : m # NextMap => (road'[m].state = "NONE" <=> road[m].state = "NONE")
    BY DEF Moves, Created, Moved, Saved
  <2>2. CASE NextMap \in Maps /\ road'[NextMap].state # "NONE"
    <3>1. Used(road)' = Used(road) \cup {NextMap}
      BY <1>0, <2>1, <2>2 DEF Used
    <3> QED BY <2>2, <3>1, NextMapFree DEF InOrder
  <2>3. CASE ~(NextMap \in Maps /\ road'[NextMap].state # "NONE")
    <3>1. Used(road)' = Used(road)
      BY <1>0, <2>1, <2>3, NextMapFree DEF Used
    <3> QED BY <3>1 DEF IInv, Filled, InOrder
  <2> QED BY <2>2, <2>3
<1> QED BY <1>2, <1>4, <1>6, <1>7, <1>8

\* Such a step keeps what is said of roadmaps.
LEMMA RoadStepOK ==
  ASSUME IInv, RoadStep, PropsKept, goal' = goal, rename' \in {rename, NoRename}
  PROVE  /\ OneGoal' /\ LinksOK' /\ RenameOK' /\ ActiveRoadmapServesGoal'
         /\ InOrder(Used(prop), MaxProposals)' /\ InOrder(Used(road), MaxRoadmaps)'
<1>1. OneGoal' /\ Moves
  BY DEF IInv, OneGoal, RoadStep
<1>2. ActiveRoadmapServesGoal'
  <2> SUFFICES ASSUME NEW m \in Maps, road'[m].state = "ACTIVE"
               PROVE  /\ \A n \in Maps \ {m} : road'[n].state # "ACTIVE"
                      /\ goal'[road'[m].goal].status = "ACTIVE" /\ goal'[road'[m].goal].mode = "TARGETED"
                      /\ prop'[road'[m].prop].state = "READY"
                      /\ goal'[road'[m].goal].occ = prop'[road'[m].prop].occ
    BY DEF ActiveRoadmapServesGoal, Stored
  <2>1. Linked(road'[m]) /\ Aimed(road'[m])
    BY <1>1, MovesOK DEF RoadStep
  <2>2. \A n \in Maps \ {m} : road'[n].state # "ACTIVE"
    BY DEF RoadStep
  <2> QED BY <2>1, <2>2 DEF Aimed, Linked, Stored, PropsKept
<1> QED BY <1>1, <1>2, MovesOK

-----------------------------------------------------------------------------
(* One view of what completions credit.                                      *)

\* The completions of the roadmaps are taken over, and none is lost but with its goal.
Carried ==
  /\ event' = event
  /\ \A e \in Events : cap'[e] = cap[e] \/ (cap'[e] = "REVOKED" /\ event[e].kind # NoKind)
  /\ \A g \in Goals : goal[g].status = "DELETED" => goal'[g].status = "DELETED"
  /\ \A m \in Maps, k \in Kinds : Saved(m)' /\ road'[m].step[k] = "COMPLETED" =>
       \E n \in Maps : /\ Saved(n) /\ road[n].goal = road'[m].goal
                       /\ road[n].step[k] = "COMPLETED" /\ road'[m].line[k] = road[n].line[k]
  /\ \A m \in Maps : Saved(m) =>
       \/ Saved(m)' /\ road'[m].step = road[m].step /\ road'[m].line = road[m].line
       \/ goal'[road[m].goal].status = "DELETED"

\* Then every completion keeps its lineage and every credit its backing.
LEMMA CarriedOK ==
  ASSUME IInv, Carried
  PROVE  CompletionLineage' /\ CreditIsBacked' /\ EventsOK' /\ InOrder(Happened, MaxEvents)'
<1>1. EventsOK' /\ InOrder(Happened, MaxEvents)'
  BY DEF Carried, IInv, EventsOK, Filled, Happened, InOrder
<1>2. CompletionLineage'
  <2> SUFFICES ASSUME NEW m \in Maps, NEW k \in Kinds, Saved(m)', road'[m].step[k] = "COMPLETED"
               PROVE  /\ road'[m].line[k] \in Events
                      /\ event'[road'[m].line[k]] = [kind |-> k, goal |-> road'[m].goal]
    BY DEF CompletionLineage
  <2>1. PICK n \in Maps : /\ Saved(n) /\ road[n].goal = road'[m].goal
                          /\ road[n].step[k] = "COMPLETED" /\ road'[m].line[k] = road[n].line[k]
    BY DEF Carried
  <2> QED BY <2>1 DEF Carried, IInv, CompletionLineage
<1>3. CreditIsBacked'
  <2> SUFFICES ASSUME NEW e \in Events, cap'[e] = "ACTIVE"
               PROVE  \/ goal'[event[e].goal].status = "DELETED"
                      \/ \E m \in Maps, k \in Kinds :
                           Saved(m)' /\ road'[m].step[k] = "COMPLETED" /\ road'[m].line[k] = e
    BY DEF CreditIsBacked, Carried
  <2>1. cap[e] = "ACTIVE" /\ event[e].goal \in Goals
    BY DEF Carried, IInv, EventsOK
  <2>2. CASE goal[event[e].goal].status = "DELETED"
    BY <2>1, <2>2 DEF Carried
  <2>3. CASE \E m \in Maps, k \in Kinds : Saved(m) /\ road[m].step[k] = "COMPLETED" /\ road[m].line[k] = e
    <3>1. PICK m \in Maps, k \in Kinds : Saved(m) /\ road[m].step[k] = "COMPLETED" /\ road[m].line[k] = e
      BY <2>3
    <3>2. event[e].goal = road[m].goal
      <4>1. event[e] = [kind |-> k, goal |-> road[m].goal]
        BY <3>1 DEF IInv, CompletionLineage
      <4> QED BY <4>1
    <3> QED BY <3>1, <3>2 DEF Carried
  <2> QED BY <2>1, <2>2, <2>3 DEF IInv, CreditIsBacked
<1> QED BY <1>1, <1>2, <1>3

\* Rows that keep their goal and their steps, or are new or gone without any, carry.
LEMMA RowsCarry ==
  ASSUME IInv, UNCHANGED <<event, cap, goal>>,
         \A m \in Maps : \/ /\ Saved(m) <=> Saved(m)'
                            /\ road'[m].goal = road[m].goal
                            /\ road'[m].step = road[m].step /\ road'[m].line = road[m].line
                         \/ /\ ~Saved(m)
                            /\ \A k \in Kinds : road'[m].step[k] = "COMPLETED" =>
                                 \E n \in Maps : /\ Saved(n) /\ road[n].goal = road'[m].goal
                                                 /\ road[n].step[k] = "COMPLETED"
                                                 /\ road'[m].line[k] = road[n].line[k]
  PROVE  Carried
<1>1. ASSUME NEW m \in Maps, NEW k \in Kinds, Saved(m)', road'[m].step[k] = "COMPLETED"
      PROVE  \E n \in Maps : /\ Saved(n) /\ road[n].goal = road'[m].goal
                             /\ road[n].step[k] = "COMPLETED" /\ road'[m].line[k] = road[n].line[k]
  BY <1>1
<1> QED BY <1>1 DEF Carried

-----------------------------------------------------------------------------
(* The rows the operations write.                                            *)

\* The row moves to another state, for a version.
Restated(row, state) == [row EXCEPT !.state = state, !.ver = @ + 1]

\* It stays a row.
LEMMA RestatedOK ==
  ASSUME NEW row \in RoadRow, row.ver < MaxRoadmapVersion, NEW state \in {"DRAFT", "ACTIVE", "ARCHIVED"}
  PROVE  LET new == Restated(row, state) IN
         /\ new \in RoadRow /\ new.state = state /\ new.ver = row.ver + 1 /\ new.goal = row.goal
         /\ new.prop = row.prop /\ new.step = row.step /\ new.line = row.line
<1>1. row.ver + 1 \in 0 .. MaxRoadmapVersion
  BY RoadmapsAssumption DEF RoadRow
<1> QED BY <1>1 DEF Restated, RoadRow

\* No more than one roadmap is active: the one the CHOOSE of create_roadmap finds.
LEMMA OneActive ==
  ASSUME IInv, NEW g, NEW m \in ActiveOf(g)
  PROVE  ActiveOf(g) = {m} /\ (CHOOSE n \in ActiveOf(g) : TRUE) = m
<1>1. ActiveOf(g) = {m}
  BY DEF IInv, ActiveRoadmapServesGoal, ActiveOf
<1> QED BY <1>1

\* What create_roadmap writes: a draft of the proposal, whose completed steps are those
\* of the goal's active roadmap, by the same events.
LEMMA NewMapOK ==
  ASSUME IInv, NEW p \in Proposals, Stored(p)
  PROVE  /\ NewMap(p) \in RoadRow /\ Linked(NewMap(p))
         /\ NewMap(p).state = "DRAFT" /\ NewMap(p).ver = 1 /\ NewMap(p).prop = p /\ NewMap(p).fresh
         /\ \A k \in Kinds : NewMap(p).step[k] = "COMPLETED" =>
              \E n \in ActiveOf(prop[p].goal) :
                road[n].step[k] = "COMPLETED" /\ NewMap(p).line[k] = road[n].line[k]
<1>1. /\ prop[p].goal \in Goals /\ road \in [Maps -> RoadRow] /\ 1 \in 0 .. MaxRoadmapVersion
  BY Rows, RoadmapsAssumption DEF IInv, LinksOK, Stored
<1> DEFINE step == [k \in Kinds |-> IF k \notin prop[p].steps THEN "NONE"
                                    ELSE IF Inherits(p, k) THEN "COMPLETED" ELSE "TODO"]
           line == [k \in Kinds |-> IF Inherits(p, k)
                                    THEN road[CHOOSE m \in ActiveOf(prop[p].goal) : TRUE].line[k] ELSE 0]
<1>2. step \in [Kinds -> StepStates]
  BY DEF StepStates
<1>3. ASSUME NEW k \in Kinds, Inherits(p, k)
      PROVE  \E n \in ActiveOf(prop[p].goal) : /\ road[n].step[k] = "COMPLETED" /\ line[k] = road[n].line[k]
                                              /\ line[k] \in Events \cup {0}
  <2>1. PICK n \in ActiveOf(prop[p].goal) : road[n].step[k] = "COMPLETED"
    BY <1>3 DEF Inherits
  <2>2. line[k] = road[n].line[k]
    BY <1>3, <2>1, OneActive
  <2>3. road[n].line[k] \in Events \cup {0}
    BY <1>1 DEF ActiveOf, RoadRow
  <2> QED BY <2>1, <2>2, <2>3
<1>4. line \in [Kinds -> Events \cup {0}]
  <2>1. \A k \in Kinds : line[k] \in Events \cup {0}
    BY <1>3
  <2> QED BY <2>1
<1>5. \A k \in Kinds : step[k] = "COMPLETED" => Inherits(p, k)
  OBVIOUS
<1>6. NewMap(p) = [state |-> "DRAFT", goal |-> prop[p].goal, prop |-> p, ver |-> 1, fresh |-> TRUE,
                   step |-> step, line |-> line]
  BY DEF NewMap
<1> HIDE DEF step, line
<1>7. NewMap(p) \in RoadRow /\ Linked(NewMap(p))
  BY <1>1, <1>2, <1>4, <1>6 DEF RoadRow, Linked
<1> QED BY <1>3, <1>5, <1>6, <1>7

\* What apply_roadmap_revision writes: a draft of the proposal that has the completed
\* steps of the roadmap it replaces, by the same events.
LEMMA RevisedOK ==
  ASSUME IInv, NEW p \in Proposals, Stored(p), NEW m \in Maps
  PROVE  LET new == Revised(m, p) IN
         /\ new \in RoadRow /\ Linked(new) /\ new.goal = prop[p].goal
         /\ new.state = "DRAFT" /\ new.ver = 1 /\ new.prop = p /\ new.fresh
         /\ \A k \in Kinds : road[m].step[k] = "COMPLETED" =>
              new.step[k] = "COMPLETED" /\ new.line[k] = road[m].line[k]
         /\ \A k \in Kinds : new.step[k] = "COMPLETED" =>
              \E n \in ActiveOf(prop[p].goal) \cup {m} :
                road[n].step[k] = "COMPLETED" /\ new.line[k] = road[n].line[k]
<1> DEFINE base == NewMap(p)
           done(k) == road[m].step[k] = "COMPLETED"
           step == [k \in Kinds |->
                      IF done(k) THEN "COMPLETED"
                      ELSE IF k \in prop[p].steps /\ road[m].step[k] = "IN_PROGRESS" THEN "IN_PROGRESS"
                      ELSE base.step[k]]
           line == [k \in Kinds |-> IF done(k) THEN road[m].line[k] ELSE base.line[k]]
<1>1. /\ base \in RoadRow /\ Linked(base) /\ base.state = "DRAFT" /\ base.ver = 1 /\ base.prop = p
      /\ base.fresh
      /\ \A k \in Kinds : base.step[k] = "COMPLETED" =>
           \E n \in ActiveOf(prop[p].goal) : road[n].step[k] = "COMPLETED" /\ base.line[k] = road[n].line[k]
  BY NewMapOK
<1>2. road[m] \in RoadRow
  BY Rows DEF IInv
<1>3. Revised(m, p) = [base EXCEPT !.step = step, !.line = line]
  BY DEF Revised
<1>4. /\ \A k \in Kinds : done(k) => step[k] = "COMPLETED" /\ line[k] = road[m].line[k]
      /\ \A k \in Kinds : step[k] = "COMPLETED" /\ ~done(k) => base.step[k] = "COMPLETED" /\ line[k] = base.line[k]
  OBVIOUS
<1>5. step \in [Kinds -> StepStates] /\ line \in [Kinds -> Events \cup {0}]
  <2>1. base.step \in [Kinds -> StepStates] /\ base.line \in [Kinds -> Events \cup {0}]
        /\ road[m].line \in [Kinds -> Events \cup {0}]
    BY <1>1, <1>2 DEF RoadRow
  <2> HIDE DEF base
  <2> QED BY <2>1 DEF StepStates
<1> HIDE DEF base, step, line
<1>6. /\ Revised(m, p) \in RoadRow /\ Revised(m, p).goal = base.goal /\ Revised(m, p).prop = base.prop
      /\ Revised(m, p).state = base.state /\ Revised(m, p).ver = base.ver /\ Revised(m, p).fresh = base.fresh
      /\ Revised(m, p).step = step /\ Revised(m, p).line = line
  <2>1. base \in RoadRow
    BY <1>1
  <2> QED BY <2>1, <1>3, <1>5 DEF RoadRow
<1>7. Linked(Revised(m, p)) /\ Revised(m, p).goal = prop[p].goal
  BY <1>1, <1>6 DEF Linked
<1> QED BY <1>1, <1>4, <1>6, <1>7

-----------------------------------------------------------------------------
(* Steps that leave goals and proposals alone.                               *)

\* Leaving the roadmaps alone is such a step.
LEMMA Idle == ASSUME IInv, road' = road PROVE RoadStep
<1>1. road \in [Maps -> RoadRow]
  BY Rows DEF IInv
<1>2. \A m, n \in Maps : road[m].state = "ACTIVE" /\ road[n].state = "ACTIVE" => m = n
  BY DEF IInv, ActiveRoadmapServesGoal
<1>3. \A m \in Maps : road[m].state = "ACTIVE" => Aimed(road[m])
  BY DEF IInv, ActiveRoadmapServesGoal, Aimed
<1> QED BY <1>1, <1>2, <1>3 DEF RoadStep, Moves, IInv, LinksOK

\* ... and so is moving one roadmap, as long as it is not made active.
LEMMA OneRow ==
  ASSUME IInv, NEW m \in Maps, NEW row \in RoadRow, road' = [road EXCEPT ![m] = row], Saved(m),
         row.state \in {"DRAFT", "ACTIVE", "ARCHIVED"}, row.goal = road[m].goal, row.prop = road[m].prop,
         row.state # road[m].state => row.ver = road[m].ver + 1,
         row.ver \in {road[m].ver, road[m].ver + 1},
         row.state = "DRAFT" => row.ver < MaxRoadmapVersion,
         row.state = "ACTIVE" => road[m].state = "ACTIVE"
  PROVE  RoadStep /\ road'[m] = row /\ \A n \in Maps : n # m => road'[n] = road[n]
<1>1. /\ road \in [Maps -> RoadRow] /\ road' \in [Maps -> RoadRow] /\ road'[m] = row
      /\ \A n \in Maps : n # m => road'[n] = road[n]
  BY Rows DEF IInv
<1>2. Moved(m)
  <2>1. road[m].ver \in Nat
    BY <1>1 DEF RoadRow
  <2>2. road[m].ver <= row.ver /\ (road[m].ver = row.ver => row.state = road[m].state)
    BY <2>1
  <2> QED BY <1>1, <2>2 DEF Moved, Saved
<1>3. \A n, k \in Maps : road'[n].state = "ACTIVE" /\ road'[k].state = "ACTIVE" => n = k
  BY <1>1 DEF IInv, ActiveRoadmapServesGoal
<1>4. \A n \in Maps : road'[n].state = "ACTIVE" => Aimed(road'[n])
  BY <1>1 DEF IInv, ActiveRoadmapServesGoal, Aimed
<1> QED BY <1>1, <1>2, <1>3, <1>4 DEF RoadStep, Moves, IInv, LinksOK

\* ... creating a draft,
LEMMA OneDraft ==
  ASSUME IInv, NextMap \in Maps, NEW row \in RoadRow, road' = [road EXCEPT ![NextMap] = row],
         Linked(row), row.state = "DRAFT", row.ver = 1
  PROVE  RoadStep /\ road'[NextMap] = row /\ \A n \in Maps : n # NextMap => road'[n] = road[n]
<1>0. PICK m \in Maps : m = NextMap
  OBVIOUS
<1>1. /\ road \in [Maps -> RoadRow] /\ road' \in [Maps -> RoadRow] /\ road'[m] = row
      /\ \A n \in Maps : n # m => road'[n] = road[n]
  BY <1>0, Rows DEF IInv
<1>2. Created(m) /\ 1 < MaxRoadmapVersion
  BY <1>0, <1>1, RoadmapsAssumption DEF Created, Saved
<1>3. \A n, k \in Maps : road'[n].state = "ACTIVE" /\ road'[k].state = "ACTIVE" => n = k
  BY <1>1 DEF IInv, ActiveRoadmapServesGoal
<1>4. \A n \in Maps : road'[n].state = "ACTIVE" => Aimed(road'[n])
  BY <1>1 DEF IInv, ActiveRoadmapServesGoal, Aimed
<1>5. RoadStep
  BY <1>1, <1>2, <1>3, <1>4 DEF RoadStep, Moves, IInv, LinksOK
<1> QED BY <1>0, <1>1, <1>5

\* ... and making one roadmap active, a saved or a new one.
LEMMA ActivatedOK ==
  ASSUME IInv, NEW m \in Maps, NEW row \in RoadRow, row.ver < MaxRoadmapVersion, Linked(row),
         MayActivate(row), (Saved(m) /\ row = road[m]) \/ m = NextMap,
         \A n \in Maps : road[n].state = "ACTIVE" => road[n].ver < MaxRoadmapVersion,
         road' = Activated(row, m)
  PROVE  /\ RoadStep /\ road'[m] = Restated(row, "ACTIVE")
         /\ \A n \in Maps : n # m => road'[n] = IF road[n].state = "ACTIVE" THEN Restated(road[n], "ARCHIVED")
                                                                           ELSE road[n]
<1> DEFINE new(n) == IF n = m THEN Restated(row, "ACTIVE")
                     ELSE IF road[n].state = "ACTIVE" THEN Restated(road[n], "ARCHIVED") ELSE road[n]
<1>0. road \in [Maps -> RoadRow]
  BY Rows DEF IInv
<1>1. road' = [n \in Maps |-> new(n)]
  BY DEF Activated, Archived, Restated
<1>2. ASSUME NEW n \in Maps
      PROVE  /\ new(n) \in RoadRow /\ (new(n).state = "ACTIVE" => n = m)
             /\ new(n).state = "DRAFT" => new(n).ver < MaxRoadmapVersion
             /\ n # m => /\ new(n).goal = road[n].goal /\ new(n).prop = road[n].prop
                         /\ \/ new(n) = road[n]
                            \/ /\ road[n].state = "ACTIVE" /\ new(n).ver = road[n].ver + 1
                               /\ new(n).state = "ARCHIVED"
  <2>1. CASE n = m
    BY <2>1, RestatedOK
  <2>2. CASE n # m /\ road[n].state = "ACTIVE"
    BY <1>0, <2>2, RestatedOK
  <2>3. CASE n # m /\ road[n].state # "ACTIVE"
    BY <1>0, <2>3 DEF IInv, LinksOK
  <2> QED BY <2>1, <2>2, <2>3
<1>3. /\ new(m).state = "ACTIVE" /\ new(m).goal = row.goal /\ new(m).prop = row.prop
      /\ new(m).ver = row.ver + 1
  BY RestatedOK
<1> HIDE DEF new
<1>4. road' \in [Maps -> RoadRow] /\ \A n \in Maps : road'[n] = new(n)
  BY <1>1, <1>2
<1>5. Aimed(new(m)) /\ Linked(new(m))
  BY <1>3 DEF MayActivate, Aimed, Linked
<1>6. Moved(m) \/ Created(m)
  <2>1. CASE m = NextMap
    BY <1>3, <1>4, <1>5, <2>1 DEF Created, Saved
  <2>2. CASE Saved(m) /\ row = road[m]
    <3>1. row.ver <= new(m).ver /\ row.ver # new(m).ver
      BY <1>3 DEF RoadRow
    <3> QED BY <1>3, <1>4, <2>2, <3>1 DEF Moved, Saved
  <2> QED BY <2>1, <2>2
<1>7. ASSUME NEW n \in Maps, n # m PROVE Moved(n) \/ road'[n] = road[n]
  <2>1. road[n].ver \in Nat
    BY <1>0 DEF RoadRow
  <2>2. CASE road[n].state = "ACTIVE" /\ new(n).ver = road[n].ver + 1 /\ new(n).state = "ARCHIVED"
    <3>1. road[n].ver <= new(n).ver /\ road[n].ver # new(n).ver
      BY <2>1, <2>2
    <3> QED BY <1>2, <1>4, <1>7, <2>2, <3>1 DEF Moved, Saved
  <2> QED BY <1>2, <1>4, <1>7, <2>2
<1>8. RoadStep
  BY <1>2, <1>3, <1>4, <1>5, <1>6, <1>7 DEF RoadStep, Moves
<1> QED BY <1>4, <1>8 DEF new

\* Such a step keeps the invariant, if it also takes the completions over.
LEMMA KeptOK ==
  ASSUME IInv, RoadStep, Carried, PropsKept, goal' = goal, rename' \in {rename, NoRename},
         version' \in 1 .. MaxVersion, latest' = latest,
         cap' \in [Events -> {"NONE", "ACTIVE", "REVOKED"}]
  PROVE  IInv'
<1>1. /\ OneGoal' /\ LinksOK' /\ RenameOK' /\ ActiveRoadmapServesGoal'
      /\ InOrder(Used(prop), MaxProposals)' /\ InOrder(Used(road), MaxRoadmaps)'
  BY RoadStepOK
<1>2. CompletionLineage' /\ CreditIsBacked' /\ EventsOK' /\ InOrder(Happened, MaxEvents)'
  BY CarriedOK
<1>3. NoRename \in [road: Maps \cup {0}, ver: 0 .. MaxRoadmapVersion, prof: 0 .. MaxVersion,
                    state: {"NONE", "DRAFT", "ACTIVE", "ARCHIVED"}]
  BY RoadmapsAssumption DEF NoRename
<1>4. TypeOK'
  BY <1>3, Rows, RowsNext DEF IInv, RoadStep, Moves, PropsKept, Carried
<1> QED BY <1>1, <1>2, <1>4 DEF IInv, Filled

\* Nothing happens to goals, proposals or completions.
Still == UNCHANGED <<latest, goal, prop, event, cap>> /\ rename' \in {rename, NoRename}

\* Then only the roadmaps have to be looked at.
LEMMA StillOK ==
  ASSUME IInv, Still, RoadStep, version' \in 1 .. MaxVersion,
         \A m \in Maps : \/ /\ Saved(m) <=> Saved(m)'
                            /\ road'[m].goal = road[m].goal
                            /\ road'[m].step = road[m].step /\ road'[m].line = road[m].line
                         \/ /\ ~Saved(m)
                            /\ \A k \in Kinds : road'[m].step[k] = "COMPLETED" =>
                                 \E n \in Maps : /\ Saved(n) /\ road[n].goal = road'[m].goal
                                                 /\ road[n].step[k] = "COMPLETED"
                                                 /\ road'[m].line[k] = road[n].line[k]
  PROVE  IInv'
<1>1. Carried
  BY RowsCarry DEF Still
<1>2. PropsKept
  BY Rows DEF Still, PropsKept, IInv
<1>3. cap' \in [Events -> {"NONE", "ACTIVE", "REVOKED"}]
  BY DEF Still, IInv, TypeOK
<1> QED BY <1>1, <1>2, <1>3, KeptOK DEF Still

\* A counter in its bound.
LEMMA Counters ==
  ASSUME IInv
  PROVE  /\ version \in 1 .. MaxVersion /\ (Bump => version' \in 1 .. MaxVersion)
         /\ InBounds => \A m \in Maps : road[m].ver < MaxRoadmapVersion /\ road[m].ver + 1 < MaxRoadmapVersion
<1>1. \A m \in Maps : road[m].ver \in Nat
  BY DEF IInv, TypeOK
<1> QED BY <1>1, RoadmapsAssumption DEF IInv, TypeOK, Bump, InBounds

\* delete_capability, and edits of the profile.
LEMMA ProfileOK ==
  ASSUME IInv, EditProfile \/ \E e \in Events : DeleteCapability(e)
  PROVE  IInv'
<1>1. RoadStep /\ version' \in 1 .. MaxVersion /\ UNCHANGED <<latest, goal, prop, road, event, rename>>
  BY Idle, Counters DEF EditProfile, DeleteCapability
<1>2. PropsKept
  BY <1>1, Rows DEF PropsKept, IInv
<1>3. /\ cap' \in [Events -> {"NONE", "ACTIVE", "REVOKED"}]
      /\ \A e \in Events : cap'[e] = cap[e] \/ (cap'[e] = "REVOKED" /\ event[e].kind # NoKind)
  BY DEF EditProfile, DeleteCapability, IInv, TypeOK
<1>4. Carried
  BY <1>1, <1>3 DEF Carried, Saved
<1> QED BY <1>1, <1>2, <1>3, <1>4, KeptOK

\* create_roadmap.
LEMMA CreateRoadmapOK ==
  ASSUME IInv, NEW p \in Proposals, CreateRoadmap(p)
  PROVE  IInv'
<1>1. /\ Stored(p) /\ NextMap \in Maps /\ road' = [road EXCEPT ![NextMap] = NewMap(p)]
      /\ UNCHANGED <<version, latest, goal, prop, event, cap, rename>>
  BY DEF CreateRoadmap, MayCreate
<1>2. /\ RoadStep /\ road'[NextMap] = NewMap(p)
      /\ \A n \in Maps : n # NextMap => road'[n] = road[n]
  <2>1. PICK row \in RoadRow : row = NewMap(p)
    BY <1>1, NewMapOK
  <2>2. Linked(row) /\ row.state = "DRAFT" /\ row.ver = 1
    BY <1>1, <2>1, NewMapOK
  <2> QED BY <1>1, <2>1, <2>2, OneDraft
<1>3. PICK m \in Maps : m = NextMap
  BY <1>1
<1>4. ~Saved(m) /\ \A n \in Maps : n # m => (Saved(n) <=> Saved(n)') /\ road'[n] = road[n]
  BY <1>2, <1>3, NextMapFree DEF Saved
<1>5. ASSUME NEW k \in Kinds, road'[m].step[k] = "COMPLETED"
      PROVE  \E n \in Maps : /\ Saved(n) /\ road[n].goal = road'[m].goal
                             /\ road[n].step[k] = "COMPLETED" /\ road'[m].line[k] = road[n].line[k]
  <2>1. PICK n \in ActiveOf(prop[p].goal) : road[n].step[k] = "COMPLETED" /\ NewMap(p).line[k] = road[n].line[k]
    BY <1>1, <1>2, <1>3, <1>5, NewMapOK
  <2>2. road'[m].goal = prop[p].goal
    BY <1>2, <1>3 DEF NewMap
  <2> QED BY <1>2, <1>3, <2>1, <2>2 DEF ActiveOf, Saved
<1>6. version' \in 1 .. MaxVersion /\ Still
  BY <1>1, Counters DEF Still
<1> QED BY <1>2, <1>4, <1>5, <1>6, StillOK

\* mutate_roadmap makes roadmap m active, the way a user, a RENAME or the automatic
\* loop asks for it.
LEMMA SavedActivatedOK ==
  ASSUME IInv, NEW m \in Maps, Saved(m), MayActivate(road[m]), road[m].ver < MaxRoadmapVersion,
         \A n \in Maps : road[n].state = "ACTIVE" => road[n].ver < MaxRoadmapVersion,
         road' = Activated(road[m], m)
  PROVE  /\ RoadStep
         /\ \A n \in Maps : /\ Saved(n) <=> Saved(n)'
                            /\ road'[n].goal = road[n].goal
                            /\ road'[n].step = road[n].step /\ road'[n].line = road[n].line
<1>1. road \in [Maps -> RoadRow] /\ Linked(road[m])
  BY Rows DEF IInv, LinksOK
<1>2. /\ RoadStep /\ road'[m] = Restated(road[m], "ACTIVE")
      /\ \A n \in Maps : n # m => road'[n] = IF road[n].state = "ACTIVE" THEN Restated(road[n], "ARCHIVED")
                                                                         ELSE road[n]
  BY <1>1, ActivatedOK
<1>3. ASSUME NEW n \in Maps
      PROVE  \/ road'[n] = road[n]
             \/ /\ road'[n].state \in {"ACTIVE", "ARCHIVED"} /\ road'[n].goal = road[n].goal /\ Saved(n)
                /\ road'[n].step = road[n].step /\ road'[n].line = road[n].line
  BY <1>1, <1>2, RestatedOK DEF Saved
<1> QED BY <1>2, <1>3 DEF Saved

\* mutate_roadmap, and what is left when a RENAME writes back what it read.
LEMMA MutateRoadmapOK ==
  ASSUME IInv, NEW m \in Maps, Saved(m), InBounds, Still, version' = version,
         \/ MayActivate(road[m]) /\ road' = Activated(road[m], m)
         \/ \E state \in {"DRAFT", "ARCHIVED"} : road' = [road EXCEPT ![m] = Restated(road[m], state)]
  PROVE  IInv'
<1>1. /\ version' \in 1 .. MaxVersion /\ road \in [Maps -> RoadRow]
      /\ \A n \in Maps : road[n].ver < MaxRoadmapVersion /\ road[n].ver + 1 < MaxRoadmapVersion
  BY Counters, Rows DEF IInv
<1>2. CASE MayActivate(road[m]) /\ road' = Activated(road[m], m)
  BY <1>1, <1>2, SavedActivatedOK, StillOK
<1>3. ASSUME NEW state \in {"DRAFT", "ARCHIVED"}, road' = [road EXCEPT ![m] = Restated(road[m], state)]
      PROVE  IInv'
  <2> DEFINE row == Restated(road[m], state)
  <2>1. /\ row \in RoadRow /\ row.state = state /\ row.ver = road[m].ver + 1 /\ row.goal = road[m].goal
        /\ row.prop = road[m].prop /\ row.step = road[m].step /\ row.line = road[m].line
    BY <1>1, RestatedOK
  <2>2. road' = [road EXCEPT ![m] = row]
    BY <1>3
  <2> HIDE DEF row
  <2>3. RoadStep /\ road'[m] = row /\ \A n \in Maps : n # m => road'[n] = road[n]
    BY <1>1, <2>1, <2>2, OneRow
  <2>4. \A n \in Maps : /\ Saved(n) <=> Saved(n)'
                        /\ road'[n].goal = road[n].goal
                        /\ road'[n].step = road[n].step /\ road'[n].line = road[n].line
    BY <2>1, <2>3 DEF Saved
  <2> QED BY <1>1, <2>3, <2>4, StillOK
<1> QED BY <1>2, <1>3

\* mutate_roadmap as a user calls it.
LEMMA UserRoadmapOK ==
  ASSUME IInv, NEW m \in Maps, ActivateRoadmap(m) \/ ArchiveRoadmap(m)
  PROVE  IInv'
<1>1. Saved(m) /\ InBounds /\ version' = version /\ Still
  BY DEF ActivateRoadmap, ArchiveRoadmap, Still
<1>2. Archived(m) = Restated(road[m], "ARCHIVED")
  BY DEF Archived, Restated
<1> QED BY <1>1, <1>2, MutateRoadmapOK DEF ActivateRoadmap, ArchiveRoadmap

\* The first half of a RENAME remembers what is there.
LEMMA RenameReadOK ==
  ASSUME IInv, NEW m \in Maps, RenameRead(m)
  PROVE  IInv'
<1> DEFINE new == [road |-> m, ver |-> road[m].ver, prof |-> version, state |-> road[m].state]
<1>1. /\ UNCHANGED <<version, latest, goal, prop, road, event, cap>> /\ rename' = new /\ Saved(m)
      /\ road \in [Maps -> RoadRow] /\ version \in 1 .. MaxVersion
  BY Rows DEF RenameRead, IInv
<1>2. new \in [road: Maps \cup {0}, ver: 0 .. MaxRoadmapVersion, prof: 0 .. MaxVersion,
               state: {"NONE", "DRAFT", "ACTIVE", "ARCHIVED"}]
  BY <1>1 DEF Saved, RoadRow
<1>3. new.road = m /\ new.ver = road[m].ver /\ new.state = road[m].state
  OBVIOUS
<1> HIDE DEF new
<1>4. TypeOK'
  BY <1>1, <1>2, Rows, RowsNext DEF IInv
<1>5. RenameOK'
  <2>1. m \in Maps /\ m # 0 /\ road[m].state # "NONE" /\ road[m].ver <= road[m].ver
    <3>1. road[m].ver \in Nat
      BY <1>1 DEF RoadRow
    <3> QED BY <1>1, <3>1 DEF Saved, Maps
  <2> QED BY <1>1, <1>3, <2>1 DEF RenameOK, Saved
<1>6. OneGoal' /\ Filled' /\ LinksOK' /\ EventsOK'
  BY <1>1 DEF IInv, OneGoal, Filled, InOrder, Used, Happened, LinksOK, Saved, Linked, Stored, EventsOK
<1>7. ActiveRoadmapServesGoal' /\ CompletionLineage' /\ CreditIsBacked'
  BY <1>1 DEF IInv, ActiveRoadmapServesGoal, Stored, CompletionLineage, Saved, CreditIsBacked
<1> QED BY <1>4, <1>5, <1>6, <1>7 DEF IInv

\* The second half writes the state the row has, or nothing.
LEMMA RenameWrites ==
  ASSUME IInv, RenameWrite
  PROVE  /\ rename.road \in Maps /\ Still /\ version' = version
         /\ \/ road' = road
            \/ \E m \in Maps : /\ Saved(m) /\ InBounds
                               /\ \/ /\ road[m].state = "ACTIVE" /\ MayActivate(road[m])
                                     /\ road' = Activated(road[m], m)
                                  \/ /\ road[m].state \in {"DRAFT", "ARCHIVED"}
                                     /\ road' = [road EXCEPT ![m] = Restated(road[m], road[m].state)]
<1>1. /\ rename # NoRename /\ rename' = NoRename /\ UNCHANGED <<version, latest, goal, prop, event, cap>>
  BY DEF RenameWrite
<1>2. PICK m \in Maps : /\ m = rename.road
                        /\ Saved(m) => /\ rename.ver <= road[m].ver
                                       /\ rename.ver = road[m].ver => rename.state = road[m].state
  BY <1>1 DEF IInv, RenameOK
<1>3. \/ road' = road
      \/ /\ Saved(m) /\ road[m].ver = rename.ver /\ InBounds
         /\ rename.state = "ACTIVE" => MayActivate(road[m])
         /\ road' = IF rename.state = "ACTIVE" THEN Activated(road[m], m)
                    ELSE [road EXCEPT ![m].state = rename.state, ![m].ver = @ + 1]
  BY <1>2 DEF RenameWrite
<1>4. CASE /\ Saved(m) /\ road[m].ver = rename.ver /\ InBounds
           /\ rename.state = "ACTIVE" => MayActivate(road[m])
           /\ road' = IF rename.state = "ACTIVE" THEN Activated(road[m], m)
                      ELSE [road EXCEPT ![m].state = rename.state, ![m].ver = @ + 1]
  <2>1. rename.state = road[m].state /\ road[m].state \in {"DRAFT", "ACTIVE", "ARCHIVED"}
    BY <1>2, <1>4 DEF Saved
  <2>2. CASE road[m].state = "ACTIVE"
    BY <1>1, <1>2, <1>4, <2>1, <2>2 DEF Still
  <2>3. CASE road[m].state # "ACTIVE"
    <3>1. road' = [road EXCEPT ![m] = Restated(road[m], road[m].state)]
      <4>1. road' = [road EXCEPT ![m].state = road[m].state, ![m].ver = @ + 1] /\ road \in [Maps -> RoadRow]
        BY <1>4, <2>1, <2>3, Rows DEF IInv
      <4> QED BY <4>1 DEF Restated, RoadRow
    <3> QED BY <1>1, <1>2, <1>4, <2>1, <2>3, <3>1 DEF Still
  <2> QED BY <2>2, <2>3
<1> QED BY <1>1, <1>2, <1>3, <1>4 DEF Still

\* The roadmap keeps its state, so that the invariant is kept.
LEMMA RenameWriteOK ==
  ASSUME IInv, RenameWrite
  PROVE  IInv'
<1>1. CASE road' = road
  BY <1>1, RenameWrites, Idle, StillOK, Counters DEF Saved
<1> QED BY <1>1, RenameWrites, MutateRoadmapOK

\* A source whose validity runs out changes nothing else.
LEMMA ExpireSourceOK ==
  ASSUME IInv, NEW m \in Maps, ExpireSource(m)
  PROVE  IInv'
<1> DEFINE row == [road[m] EXCEPT !.fresh = FALSE]
<1>1. road \in [Maps -> RoadRow] /\ road[m] \in RoadRow /\ Saved(m) /\ Still /\ version' = version
  BY Rows DEF IInv, ExpireSource, Still
<1>2. /\ row \in RoadRow /\ row.state = road[m].state /\ row.ver = road[m].ver /\ row.goal = road[m].goal
      /\ row.prop = road[m].prop /\ row.step = road[m].step /\ row.line = road[m].line
  BY <1>1 DEF RoadRow
<1>3. road' = [road EXCEPT ![m] = row]
  BY <1>1 DEF ExpireSource
<1> HIDE DEF row
<1>4. RoadStep /\ road'[m] = row /\ \A n \in Maps : n # m => road'[n] = road[n]
  BY <1>1, <1>2, <1>3, OneRow DEF Saved, IInv, LinksOK
<1>5. \A n \in Maps : /\ Saved(n) <=> Saved(n)'
                      /\ road'[n].goal = road[n].goal
                      /\ road'[n].step = road[n].step /\ road'[n].line = road[n].line
  BY <1>2, <1>4 DEF Saved
<1> QED BY <1>1, <1>4, <1>5, StillOK, Counters

-----------------------------------------------------------------------------
(* Roadmaps that are created and made active at once.                        *)

\* A new active roadmap archives the one there was.
LEMMA NewActive ==
  ASSUME IInv, NEW m \in Maps, m = NextMap, NEW row \in RoadRow, row.ver = 1, Linked(row), MayActivate(row),
         \A k \in Kinds : row.step[k] = "COMPLETED" =>
           \E n \in Maps : /\ Saved(n) /\ road[n].goal = row.goal
                           /\ road[n].step[k] = "COMPLETED" /\ row.line[k] = road[n].line[k],
         \A n \in Maps : road[n].state = "ACTIVE" => road[n].ver < MaxRoadmapVersion,
         road' = Activated(row, m)
  PROVE  /\ RoadStep
         /\ \A n \in Maps : \/ /\ Saved(n) <=> Saved(n)'
                               /\ road'[n].goal = road[n].goal
                               /\ road'[n].step = road[n].step /\ road'[n].line = road[n].line
                            \/ /\ ~Saved(n)
                               /\ \A k \in Kinds : road'[n].step[k] = "COMPLETED" =>
                                    \E i \in Maps : /\ Saved(i) /\ road[i].goal = road'[n].goal
                                                    /\ road[i].step[k] = "COMPLETED"
                                                    /\ road'[n].line[k] = road[i].line[k]
         /\ road'[m].step = row.step /\ road'[m].line = row.line
<1>1. row.ver < MaxRoadmapVersion /\ road \in [Maps -> RoadRow]
  BY RoadmapsAssumption, Rows DEF IInv
<1>2. /\ RoadStep /\ road'[m] = Restated(row, "ACTIVE")
      /\ \A n \in Maps : n # m => road'[n] = IF road[n].state = "ACTIVE" THEN Restated(road[n], "ARCHIVED")
                                                                         ELSE road[n]
  BY <1>1, ActivatedOK
<1>3. road'[m].step = row.step /\ road'[m].line = row.line /\ road'[m].goal = row.goal
  BY <1>1, <1>2, RestatedOK
<1>4. ~Saved(m)
  BY NextMapFree DEF Saved
<1>5. ASSUME NEW n \in Maps, n # m
      PROVE  /\ Saved(n) <=> Saved(n)'
             /\ road'[n].goal = road[n].goal
             /\ road'[n].step = road[n].step /\ road'[n].line = road[n].line
  <2>1. CASE road[n].state = "ACTIVE"
    BY <1>1, <1>2, <1>5, <2>1, RestatedOK DEF Saved
  <2>2. CASE road[n].state # "ACTIVE"
    BY <1>2, <1>5, <2>2 DEF Saved
  <2> QED BY <2>1, <2>2
<1> QED BY <1>2, <1>3, <1>4, <1>5

\* Whoever is eligible for an automatic roadmap has no active one, for any goal: it
\* would be for the same goal, as only one is ACTIVE.
LEMMA NobodyActive ==
  ASSUME IInv, NEW p \in Proposals, Stored(p), Eligible(p)
  PROVE  \A m \in Maps : road[m].state # "ACTIVE"
<1> SUFFICES ASSUME NEW m \in Maps, road[m].state = "ACTIVE" PROVE FALSE
  OBVIOUS
<1>1. goal[road[m].goal].status = "ACTIVE" /\ road[m].goal \in Goals
  BY DEF IInv, ActiveRoadmapServesGoal, LinksOK, Linked, Saved
<1>2. goal[prop[p].goal].status = "ACTIVE" /\ ActiveOf(prop[p].goal) = {} /\ prop[p].goal \in Goals
  BY DEF Eligible, IInv, LinksOK, Stored
<1>3. road[m].goal = prop[p].goal
  BY <1>1, <1>2 DEF IInv, OneGoal
<1> QED BY <1>2, <1>3 DEF ActiveOf

\* What the automatic roadmap does to the rows: nothing, or with no roadmap active it
\* makes one so, a new one or a draft.
LEMMA AutomaticCases ==
  ASSUME IInv, NEW p \in Proposals, Stored(p), NextMap \in Maps, road' = Automatic(p)
  PROVE  \/ road' = road
         \/ /\ \A n \in Maps : road[n].state # "ACTIVE"
            /\ \E m \in Maps :
                 \/ m = NextMap /\ MayActivate(NewMap(p)) /\ road' = Activated(NewMap(p), m)
                 \/ road[m].state = "DRAFT" /\ MayActivate(road[m]) /\ road' = Activated(road[m], m)
<1> DEFINE E   == {m \in Maps : Saved(m) /\ road[m].prop = p}
           i   == IF E = {} THEN NextMap ELSE First(E)
           row == IF E = {} THEN NewMap(p) ELSE road[i]
<1>1. road' = IF Eligible(p) /\ row.state = "DRAFT" /\ row.fresh /\ MayActivate(row)
              THEN Activated(row, i) ELSE road
  BY DEF Automatic
<1>2. CASE Eligible(p) /\ row.state = "DRAFT" /\ row.fresh /\ MayActivate(row)
  <2>1. \A n \in Maps : road[n].state # "ACTIVE"
    BY <1>2, NobodyActive
  <2>2. CASE E = {}
    BY <1>1, <1>2, <2>1, <2>2
  <2>3. CASE E # {}
    <3>1. E \in SUBSET Nat
      BY DEF Maps
    <3>2. First(E) \in E
      BY <2>3, <3>1, FirstIsThere
    <3>3. i = First(E) /\ row = road[i] /\ i \in Maps
      BY <2>3, <3>2
    <3> HIDE DEF i, row
    <3> QED BY <1>1, <1>2, <2>1, <3>3
  <2> QED BY <2>2, <2>3
<1>3. CASE ~(Eligible(p) /\ row.state = "DRAFT" /\ row.fresh /\ MayActivate(row))
  BY <1>1, <1>3
<1> QED BY <1>2, <1>3

\* reconcile_automatic_roadmap.
LEMMA ReconcileOK ==
  ASSUME IInv, NEW p \in Proposals, Reconcile(p)
  PROVE  IInv'
<1>1. /\ Stored(p) /\ NextMap \in Maps /\ road' = Automatic(p) /\ prop' = [prop EXCEPT ![p].auto = FALSE]
      /\ UNCHANGED <<version, latest, goal, event, cap, rename>>
      /\ road \in [Maps -> RoadRow] /\ prop \in [Proposals -> PropRow]
  BY Rows DEF Reconcile, IInv
<1>2. PropsKept
  <2>1. prop' = [prop EXCEPT ![p].auto = FALSE] /\ prop \in [Proposals -> PropRow]
    BY <1>1
  <2> DEFINE row == [prop[p] EXCEPT !.auto = FALSE]
  <2>2. row \in PropRow /\ row.state = prop[p].state /\ row.goal = prop[p].goal /\ row.occ = prop[p].occ
    BY <2>1 DEF PropRow
  <2>3. prop' = [prop EXCEPT ![p] = row]
    BY <2>1
  <2> HIDE DEF row
  <2> QED BY <2>1, <2>2, <2>3 DEF PropsKept
<1>3. /\ version' \in 1 .. MaxVersion /\ latest' = latest
      /\ cap' \in [Events -> {"NONE", "ACTIVE", "REVOKED"}]
  BY <1>1, Rows, Counters DEF IInv
<1>4. CASE road' = road
  <2>1. RoadStep /\ Carried
    BY <1>1, <1>4, Idle, RowsCarry DEF Saved
  <2> QED BY <1>1, <1>2, <1>3, <2>1, KeptOK
<1>5. ASSUME NEW m \in Maps, \A n \in Maps : road[n].state # "ACTIVE",
             m = NextMap, MayActivate(NewMap(p)), road' = Activated(NewMap(p), m)
      PROVE  IInv'
  <2>1. /\ NewMap(p) \in RoadRow /\ Linked(NewMap(p)) /\ NewMap(p).ver = 1
        /\ \A k \in Kinds : NewMap(p).step[k] # "COMPLETED"
    BY <1>1, <1>5, NewMapOK DEF ActiveOf
  <2>2. /\ RoadStep
        /\ \A n \in Maps : \/ /\ Saved(n) <=> Saved(n)'
                              /\ road'[n].goal = road[n].goal
                              /\ road'[n].step = road[n].step /\ road'[n].line = road[n].line
                           \/ /\ ~Saved(n)
                              /\ \A k \in Kinds : road'[n].step[k] = "COMPLETED" =>
                                   \E i \in Maps : /\ Saved(i) /\ road[i].goal = road'[n].goal
                                                   /\ road[i].step[k] = "COMPLETED"
                                                   /\ road'[n].line[k] = road[i].line[k]
    BY <1>5, <2>1, NewActive
  <2>3. Carried
    BY <1>1, <2>2, RowsCarry
  <2> QED BY <1>1, <1>2, <1>3, <2>2, <2>3, KeptOK
<1>6. ASSUME NEW m \in Maps, \A n \in Maps : road[n].state # "ACTIVE",
             road[m].state = "DRAFT", MayActivate(road[m]), road' = Activated(road[m], m)
      PROVE  IInv'
  <2>1. Saved(m) /\ road[m].ver < MaxRoadmapVersion
    BY <1>6 DEF Saved, IInv, LinksOK
  <2>2. /\ RoadStep
        /\ \A n \in Maps : /\ Saved(n) <=> Saved(n)'
                           /\ road'[n].goal = road[n].goal
                           /\ road'[n].step = road[n].step /\ road'[n].line = road[n].line
    BY <1>6, <2>1, SavedActivatedOK
  <2>3. Carried
    BY <1>1, <2>2, RowsCarry
  <2> QED BY <1>1, <1>2, <1>3, <2>2, <2>3, KeptOK
<1> QED BY <1>1, <1>4, <1>5, <1>6, AutomaticCases

\* apply_roadmap_revision: the new roadmap takes over what the old one has completed.
LEMMA ApplyRevisionOK ==
  ASSUME IInv, NEW m \in Maps, NEW p \in Proposals, ApplyRevision(m, p)
  PROVE  /\ IInv'
         /\ \E n \in Maps : /\ n = NextMap /\ \A k \in Maps : k # n => ~(Saved(k)' /\ ~Saved(k))
                            /\ \A k \in Kinds : road[m].step[k] = "COMPLETED" =>
                                 road'[n].step[k] = "COMPLETED" /\ road'[n].line[k] = road[m].line[k]
<1>1. /\ Stored(p) /\ road[m].state = "ACTIVE" /\ prop[p].goal = road[m].goal
      /\ NextMap \in Maps /\ InBounds /\ MayActivate(Revised(m, p)) /\ road' = Activated(Revised(m, p), NextMap)
      /\ Still /\ version' = version
  BY DEF ApplyRevision, CanApply, MayCreate, Still
<1>2. PICK new \in RoadRow :
         /\ new = Revised(m, p)
         /\ Linked(new) /\ new.goal = prop[p].goal /\ new.ver = 1
         /\ \A k \in Kinds : road[m].step[k] = "COMPLETED" =>
              new.step[k] = "COMPLETED" /\ new.line[k] = road[m].line[k]
         /\ \A k \in Kinds : new.step[k] = "COMPLETED" =>
              \E n \in ActiveOf(prop[p].goal) \cup {m} :
                road[n].step[k] = "COMPLETED" /\ new.line[k] = road[n].line[k]
  BY <1>1, RevisedOK
<1>3. PICK i \in Maps : i = NextMap
  BY <1>1
<1>4. \A k \in Kinds : new.step[k] = "COMPLETED" =>
        \E n \in Maps : /\ Saved(n) /\ road[n].goal = new.goal
                        /\ road[n].step[k] = "COMPLETED" /\ new.line[k] = road[n].line[k]
  BY <1>1, <1>2 DEF ActiveOf, Saved
<1>5. \A n \in Maps : road[n].state = "ACTIVE" => road[n].ver < MaxRoadmapVersion
  BY <1>1, Counters
<1>6. MayActivate(new) /\ road' = Activated(new, i)
  BY <1>1, <1>2, <1>3
<1>7. /\ RoadStep /\ road'[i].step = new.step /\ road'[i].line = new.line
      /\ \A n \in Maps : \/ /\ Saved(n) <=> Saved(n)'
                            /\ road'[n].goal = road[n].goal
                            /\ road'[n].step = road[n].step /\ road'[n].line = road[n].line
                         \/ /\ ~Saved(n)
                            /\ \A k \in Kinds : road'[n].step[k] = "COMPLETED" =>
                                 \E j \in Maps : /\ Saved(j) /\ road[j].goal = road'[n].goal
                                                 /\ road[j].step[k] = "COMPLETED"
                                                 /\ road'[n].line[k] = road[j].line[k]
  BY <1>2, <1>3, <1>4, <1>5, <1>6, NewActive
<1>8. IInv'
  BY <1>1, <1>7, StillOK, Counters
<1>9. \A k \in Maps : k # i => ~(Saved(k)' /\ ~Saved(k))
  BY <1>3, <1>7 DEF RoadStep, Moves, Moved, Created, Saved
<1> QED BY <1>2, <1>3, <1>7, <1>8, <1>9

-----------------------------------------------------------------------------
(* Steps and their completions.                                              *)

\* What a step's transition leaves of the roadmaps.
LEMMA StepRow ==
  ASSUME IInv, NEW m \in Maps, NEW row \in RoadRow, row.state = road[m].state, row.ver = road[m].ver + 1,
         row.goal = road[m].goal, row.prop = road[m].prop,
         road' = [road EXCEPT ![m] = row], road[m].state = "ACTIVE", InBounds,
         goal' = goal, prop' = prop, rename' = rename
  PROVE  /\ OneGoal' /\ LinksOK' /\ RenameOK' /\ ActiveRoadmapServesGoal'
         /\ InOrder(Used(prop), MaxProposals)' /\ InOrder(Used(road), MaxRoadmaps)'
         /\ road' \in [Maps -> RoadRow]
         /\ \A n \in Maps : road'[n].goal = road[n].goal /\ (Saved(n) <=> Saved(n)')
         /\ road'[m] = row /\ \A n \in Maps : n # m => road'[n] = road[n]
<1>1. road \in [Maps -> RoadRow] /\ road[m].ver < MaxRoadmapVersion /\ road[m] \in RoadRow
  BY Rows, Counters DEF IInv
<1>4. RoadStep /\ road'[m] = row /\ \A n \in Maps : n # m => road'[n] = road[n]
  BY <1>1, OneRow DEF Saved
<1>5. PropsKept
  BY Rows DEF PropsKept, IInv
<1>6. \A n \in Maps : road'[n].goal = road[n].goal /\ (Saved(n) <=> Saved(n)')
  BY <1>4 DEF Saved
<1> QED BY <1>4, <1>5, <1>6, RoadStepOK DEF RoadStep, Moves

\* mutate_step_state to TODO or IN_PROGRESS: the completion of the step's lineage, and
\* with it what it credited, is taken back.
LEMMA SetStepOK ==
  ASSUME IInv, NEW m \in Maps, NEW k \in Kinds, NEW new, SetStep(m, k, new)
  PROVE  IInv'
<1> DEFINE done == road[m].step[k] = "COMPLETED"
           e    == road[m].line[k]
           row  == [road[m] EXCEPT !.ver = @ + 1, !.step = [road[m].step EXCEPT ![k] = new],
                                   !.line = [road[m].line EXCEPT ![k] = e]]
<1>1. /\ road[m].state = "ACTIVE" /\ InBounds /\ new \in {"TODO", "IN_PROGRESS"} /\ new \in StepStates
      /\ UNCHANGED <<latest, goal, prop, event, rename>>
      /\ version' \in 1 .. MaxVersion
      /\ cap' = IF done THEN [cap EXCEPT ![e] = "REVOKED"] ELSE cap
  BY Counters DEF SetStep, StepStates
<1>2. road \in [Maps -> RoadRow] /\ e \in Events \cup {0} /\ road[m].step[k] = road[m].step[k]
  BY Rows DEF IInv, RoadRow
<1>3. road' = [road EXCEPT ![m] = row]
  BY <1>2 DEF SetStep, RoadRow
<1>4. done => e \in Events /\ event[e].kind = k
  <2>1. done => e \in Events /\ event[e] = [kind |-> k, goal |-> road[m].goal]
    BY <1>1 DEF IInv, CompletionLineage, Saved
  <2> QED BY <2>1
<1>r. /\ row \in RoadRow /\ row.state = road[m].state /\ row.ver = road[m].ver + 1
      /\ row.goal = road[m].goal /\ row.prop = road[m].prop
      /\ row.step[k] = new /\ row.line[k] = e
      /\ \A j \in Kinds : j # k => row.step[j] = road[m].step[j] /\ row.line[j] = road[m].line[j]
  <2>1. road[m] \in RoadRow /\ road[m].ver < MaxRoadmapVersion
    BY <1>1, <1>2, Counters
  <2>2. road[m].ver + 1 \in 0 .. MaxRoadmapVersion
    BY <2>1, RoadmapsAssumption DEF RoadRow
  <2> QED BY <1>1, <1>2, <2>1, <2>2 DEF RoadRow
<1> HIDE DEF e, done, row
<1>5. /\ OneGoal' /\ LinksOK' /\ RenameOK' /\ ActiveRoadmapServesGoal'
      /\ InOrder(Used(prop), MaxProposals)' /\ InOrder(Used(road), MaxRoadmaps)'
      /\ road' \in [Maps -> RoadRow]
      /\ \A n \in Maps : road'[n].goal = road[n].goal /\ (Saved(n) <=> Saved(n)')
      /\ \A n \in Maps, j \in Kinds : n # m \/ j # k =>
           road'[n].step[j] = road[n].step[j] /\ road'[n].line[j] = road[n].line[j]
      /\ road'[m].step[k] = new /\ road'[m].line[k] = e
  <2>1. UNCHANGED <<goal, prop, rename>>
    BY <1>1
  <2>2. /\ row \in RoadRow /\ row.state = road[m].state /\ row.ver = road[m].ver + 1
        /\ row.goal = road[m].goal /\ row.prop = road[m].prop
    BY <1>r
  <2>3. road' = [road EXCEPT ![m] = row] /\ road[m].state = "ACTIVE" /\ InBounds
    BY <1>1, <1>3
  <2>4. /\ OneGoal' /\ LinksOK' /\ RenameOK' /\ ActiveRoadmapServesGoal'
        /\ InOrder(Used(prop), MaxProposals)' /\ InOrder(Used(road), MaxRoadmaps)'
        /\ road' \in [Maps -> RoadRow] /\ road'[m] = row
        /\ \A n \in Maps : road'[n].goal = road[n].goal /\ (Saved(n) <=> Saved(n)')
        /\ \A n \in Maps : n # m => road'[n] = road[n]
    BY <2>1, <2>2, <2>3, StepRow
  <2> QED BY <1>r, <2>4
<1>6. /\ cap' \in [Events -> {"NONE", "ACTIVE", "REVOKED"}]
      /\ \A i \in Events : cap'[i] = cap[i] \/ (cap'[i] = "REVOKED" /\ done /\ i = e)
      /\ done => cap'[e] # "ACTIVE"
  BY <1>1, <1>4 DEF IInv, TypeOK
<1>7. TypeOK'
  BY <1>1, <1>5, <1>6, Rows, RowsNext DEF IInv
<1>8. EventsOK' /\ InOrder(Happened, MaxEvents)'
  BY <1>1, <1>4, <1>6, RoadmapsAssumption DEF IInv, EventsOK, Filled, Happened, InOrder
<1>9. CompletionLineage'
  <2> SUFFICES ASSUME NEW n \in Maps, NEW j \in Kinds, Saved(n)', road'[n].step[j] = "COMPLETED"
               PROVE  /\ road'[n].line[j] \in Events
                      /\ event'[road'[n].line[j]] = [kind |-> j, goal |-> road'[n].goal]
    BY DEF CompletionLineage
  <2>1. n # m \/ j # k
    BY <1>1, <1>5
  <2>2. Saved(n) /\ road[n].step[j] = "COMPLETED" /\ road'[n].line[j] = road[n].line[j]
        /\ road'[n].goal = road[n].goal
    BY <1>5, <2>1
  <2> QED BY <1>1, <2>2 DEF IInv, CompletionLineage
<1>10. CreditIsBacked'
  <2> SUFFICES ASSUME NEW i \in Events, cap'[i] = "ACTIVE",
                      goal[event[i].goal].status # "DELETED"
               PROVE  \E n \in Maps, j \in Kinds :
                        Saved(n)' /\ road'[n].step[j] = "COMPLETED" /\ road'[n].line[j] = i
    BY <1>1 DEF CreditIsBacked
  <2>1. cap[i] = "ACTIVE" /\ (done => i # e)
    BY <1>6
  <2>2. PICK n \in Maps, j \in Kinds : Saved(n) /\ road[n].step[j] = "COMPLETED" /\ road[n].line[j] = i
    BY <2>1 DEF IInv, CreditIsBacked
  <2>3. n # m \/ j # k
    BY <2>1, <2>2 DEF done, e
  <2> QED BY <1>5, <2>2, <2>3
<1> QED BY <1>5, <1>7, <1>8, <1>9, <1>10 DEF IInv, Filled

\* The next event is free.
LEMMA NextEventFree ==
  ASSUME IInv, NextEvent \in Events
  PROVE  event[NextEvent].kind = NoKind /\ InOrder(Happened \cup {NextEvent}, MaxEvents)
<1>1. InOrder(Happened, MaxEvents) /\ NextEvent = Cardinality(Happened) + 1 /\ MaxEvents \in Nat
  BY RoadmapsAssumption DEF IInv, Filled, NextEvent, Happened
<1>2. NextEvent \notin Happened /\ InOrder(Happened \cup {NextEvent}, MaxEvents)
  BY <1>1, NextRow DEF Events
<1> QED BY <1>2 DEF Happened

\* mutate_step_state to COMPLETED: a new event is the step's lineage, and its credit.
LEMMA CompleteStepOK ==
  ASSUME IInv, NEW m \in Maps, NEW k \in Kinds, CompleteStep(m, k)
  PROVE  IInv'
<1>0. PICK e \in Events : e = NextEvent
  BY DEF CompleteStep
<1> DEFINE row == [road[m] EXCEPT !.ver = @ + 1, !.step = [road[m].step EXCEPT ![k] = "COMPLETED"],
                                   !.line = [road[m].line EXCEPT ![k] = e]]
           new == [kind |-> k, goal |-> road[m].goal]
<1>1. /\ road[m].state = "ACTIVE" /\ InBounds /\ road[m].step[k] # "COMPLETED" /\ "COMPLETED" \in StepStates
      /\ UNCHANGED <<latest, goal, prop, rename>> /\ version' \in 1 .. MaxVersion
      /\ event' = [event EXCEPT ![e] = new] /\ cap' = [cap EXCEPT ![e] = "ACTIVE"]
  BY <1>0, Counters DEF CompleteStep, StepStates
<1>2. road \in [Maps -> RoadRow] /\ road[m].goal \in Goals /\ e \in Events \cup {0}
  BY <1>1, Rows DEF IInv, LinksOK, Linked, Saved
<1>3. road' = [road EXCEPT ![m] = row]
  BY <1>0, <1>2 DEF CompleteStep, RoadRow
<1>4. event[e].kind = NoKind /\ InOrder(Happened \cup {e}, MaxEvents)
  BY <1>0, NextEventFree
<1>r. /\ row \in RoadRow /\ row.state = road[m].state /\ row.ver = road[m].ver + 1
      /\ row.goal = road[m].goal /\ row.prop = road[m].prop
      /\ row.step[k] = "COMPLETED" /\ row.line[k] = e
      /\ \A j \in Kinds : j # k => row.step[j] = road[m].step[j] /\ row.line[j] = road[m].line[j]
  <2>1. road[m] \in RoadRow /\ road[m].ver < MaxRoadmapVersion
    BY <1>1, <1>2, Counters
  <2>2. road[m].ver + 1 \in 0 .. MaxRoadmapVersion
    BY <2>1, RoadmapsAssumption DEF RoadRow
  <2> QED BY <1>1, <1>2, <2>1, <2>2 DEF RoadRow
<1> HIDE DEF row
<1>5. /\ OneGoal' /\ LinksOK' /\ RenameOK' /\ ActiveRoadmapServesGoal'
      /\ InOrder(Used(prop), MaxProposals)' /\ InOrder(Used(road), MaxRoadmaps)'
      /\ road' \in [Maps -> RoadRow]
      /\ \A n \in Maps : road'[n].goal = road[n].goal /\ (Saved(n) <=> Saved(n)')
      /\ \A n \in Maps, j \in Kinds : n # m \/ j # k =>
           road'[n].step[j] = road[n].step[j] /\ road'[n].line[j] = road[n].line[j]
      /\ road'[m].step[k] = "COMPLETED" /\ road'[m].line[k] = e
  <2>1. UNCHANGED <<goal, prop, rename>>
    BY <1>1
  <2>2. /\ row \in RoadRow /\ row.state = road[m].state /\ row.ver = road[m].ver + 1
        /\ row.goal = road[m].goal /\ row.prop = road[m].prop
    BY <1>r
  <2>3. road' = [road EXCEPT ![m] = row] /\ road[m].state = "ACTIVE" /\ InBounds
    BY <1>1, <1>3
  <2>4. /\ OneGoal' /\ LinksOK' /\ RenameOK' /\ ActiveRoadmapServesGoal'
        /\ InOrder(Used(prop), MaxProposals)' /\ InOrder(Used(road), MaxRoadmaps)'
        /\ road' \in [Maps -> RoadRow] /\ road'[m] = row
        /\ \A n \in Maps : road'[n].goal = road[n].goal /\ (Saved(n) <=> Saved(n)')
        /\ \A n \in Maps : n # m => road'[n] = road[n]
    BY <2>1, <2>2, <2>3, StepRow
  <2> QED BY <1>r, <2>4
<1>6. /\ event' \in [Events -> [kind: Kinds \cup {NoKind}, goal: Goals \cup {NoGoal}]]
      /\ event'[e] = new /\ \A i \in Events : i # e => event'[i] = event[i]
      /\ cap' \in [Events -> {"NONE", "ACTIVE", "REVOKED"}]
      /\ cap'[e] = "ACTIVE" /\ \A i \in Events : i # e => cap'[i] = cap[i]
  BY <1>1, <1>2 DEF IInv, TypeOK
<1>7. TypeOK'
  BY <1>1, <1>5, <1>6, Rows, RowsNext DEF IInv
<1>8. EventsOK' /\ InOrder(Happened, MaxEvents)'
  <2>1. \A i \in Events : event'[i].kind # NoKind <=> i = e \/ event[i].kind # NoKind
    BY <1>6, RoadmapsAssumption
  <2>2. Happened' = Happened \cup {e}
    BY <2>1 DEF Happened
  <2>3. EventsOK'
    BY <1>2, <1>6, RoadmapsAssumption DEF IInv, EventsOK
  <2> QED BY <1>4, <2>2, <2>3 DEF InOrder
<1>9. CompletionLineage'
  <2> SUFFICES ASSUME NEW n \in Maps, NEW j \in Kinds, Saved(n)', road'[n].step[j] = "COMPLETED"
               PROVE  /\ road'[n].line[j] \in Events
                      /\ event'[road'[n].line[j]] = [kind |-> j, goal |-> road'[n].goal]
    BY DEF CompletionLineage
  <2>1. CASE n = m /\ j = k
    BY <1>5, <1>6, <2>1
  <2>2. CASE ~(n = m /\ j = k)
    <3>1. Saved(n) /\ road[n].step[j] = "COMPLETED" /\ road'[n].line[j] = road[n].line[j]
          /\ road'[n].goal = road[n].goal
      BY <1>5, <2>2
    <3>2. PICK i \in Events : i = road[n].line[j] /\ event[i] = [kind |-> j, goal |-> road[n].goal]
      BY <3>1 DEF IInv, CompletionLineage
    <3>3. i # e
      BY <1>4, <3>2, RoadmapsAssumption
    <3> QED BY <1>6, <3>1, <3>2, <3>3
  <2> QED BY <2>1, <2>2
<1>10. CreditIsBacked'
  <2> SUFFICES ASSUME NEW i \in Events, cap'[i] = "ACTIVE",
                      goal[event'[i].goal].status # "DELETED"
               PROVE  \E n \in Maps, j \in Kinds :
                        Saved(n)' /\ road'[n].step[j] = "COMPLETED" /\ road'[n].line[j] = i
    BY <1>1 DEF CreditIsBacked
  <2>1. CASE i = e
    BY <1>1, <1>5, <2>1 DEF Saved
  <2>2. CASE i # e
    <3>1. PICK n \in Maps, j \in Kinds : Saved(n) /\ road[n].step[j] = "COMPLETED" /\ road[n].line[j] = i
      BY <1>6, <2>2 DEF IInv, CreditIsBacked
    <3>2. n # m \/ j # k
      BY <1>1, <3>1
    <3> QED BY <1>5, <3>1, <3>2
  <2> QED BY <2>1, <2>2
<1> QED BY <1>5, <1>7, <1>8, <1>9, <1>10 DEF IInv, Filled

-----------------------------------------------------------------------------
(* Goals and proposals.                                                      *)

\* What requests and finalizations do: the stored proposals stay as they are.
LEMMA PropsStep ==
  ASSUME IInv, UNCHANGED <<version, goal, road, event, cap, rename>>, latest' \in Proposals \cup {0},
         prop' \in [Proposals -> PropRow],
         \A q \in Proposals : Stored(q) => prop'[q] = prop[q],
         \A q \in Proposals : prop'[q].state \in {"OPEN", "READY"} => prop'[q].goal \in Goals,
         InOrder(Used(prop), MaxProposals)'
  PROVE  IInv'
<1>1. TypeOK'
  BY Rows, RowsNext DEF IInv
<1>2. \A m \in Maps : Saved(m)' <=> Saved(m)
  BY DEF Saved
<1>3. \A m \in Maps : Saved(m) => Linked(road[m]) /\ prop'[road[m].prop] = prop[road[m].prop]
  BY DEF IInv, LinksOK, Linked
<1>4. LinksOK'
  BY <1>2, <1>3 DEF IInv, LinksOK, Linked, Stored
<1>5. ActiveRoadmapServesGoal'
  BY <1>3 DEF IInv, ActiveRoadmapServesGoal, Stored, Saved
<1>6. OneGoal' /\ RenameOK' /\ EventsOK' /\ CompletionLineage' /\ CreditIsBacked'
  BY <1>2 DEF IInv, OneGoal, RenameOK, EventsOK, CompletionLineage, CreditIsBacked
<1>7. InOrder(Used(road), MaxRoadmaps)' /\ InOrder(Happened, MaxEvents)'
  BY DEF IInv, Filled, InOrder, Used, Happened
<1> QED BY <1>1, <1>4, <1>5, <1>6, <1>7 DEF IInv, Filled

\* A request takes the next row.
LEMMA RequestOK ==
  ASSUME IInv, NEW p \in Proposals, NEW g \in Goals, Request(p, g)
  PROVE  IInv'
<1> DEFINE row == [NoProposal EXCEPT !.state = "OPEN", !.goal = g, !.ver = version, !.occ = goal[g].occ]
<1>1. /\ p = Cardinality(Used(prop)) + 1 /\ prop' = [prop EXCEPT ![p] = row]
      /\ UNCHANGED <<version, latest, goal, road, event, cap, rename>>
      /\ prop \in [Proposals -> PropRow] /\ goal[g].occ \in Occupations \cup {NoOcc}
      /\ version \in 0 .. MaxVersion /\ latest \in Proposals \cup {0}
  BY DEF Request, IInv, TypeOK, PropRow
<1>2. row \in PropRow /\ row.state = "OPEN" /\ row.goal = g
  BY <1>1 DEF NoProposal, PropRow
<1> HIDE DEF row
<1>3. prop[p].state = "NONE" /\ InOrder(Used(prop) \cup {p}, MaxProposals)
  <2>1. InOrder(Used(prop), MaxProposals) /\ MaxProposals \in Nat /\ p \in 1 .. MaxProposals
    BY RoadmapsAssumption DEF IInv, Filled, Proposals
  <2>2. p \notin Used(prop) /\ InOrder(Used(prop) \cup {p}, MaxProposals)
    BY <1>1, <2>1, NextRow
  <2> QED BY <1>1, <2>2 DEF Used
<1>4. /\ prop' \in [Proposals -> PropRow] /\ prop'[p] = row
      /\ \A q \in Proposals : q # p => prop'[q] = prop[q]
  BY <1>1, <1>2
<1>5. InOrder(Used(prop), MaxProposals)'
  <2>1. Used(prop)' = Used(prop) \cup {p}
    BY <1>1, <1>2, <1>4 DEF Used
  <2> QED BY <1>3, <2>1 DEF InOrder
<1>6. /\ \A q \in Proposals : Stored(q) => prop'[q] = prop[q]
      /\ \A q \in Proposals : prop'[q].state \in {"OPEN", "READY"} => prop'[q].goal \in Goals
  BY <1>2, <1>3, <1>4 DEF Stored, IInv, LinksOK
<1> QED BY <1>1, <1>4, <1>5, <1>6, PropsStep

\* finalize_recompute stores the proposal of an open request.
LEMMA FinalizeOK ==
  ASSUME IInv, NEW p \in Proposals, NEW steps \in SUBSET Kinds, NEW feasible \in BOOLEAN,
         Finalize(p, steps, feasible)
  PROVE  IInv'
<1> DEFINE row == [prop[p] EXCEPT !.state = "READY", !.steps = steps, !.feasible = feasible, !.auto = TRUE]
<1>1. /\ prop[p].state = "OPEN" /\ UNCHANGED <<version, goal, road, event, cap, rename>>
      /\ latest' = IF prop[p].ver = version THEN p ELSE latest
      /\ prop \in [Proposals -> PropRow] /\ latest \in Proposals \cup {0}
  BY Rows DEF Finalize, IInv
<1>2. row \in PropRow /\ row.state = "READY" /\ row.goal = prop[p].goal
  BY <1>1 DEF PropRow
<1>3. prop' = [prop EXCEPT ![p] = row]
  BY <1>1 DEF Finalize, PropRow
<1> HIDE DEF row
<1>4. /\ prop' \in [Proposals -> PropRow] /\ prop'[p] = row
      /\ \A q \in Proposals : q # p => prop'[q] = prop[q]
  BY <1>1, <1>2, <1>3
<1>5. InOrder(Used(prop), MaxProposals)'
  <2>1. Used(prop)' = Used(prop)
    BY <1>1, <1>2, <1>4 DEF Used
  <2> QED BY <2>1 DEF InOrder, IInv, Filled
<1>6. /\ \A q \in Proposals : Stored(q) => prop'[q] = prop[q]
      /\ \A q \in Proposals : prop'[q].state \in {"OPEN", "READY"} => prop'[q].goal \in Goals
  BY <1>1, <1>2, <1>4 DEF Stored, IInv, LinksOK
<1> QED BY <1>1, <1>4, <1>5, <1>6, PropsStep

\* mutate_goal: a goal that an active roadmap serves keeps its target and stays ACTIVE,
\* or the roadmap is archived.
LEMMA MutateGoalOK ==
  ASSUME IInv, NEW g \in Goals, NEW status \in GoalStatuses, NEW t \in Targets, MutateGoal(g, status, t)
  PROVE  IInv'
<1> DEFINE leaves == goal[g].status # "NONE" /\ \/ Target(g) # t
                                                \/ goal[g].status = "ACTIVE" /\ status # "ACTIVE"
           hit(m) == leaves /\ road[m].goal = g /\ road[m].state = "ACTIVE"
           new(m) == IF hit(m) THEN Restated(road[m], "ARCHIVED") ELSE road[m]
<1>1. /\ goal[g].status # "DELETED" /\ InBounds /\ version' \in 1 .. MaxVersion
      /\ status = "ACTIVE" => \A h \in Goals \ {g} : goal[h].status # "ACTIVE"
      /\ goal' = [goal EXCEPT ![g] = GoalAs(status, t)]
      /\ UNCHANGED <<latest, prop, event, cap, rename>>
      /\ road \in [Maps -> RoadRow] /\ goal \in [Goals -> GoalRow]
  BY Counters, Rows DEF MutateGoal, IInv
<1>2. road' = [m \in Maps |-> new(m)]
  BY DEF MutateGoal, Archived, Restated
<1>3. ASSUME NEW m \in Maps
      PROVE  /\ new(m) \in RoadRow /\ new(m).goal = road[m].goal /\ new(m).prop = road[m].prop
             /\ new(m).step = road[m].step /\ new(m).line = road[m].line
             /\ \/ ~hit(m) /\ new(m) = road[m]
                \/ /\ road[m].state = "ACTIVE" /\ new(m).ver = road[m].ver + 1
                   /\ new(m).state = "ARCHIVED"
  BY <1>1, Counters, RestatedOK
<1> HIDE DEF new
<1>4. road' \in [Maps -> RoadRow] /\ \A m \in Maps : road'[m] = new(m)
  BY <1>2, <1>3
<1>5. GoalAs(status, t) \in GoalRow /\ goal' \in [Goals -> GoalRow]
      /\ goal'[g] = GoalAs(status, t) /\ \A h \in Goals : h # g => goal'[h] = goal[h]
  <2>1. GoalAs(status, t) \in GoalRow
    BY RoadmapsAssumption DEF GoalAs, GoalRow, Targets
  <2> QED BY <1>1, <2>1
<1>6. Moves
  <2>1. ASSUME NEW m \in Maps PROVE Moved(m) \/ road'[m] = road[m]
    <3>1. road[m].ver <= road[m].ver + 1 /\ road[m].ver # road[m].ver + 1
      BY <1>1 DEF RoadRow
    <3> QED BY <1>3, <1>4, <3>1 DEF Moved, Saved
  <2>2. \A m \in Maps : road'[m].state = "DRAFT" => road'[m].ver < MaxRoadmapVersion
    BY <1>3, <1>4 DEF IInv, LinksOK
  <2> QED BY <1>4, <2>1, <2>2 DEF Moves
<1>7. PropsKept
  BY <1>1, Rows DEF PropsKept, IInv
<1>8. Carried
  <2>1. \A h \in Goals : goal[h].status = "DELETED" => goal'[h].status = "DELETED"
    BY <1>1, <1>5
  <2>2. \A m \in Maps : /\ Saved(m) <=> Saved(m)'
                        /\ road'[m].goal = road[m].goal
                        /\ road'[m].step = road[m].step /\ road'[m].line = road[m].line
    BY <1>3, <1>4 DEF Saved
  <2> QED BY <1>1, <2>1, <2>2 DEF Carried
<1>9. OneGoal'
  <2>1. GoalAs(status, t).status = status
    BY DEF GoalAs
  <2> QED BY <1>1, <1>5, <2>1 DEF IInv, OneGoal
<1>10. ActiveRoadmapServesGoal'
  <2> SUFFICES ASSUME NEW m \in Maps, road'[m].state = "ACTIVE"
               PROVE  /\ \A n \in Maps \ {m} : road'[n].state # "ACTIVE"
                      /\ goal'[road'[m].goal].status = "ACTIVE" /\ goal'[road'[m].goal].mode = "TARGETED"
                      /\ prop'[road'[m].prop].state = "READY"
                      /\ goal'[road'[m].goal].occ = prop'[road'[m].prop].occ
    BY DEF ActiveRoadmapServesGoal, Stored
  <2>1. road'[m] = road[m] /\ ~hit(m) /\ road[m].state = "ACTIVE"
    BY <1>3, <1>4
  <2>2. \A n \in Maps \ {m} : road'[n].state # "ACTIVE"
    BY <1>3, <1>4, <2>1 DEF IInv, ActiveRoadmapServesGoal
  <2>3. /\ goal[road[m].goal].status = "ACTIVE" /\ goal[road[m].goal].mode = "TARGETED"
        /\ prop[road[m].prop].state = "READY" /\ goal[road[m].goal].occ = prop[road[m].prop].occ
        /\ road[m].goal \in Goals
    BY <2>1 DEF IInv, ActiveRoadmapServesGoal, Stored, LinksOK, Linked, Saved
  <2>4. goal'[road[m].goal].status = "ACTIVE" /\ goal'[road[m].goal].mode = goal[road[m].goal].mode
        /\ goal'[road[m].goal].occ = goal[road[m].goal].occ
    <3>1. CASE road[m].goal # g
      BY <1>5, <2>3, <3>1
    <3>2. CASE road[m].goal = g
      <4>1. Target(g) = t /\ status = "ACTIVE"
        BY <2>1, <2>3, <3>2
      <4> QED BY <1>5, <3>2, <4>1 DEF Target, GoalAs
    <3> QED BY <3>1, <3>2
  <2> QED BY <1>1, <2>1, <2>2, <2>3, <2>4
<1>11. TypeOK'
  BY <1>1, <1>4, <1>5, Rows, RowsNext DEF IInv
<1> QED BY <1>1, <1>6, <1>7, <1>8, <1>9, <1>10, <1>11, MovesOK, CarriedOK DEF IInv, Filled

\* delete_goal: the roadmaps go with their proposals, and what their completions
\* credited is not taken back.
LEMMA DeleteGoalOK ==
  ASSUME IInv, NEW g \in Goals, DeleteGoal(g)
  PROVE  IInv'
<1> DEFINE noGoal == [NoGoalRow EXCEPT !.status = "DELETED"]
           noProp == [NoProposal EXCEPT !.state = "DELETED"]
           noRoad == [NoRoadmap EXCEPT !.state = "DELETED"]
<1>1. /\ goal[g].status # "DELETED" /\ version' \in 1 .. MaxVersion
      /\ goal' = [goal EXCEPT ![g] = noGoal]
      /\ prop' = [p \in Proposals |-> IF prop[p].state # "NONE" /\ prop[p].goal = g THEN noProp ELSE prop[p]]
      /\ road' = [m \in Maps |-> IF road[m].state # "NONE" /\ road[m].goal = g THEN noRoad ELSE road[m]]
      /\ latest' \in {0, latest} /\ UNCHANGED <<event, cap, rename>>
      /\ road \in [Maps -> RoadRow] /\ prop \in [Proposals -> PropRow] /\ goal \in [Goals -> GoalRow]
  BY Counters, Rows DEF DeleteGoal, IInv
<1>2. noGoal \in GoalRow /\ noGoal.status = "DELETED"
  BY DEF NoGoalRow, GoalRow
<1>3. noProp \in PropRow /\ noProp.state = "DELETED"
  <2>1. NoProposal \in PropRow
    BY RoadmapsAssumption DEF NoProposal, PropRow
  <2> QED BY <2>1 DEF PropRow
<1>4. noRoad \in RoadRow /\ noRoad.state = "DELETED"
  <2>1. NoRoadmap \in RoadRow
    BY RoadmapsAssumption DEF NoRoadmap, RoadRow, NoSteps, NoLine, StepStates
  <2> QED BY <2>1 DEF RoadRow
<1> HIDE DEF noGoal, noProp, noRoad
<1>5. /\ goal' \in [Goals -> GoalRow] /\ goal'[g].status = "DELETED"
      /\ \A h \in Goals : h # g => goal'[h] = goal[h]
  BY <1>1, <1>2
<1>6. /\ prop' \in [Proposals -> PropRow]
      /\ \A p \in Proposals : \/ prop'[p] = prop[p] /\ (prop[p].state # "NONE" => prop[p].goal # g)
                              \/ prop'[p].state = "DELETED" /\ prop[p].goal = g /\ prop[p].state # "NONE"
  BY <1>1, <1>3
<1>7. /\ road' \in [Maps -> RoadRow]
      /\ \A m \in Maps : \/ road'[m] = road[m] /\ (road[m].state # "NONE" => road[m].goal # g)
                         \/ road'[m].state = "DELETED" /\ road[m].goal = g /\ road[m].state # "NONE"
  BY <1>1, <1>4
<1>8. \A m \in Maps : Saved(m)' => /\ Saved(m) /\ road'[m] = road[m] /\ road[m].goal # g /\ Linked(road[m])
                                   /\ prop'[road[m].prop] = prop[road[m].prop]
                                   /\ goal'[road[m].goal] = goal[road[m].goal]
  <2> SUFFICES ASSUME NEW m \in Maps, Saved(m)'
               PROVE  /\ Saved(m) /\ road'[m] = road[m] /\ road[m].goal # g /\ Linked(road[m])
                      /\ prop'[road[m].prop] = prop[road[m].prop]
                      /\ goal'[road[m].goal] = goal[road[m].goal]
    OBVIOUS
  <2>1. Saved(m) /\ road'[m] = road[m] /\ road[m].goal # g
    BY <1>7 DEF Saved
  <2>2. Linked(road[m])
    BY <2>1 DEF IInv, LinksOK
  <2> QED BY <1>5, <1>6, <2>1, <2>2 DEF Linked
<1>9. TypeOK'
  BY <1>1, <1>5, <1>6, <1>7, Rows, RowsNext DEF IInv
<1>10. OneGoal'
  BY <1>5 DEF IInv, OneGoal
<1>11. InOrder(Used(prop), MaxProposals)' /\ InOrder(Used(road), MaxRoadmaps)'
  <2>1. Used(prop)' = Used(prop)
    BY <1>1, <1>6 DEF Used
  <2>2. Used(road)' = Used(road)
    BY <1>1, <1>7 DEF Used
  <2> QED BY <2>1, <2>2 DEF IInv, Filled, InOrder
<1>12. LinksOK'
  <2>1. \A p \in Proposals : prop'[p].state \in {"OPEN", "READY"} => prop'[p].goal \in Goals
    BY <1>6 DEF IInv, LinksOK
  <2>2. \A m \in Maps : Saved(m)' => Linked(road[m])'
    BY <1>8 DEF Linked, Stored
  <2>3. \A m \in Maps : road'[m].state = "DRAFT" => road'[m].ver < MaxRoadmapVersion
    BY <1>7 DEF IInv, LinksOK
  <2> QED BY <2>1, <2>2, <2>3 DEF LinksOK
<1>13. RenameOK'
  BY <1>1, <1>7, <1>8 DEF IInv, RenameOK
<1>14. ActiveRoadmapServesGoal'
  BY <1>8 DEF IInv, ActiveRoadmapServesGoal, Stored, Saved
<1>15. Carried
  <2>1. \A m \in Maps : Saved(m) => (Saved(m)' /\ road'[m] = road[m]) \/ goal'[road[m].goal].status = "DELETED"
    BY <1>5, <1>7 DEF Saved
  <2>2. \A h \in Goals : goal[h].status = "DELETED" => goal'[h].status = "DELETED"
    BY <1>5
  <2> QED BY <1>1, <1>8, <2>1, <2>2 DEF Carried
<1> QED BY <1>9, <1>10, <1>11, <1>12, <1>13, <1>14, <1>15, CarriedOK DEF IInv, Filled

-----------------------------------------------------------------------------
(* The theorems.                                                             *)

\* An account that has nothing yet.
LEMMA InitOK == Init => IInv
<1> SUFFICES ASSUME Init PROVE IInv
  OBVIOUS
<1>1. TypeOK
  <2>1. /\ version \in 1 .. MaxVersion /\ latest = 0
        /\ NoGoalRow \in GoalRow /\ NoProposal \in PropRow /\ NoRoadmap \in RoadRow
        /\ NoRename \in [road: Maps \cup {0}, ver: 0 .. MaxRoadmapVersion, prof: 0 .. MaxVersion,
                         state: {"NONE", "DRAFT", "ACTIVE", "ARCHIVED"}]
    BY RoadmapsAssumption DEF Init, NoGoalRow, GoalRow, NoProposal, PropRow, NoRoadmap, RoadRow,
       NoSteps, NoLine, StepStates, NoRename
  <2> QED BY <2>1, Rows DEF Init
<1>2. \A m \in Maps : road[m].state = "NONE"
  BY DEF Init, NoRoadmap
<1>3. OneGoal /\ RenameOK /\ EventsOK
  BY DEF Init, OneGoal, NoGoalRow, RenameOK, NoRename, EventsOK
<1>4. LinksOK
  BY <1>2 DEF Init, LinksOK, NoProposal, Saved
<1>5. Filled
  <2>1. Used(prop) = {} /\ Used(road) = {} /\ Happened = {}
    BY DEF Init, Used, NoProposal, NoRoadmap, Happened
  <2>2. /\ 0 \in 0 .. MaxProposals /\ 0 \in 0 .. MaxRoadmaps /\ 0 \in 0 .. MaxEvents
        /\ 1 .. 0 = {}
    BY RoadmapsAssumption
  <2> QED BY <2>1, <2>2 DEF Filled, InOrder
<1>6. ActiveRoadmapServesGoal /\ CompletionLineage /\ CreditIsBacked
  BY <1>2 DEF Init, ActiveRoadmapServesGoal, CompletionLineage, CreditIsBacked, Saved
<1> QED BY <1>1, <1>3, <1>4, <1>5, <1>6 DEF IInv

\* Every action keeps the invariant.
LEMMA NextOK == IInv /\ [Next]_vars => IInv'
<1> SUFFICES ASSUME IInv, [Next]_vars PROVE IInv'
  OBVIOUS
<1>1. CASE EditProfile \/ \E e \in Events : DeleteCapability(e)
  BY <1>1, ProfileOK
<1>2. ASSUME NEW g \in Goals,
             \/ \E status \in GoalStatuses, t \in Targets : MutateGoal(g, status, t)
             \/ DeleteGoal(g) \/ \E p \in Proposals : Request(p, g)
      PROVE  IInv'
  BY <1>2, MutateGoalOK, DeleteGoalOK, RequestOK
<1>3. CASE Worker
  BY <1>3, FinalizeOK, ReconcileOK DEF Worker
<1>4. CASE \E p \in Proposals : CreateRoadmap(p)
  BY <1>4, CreateRoadmapOK
<1>5. ASSUME NEW m \in Maps, ActivateRoadmap(m) \/ ArchiveRoadmap(m) \/ RenameRead(m) \/ ExpireSource(m)
      PROVE  IInv'
  BY <1>5, UserRoadmapOK, RenameReadOK, ExpireSourceOK
<1>6. ASSUME NEW m \in Maps,
             \/ \E k \in Kinds : CompleteStep(m, k) \/ \E new \in StepStates : SetStep(m, k, new)
             \/ \E p \in Proposals : ApplyRevision(m, p)
      PROVE  IInv'
  BY <1>6, CompleteStepOK, SetStepOK, ApplyRevisionOK
<1>7. CASE RenameWrite
  BY <1>7, RenameWriteOK
<1>8. CASE UNCHANGED vars
  <2>1. UNCHANGED <<version, latest, goal, prop, road, event, cap, rename>>
    BY <1>8 DEF vars
  <2>2. RoadStep /\ Carried
    BY <2>1, Idle, RowsCarry DEF Saved
  <2>3. /\ PropsKept /\ version' \in 1 .. MaxVersion /\ cap' \in [Events -> {"NONE", "ACTIVE", "REVOKED"}]
    BY <2>1, Rows, Counters DEF PropsKept, IInv
  <2> QED BY <2>1, <2>2, <2>3, KeptOK
<1> QED BY <1>1, <1>2, <1>3, <1>4, <1>5, <1>6, <1>7, <1>8 DEF Next

\* The inductive invariant holds throughout.
THEOREM Invariance == Spec => []IInv
<1>1. Init => IInv
  BY InitOK
<1>2. IInv /\ [Next]_vars => IInv'
  BY NextOK
<1> QED BY <1>1, <1>2, PTL DEF Spec

\* Every row has the shape its table gives it.
THEOREM TypeCorrect == Spec => []TypeOK
<1>1. IInv => TypeOK
  BY DEF IInv
<1> QED BY <1>1, Invariance, PTL

\* mutate_goal, mutate_roadmap, apply_roadmap_revision and the automatic loop together:
\* at most one roadmap is active, and it serves what the user aims at.
THEOREM ActiveRoadmapAlwaysServesGoal == Spec => []ActiveRoadmapServesGoal
<1>1. IInv => ActiveRoadmapServesGoal
  BY DEF IInv
<1> QED BY <1>1, Invariance, PTL

\* mutate_step_state and what create_roadmap and preserve_revision_progress carry over:
\* a completed step knows the event that completed it.
THEOREM CompletionsHaveLineage == Spec => []CompletionLineage
<1>1. IInv => CompletionLineage
  BY DEF IInv
<1> QED BY <1>1, Invariance, PTL

\* ... and nothing is credited that no completed step leads to.
THEOREM CreditIsAlwaysBacked == Spec => []CreditIsBacked
<1>1. IInv => CreditIsBacked
  BY DEF IInv
<1> QED BY <1>1, Invariance, PTL

-----------------------------------------------------------------------------
(* What a step may never do.                                                 *)

\* A roadmap that is not there yet becomes active only when the automatic roadmap finds
\* no other active one, or in a revision.
NothingNewActive == \A n \in Maps : road[n].state = "NONE" => road'[n].state # "ACTIVE"

\* Activating a saved row makes no row active that was not there.
LEMMA SavedIsNotNew ==
  ASSUME IInv, NEW m \in Maps, NEW row, Saved(m), road' = Activated(row, m)
  PROVE  NothingNewActive
<1> SUFFICES ASSUME NEW n \in Maps, road[n].state = "NONE" PROVE road'[n].state # "ACTIVE"
  BY DEF NothingNewActive
<1>1. n # m
  BY DEF Saved
<1> QED BY <1>1 DEF Activated

\* The steps that leave roadmaps or their states alone.
LEMMA QuietSteps ==
  ASSUME IInv,
         \/ EditProfile \/ \E e \in Events : DeleteCapability(e)
         \/ \E g \in Goals, p \in Proposals : Request(p, g)
         \/ \E p \in Proposals, steps \in SUBSET Kinds, feasible \in BOOLEAN : Finalize(p, steps, feasible)
         \/ \E m \in Maps : RenameRead(m)
         \/ UNCHANGED vars
  PROVE  road' = road
BY DEF EditProfile, DeleteCapability, Request, Finalize, RenameRead, vars

\* Goals that change or go only archive or delete.
LEMMA GoalsActivateNothing ==
  ASSUME IInv, NEW g \in Goals,
         \/ \E status \in GoalStatuses, t \in Targets : MutateGoal(g, status, t)
         \/ DeleteGoal(g)
  PROVE  NothingNewActive
<1>0. road \in [Maps -> RoadRow]
  BY Rows DEF IInv
<1>1. CASE \E status \in GoalStatuses, t \in Targets : MutateGoal(g, status, t)
  <2>1. PICK status \in GoalStatuses, t \in Targets : MutateGoal(g, status, t)
    BY <1>1
  <2>2. \A m \in Maps : road'[m] = road[m] \/ road'[m] = Archived(m)
    BY <2>1 DEF MutateGoal
  <2>3. \A m \in Maps : Archived(m).state = "ARCHIVED"
    BY <1>0 DEF Archived, RoadRow
  <2> QED BY <2>2, <2>3 DEF NothingNewActive
<1>2. CASE DeleteGoal(g)
  <2>1. \A m \in Maps : road'[m] = road[m] \/ road'[m] = [NoRoadmap EXCEPT !.state = "DELETED"]
    BY <1>2 DEF DeleteGoal
  <2>2. [NoRoadmap EXCEPT !.state = "DELETED"].state = "DELETED"
    BY DEF NoRoadmap
  <2> QED BY <2>1, <2>2 DEF NothingNewActive
<1> QED BY <1>1, <1>2

\* The user's steps work on saved roadmaps, or make a draft.
LEMMA UsersActivateSaved ==
  ASSUME IInv,
         \/ \E p \in Proposals : CreateRoadmap(p)
         \/ \E m \in Maps : ActivateRoadmap(m) \/ ArchiveRoadmap(m) \/ ExpireSource(m)
         \/ \E m \in Maps, k \in Kinds : CompleteStep(m, k) \/ \E new \in StepStates : SetStep(m, k, new)
  PROVE  NothingNewActive
<1>0. road \in [Maps -> RoadRow]
  BY Rows DEF IInv
<1>1. CASE \E p \in Proposals : CreateRoadmap(p)
  <2>1. PICK p \in Proposals : CreateRoadmap(p)
    BY <1>1
  <2>2. \A m \in Maps : road'[m] = road[m] \/ road'[m] = NewMap(p)
    BY <1>0, <2>1 DEF CreateRoadmap
  <2>3. NewMap(p).state = "DRAFT"
    BY DEF NewMap
  <2> QED BY <2>2, <2>3 DEF NothingNewActive
<1>2. ASSUME NEW m \in Maps, ActivateRoadmap(m) PROVE NothingNewActive
  BY <1>2, SavedIsNotNew DEF ActivateRoadmap
<1>3. ASSUME NEW m \in Maps,
             \/ ArchiveRoadmap(m) \/ ExpireSource(m)
             \/ \E k \in Kinds : CompleteStep(m, k) \/ \E new \in StepStates : SetStep(m, k, new)
      PROVE  NothingNewActive
  <2>1. \A n \in Maps : n # m => road'[n] = road[n]
    <3>1. CASE ArchiveRoadmap(m) \/ ExpireSource(m)
      BY <1>0, <3>1 DEF ArchiveRoadmap, ExpireSource
    <3>2. ASSUME NEW k \in Kinds, CompleteStep(m, k) PROVE \A n \in Maps : n # m => road'[n] = road[n]
      BY <1>0, <3>2 DEF CompleteStep
    <3>3. ASSUME NEW k \in Kinds, NEW new \in StepStates, SetStep(m, k, new)
          PROVE  \A n \in Maps : n # m => road'[n] = road[n]
      BY <1>0, <3>3 DEF SetStep
    <3> QED BY <1>3, <3>1, <3>2, <3>3
  <2>2. road[m].state # "NONE"
    BY <1>3 DEF ArchiveRoadmap, ExpireSource, CompleteStep, SetStep, Saved
  <2> QED BY <2>1, <2>2 DEF NothingNewActive
<1> QED BY <1>1, <1>2, <1>3

\* A RENAME activates at most the active roadmap it renames.
LEMMA RenamesActivateSaved ==
  ASSUME IInv, RenameWrite
  PROVE  NothingNewActive /\ \A m \in Maps : road'[m].state = road[m].state
<1>0. road \in [Maps -> RoadRow]
  BY Rows DEF IInv
<1> SUFFICES \A n \in Maps : road'[n].state = road[n].state
  BY DEF NothingNewActive
<1>1. CASE road' = road
  BY <1>1
<1>2. ASSUME NEW m \in Maps, road[m].state = "ACTIVE", road' = Activated(road[m], m)
      PROVE  \A n \in Maps : road'[n].state = road[n].state
  <2>1. \A n \in Maps : n # m => road[n].state # "ACTIVE"
    BY <1>2 DEF IInv, ActiveRoadmapServesGoal
  <2>2. \A n \in Maps : n # m => road'[n] = road[n]
    BY <1>2, <2>1 DEF Activated
  <2>3. road'[m].state = "ACTIVE"
    BY <1>0, <1>2 DEF Activated, RoadRow
  <2> QED BY <1>2, <2>2, <2>3
<1>3. ASSUME NEW m \in Maps, road' = [road EXCEPT ![m] = Restated(road[m], road[m].state)]
      PROVE  \A n \in Maps : road'[n].state = road[n].state
  <2>1. Restated(road[m], road[m].state).state = road[m].state
    BY <1>0 DEF Restated, RoadRow
  <2> QED BY <1>0, <1>3, <2>1
<1> QED BY <1>1, <1>2, <1>3, RenameWrites

\* The automatic roadmap has no active roadmap to archive, and changes no archived one.
LEMMA AutomaticLeavesAlone ==
  ASSUME IInv, NEW p \in Proposals, Reconcile(p)
  PROVE  /\ \A m \in Maps : road[m].state \in {"ACTIVE", "ARCHIVED"} => road'[m] = road[m]
         /\ NothingNewActive \/ \A m \in Maps : road[m].state # "ACTIVE"
<1>1. Stored(p) /\ NextMap \in Maps /\ road' = Automatic(p)
  BY DEF Reconcile
<1>2. CASE road' = road
  BY <1>2 DEF NothingNewActive
<1>3. ASSUME NEW row, NEW m \in Maps, \A n \in Maps : road[n].state # "ACTIVE",
             road[m].state \in {"NONE", "DRAFT"}, road' = Activated(row, m)
      PROVE  \A n \in Maps : road[n].state \in {"ACTIVE", "ARCHIVED"} => road'[n] = road[n]
  <2> SUFFICES ASSUME NEW n \in Maps, road[n].state = "ARCHIVED" PROVE road'[n] = road[n]
    BY <1>3
  <2>1. n # m
    BY <1>3
  <2> QED BY <1>3, <2>1 DEF Activated
<1>4. CASE /\ \A n \in Maps : road[n].state # "ACTIVE"
           /\ \E m \in Maps :
                \/ m = NextMap /\ MayActivate(NewMap(p)) /\ road' = Activated(NewMap(p), m)
                \/ road[m].state = "DRAFT" /\ MayActivate(road[m]) /\ road' = Activated(road[m], m)
  <2>1. PICK m \in Maps : \/ m = NextMap /\ road' = Activated(NewMap(p), m)
                          \/ road[m].state = "DRAFT" /\ road' = Activated(road[m], m)
    BY <1>4
  <2>2. road[m].state \in {"NONE", "DRAFT"}
    BY <2>1, NextMapFree
  <2>3. \A n \in Maps : road[n].state \in {"ACTIVE", "ARCHIVED"} => road'[n] = road[n]
    BY <1>3, <1>4, <2>1, <2>2
  <2> QED BY <1>4, <2>3
<1> QED BY <1>1, <1>2, <1>4, AutomaticCases

\* apply_roadmap_revision archives the one active roadmap, and the roadmap that is new
\* and active has its completed steps.
LEMMA RevisionsKeepHistory ==
  ASSUME IInv, NEW m \in Maps, NEW p \in Proposals, ApplyRevision(m, p),
         NEW n \in Maps, road[n].state = "NONE", road'[n].state = "ACTIVE",
         NEW i \in Maps, road[i].state = "ACTIVE", NEW k \in Kinds, road[i].step[k] = "COMPLETED"
  PROVE  road'[n].step[k] = "COMPLETED" /\ road'[n].line[k] = road[i].line[k]
<1>1. i = m
  <2>1. road[m].state = "ACTIVE"
    BY DEF ApplyRevision, CanApply
  <2> QED BY <2>1 DEF IInv, ActiveRoadmapServesGoal
<1>2. PICK j \in Maps : /\ \A l \in Maps : l # j => ~(Saved(l)' /\ ~Saved(l))
                        /\ \A c \in Kinds : road[m].step[c] = "COMPLETED" =>
                             road'[j].step[c] = "COMPLETED" /\ road'[j].line[c] = road[m].line[c]
  BY ApplyRevisionOK
<1>3. Saved(n)' /\ ~Saved(n)
  BY DEF Saved
<1>4. n = j
  BY <1>2, <1>3
<1> QED BY <1>1, <1>2, <1>4

\* preserve_revision_progress: the roadmap that replaces an active one in a revision has
\* every completed step of it, with the same event.
THEOREM RevisionsRetainHistory == Spec => RevisionKeepsHistory
<1>1. ASSUME IInv, [Next]_vars
      PROVE  \A m, n \in Maps :
               /\ road[m].state = "ACTIVE" /\ road'[m].state = "ARCHIVED"
               /\ road[n].state = "NONE" /\ road'[n].state = "ACTIVE"
               => \A k \in Kinds : road[m].step[k] = "COMPLETED" =>
                    road'[n].step[k] = "COMPLETED" /\ road'[n].line[k] = road[m].line[k]
  <2> SUFFICES ASSUME NEW m \in Maps, NEW n \in Maps,
                      road[m].state = "ACTIVE", road[n].state = "NONE", road'[n].state = "ACTIVE",
                      NEW k \in Kinds, road[m].step[k] = "COMPLETED"
               PROVE  road'[n].step[k] = "COMPLETED" /\ road'[n].line[k] = road[m].line[k]
    OBVIOUS
  <2>1. ~NothingNewActive /\ road' # road
    BY DEF NothingNewActive
  <2>2. ASSUME NEW i \in Maps, NEW p \in Proposals, ApplyRevision(i, p)
        PROVE  road'[n].step[k] = "COMPLETED" /\ road'[n].line[k] = road[m].line[k]
    BY <1>1, <2>2, RevisionsKeepHistory
  <2>3. ~ \E p \in Proposals : Reconcile(p)
    BY <1>1, <2>1, AutomaticLeavesAlone
  <2>4. \E i \in Maps, p \in Proposals : ApplyRevision(i, p)
    BY <1>1, <2>1, <2>3, QuietSteps, GoalsActivateNothing, UsersActivateSaved, RenamesActivateSaved
       DEF Next, Worker
  <2> QED BY <2>2, <2>4
<1> QED BY <1>1, Invariance, PTL DEF Spec, RevisionKeepsHistory

\* Recomputes, their finalization and the automatic loop leave every active and every
\* archived roadmap alone.
THEOREM RecomputesKeepRoadmaps == Spec => RecomputeKeepsRoadmaps
<1>1. ASSUME IInv, [Next]_vars
      PROVE  prop' # prop /\ version' = version =>
               \A m \in Maps : road[m].state \in {"ACTIVE", "ARCHIVED"} => road'[m] = road[m]
  <2> SUFFICES ASSUME prop' # prop, version' = version
               PROVE  \A m \in Maps : road[m].state \in {"ACTIVE", "ARCHIVED"} => road'[m] = road[m]
    OBVIOUS
  <2>1. ~Bump
    <3>1. version \in Nat
      BY <1>1, RoadmapsAssumption DEF IInv, TypeOK
    <3> QED BY <3>1 DEF Bump
  <2>2. CASE \E p \in Proposals : Reconcile(p)
    BY <1>1, <2>2, AutomaticLeavesAlone
  <2>3. CASE \/ \E g \in Goals, p \in Proposals : Request(p, g)
             \/ \E p \in Proposals, steps \in SUBSET Kinds, feasible \in BOOLEAN : Finalize(p, steps, feasible)
    BY <1>1, <2>3, QuietSteps
  <2>4. ~ \E g \in Goals : \/ \E status \in GoalStatuses, t \in Targets : MutateGoal(g, status, t)
                           \/ DeleteGoal(g)
    BY <2>1 DEF MutateGoal, DeleteGoal
  <2>5. ~(EditProfile \/ \E e \in Events : DeleteCapability(e))
    BY <2>1 DEF EditProfile, DeleteCapability
  <2>6. ~ \E p \in Proposals : CreateRoadmap(p)
    BY DEF CreateRoadmap
  <2>7. ~ \E m \in Maps : \/ ActivateRoadmap(m) \/ ArchiveRoadmap(m) \/ RenameRead(m) \/ ExpireSource(m)
                          \/ \E k \in Kinds : CompleteStep(m, k) \/ \E new \in StepStates : SetStep(m, k, new)
                          \/ \E p \in Proposals : ApplyRevision(m, p)
    <3>1. ASSUME NEW m \in Maps, ActivateRoadmap(m) \/ ArchiveRoadmap(m) \/ RenameRead(m) \/ ExpireSource(m) PROVE FALSE
      BY <3>1 DEF ActivateRoadmap, ArchiveRoadmap, RenameRead, ExpireSource
    <3>2. ASSUME NEW m \in Maps, NEW k \in Kinds, CompleteStep(m, k) PROVE FALSE
      BY <3>2 DEF CompleteStep
    <3>3. ASSUME NEW m \in Maps, NEW k \in Kinds, NEW new \in StepStates, SetStep(m, k, new) PROVE FALSE
      BY <3>3 DEF SetStep
    <3>4. ASSUME NEW m \in Maps, NEW p \in Proposals, ApplyRevision(m, p) PROVE FALSE
      BY <3>4 DEF ApplyRevision
    <3> QED BY <3>1, <3>2, <3>3, <3>4
  <2>8. ~RenameWrite /\ ~(UNCHANGED vars)
    BY DEF RenameWrite, vars
  <2> QED BY <1>1, <2>2, <2>3, <2>4, <2>5, <2>6, <2>7, <2>8 DEF Next, Worker
<1> QED BY <1>1, Invariance, PTL DEF Spec, RecomputeKeepsRoadmaps

\* A RENAME gives every roadmap back the state it has, whatever came in between.
THEOREM RenamesKeepState == Spec => RenameKeepsState
<1>1. ASSUME IInv, [Next]_vars
      PROVE  rename.road # 0 /\ rename'.road = 0 => \A m \in Maps : road'[m].state = road[m].state
  <2> SUFFICES ASSUME rename.road # 0, rename'.road = 0
               PROVE  \A m \in Maps : road'[m].state = road[m].state
    OBVIOUS
  <2>1. rename' # rename /\ rename # NoRename
    BY DEF NoRename
  <2>2. CASE RenameWrite
    BY <1>1, <2>2, RenamesActivateSaved
  <2>3. ~ \E m \in Maps : \/ ActivateRoadmap(m) \/ ArchiveRoadmap(m) \/ RenameRead(m) \/ ExpireSource(m)
                          \/ \E k \in Kinds : CompleteStep(m, k) \/ \E new \in StepStates : SetStep(m, k, new)
                          \/ \E p \in Proposals : ApplyRevision(m, p)
    <3>1. ASSUME NEW m \in Maps, ActivateRoadmap(m) \/ ArchiveRoadmap(m) \/ RenameRead(m) \/ ExpireSource(m) PROVE FALSE
      BY <2>1, <3>1 DEF ActivateRoadmap, ArchiveRoadmap, RenameRead, ExpireSource
    <3>2. ASSUME NEW m \in Maps, NEW k \in Kinds, CompleteStep(m, k) PROVE FALSE
      BY <2>1, <3>2 DEF CompleteStep
    <3>3. ASSUME NEW m \in Maps, NEW k \in Kinds, NEW new \in StepStates, SetStep(m, k, new) PROVE FALSE
      BY <2>1, <3>3 DEF SetStep
    <3>4. ASSUME NEW m \in Maps, NEW p \in Proposals, ApplyRevision(m, p) PROVE FALSE
      BY <2>1, <3>4 DEF ApplyRevision
    <3> QED BY <3>1, <3>2, <3>3, <3>4
  <2>4. ~(EditProfile \/ \E e \in Events : DeleteCapability(e)) /\ ~ \E p \in Proposals : CreateRoadmap(p)
    BY <2>1 DEF EditProfile, DeleteCapability, CreateRoadmap
  <2>5. ~ \E g \in Goals : \/ \E status \in GoalStatuses, t \in Targets : MutateGoal(g, status, t)
                           \/ DeleteGoal(g) \/ \E p \in Proposals : Request(p, g)
    BY <2>1 DEF MutateGoal, DeleteGoal, Request
  <2>6. ~Worker /\ ~(UNCHANGED vars)
    BY <2>1 DEF Worker, Finalize, Reconcile, vars
  <2> QED BY <1>1, <2>2, <2>3, <2>4, <2>5, <2>6 DEF Next
<1> QED BY <1>1, Invariance, PTL DEF Spec, RenameKeepsState
=============================================================================
