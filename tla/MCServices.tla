---------------------------- MODULE MCServices ------------------------------
(***************************************************************************)
(* Small instances of the services around the store: the weekly calculator *)
(* and resume imports, the planner, the chat and its streams, the views,   *)
(* the catalog and graph reads, and the roles.  A behaviour follows one of *)
(* them; the others keep an initial state of theirs, or are off.           *)
(***************************************************************************)
EXTENDS Integers, Sequences, ResumeImport, Roles, SharedReads, TLC

VARIABLES
  part,   \* the component a behaviour follows
  job, packPc, cursor, remaining, waiting, ready, active, usedHours, placed,
  phase, input, problem, spent, runs, route, result,
  stage, graph, kept, selected, reads, context, usedCalls, outputs, round, warnings, emitted, partial, answer,
  run, free, lock, store, live, stale, lost,
  db, writes, view

On(component) == part = component
Off == "off"

------------------------------------------------------------------------------
\* The weekly calculator: three steps, with and without a completed one.
Orders == {<<1, 2, 3>>, <<2, 3, 1>>, <<2, 1, 3>>}
Needs == {(1 :> {} @@ 2 :> {} @@ 3 :> {}), (1 :> {} @@ 2 :> {1} @@ 3 :> {1, 2}),
          (1 :> {2} @@ 2 :> {1} @@ 3 :> {}), (1 :> {9} @@ 2 :> {1} @@ 3 :> {1})}
Efforts == {(1 :> 2 @@ 2 :> b @@ 3 :> c) : b \in {1, 3}, c \in {1, 2}}
Windows == {[weekday |-> 1, start |-> 0, end |-> 2], [weekday |-> 2, start |-> 1, end |-> 2]}
FreshJobs ==
  [start : {0, 5}, asOf : {4}, recommendedWeekly : {2}, custom : {TRUE}, order : Orders, hours : Efforts,
   prerequisites : Needs, completed : {{}}, fixed : {<<>>}, weekly : {3}, rests : {{}, {2}},
   excluded : {{3}}, windows : {{}, Windows}, planned : {<<>>, (1 :> 0 @@ 2 :> 8)}]
JobsWithHistory ==
  [start : {0}, asOf : {2}, recommendedWeekly : {2}, custom : {TRUE}, order : Orders, hours : Efforts,
   prerequisites : Needs, completed : {{1}}, fixed : {(1 :> {0, 1}), (1 :> {3, 6, 7})}, weekly : {2},
   rests : {{}}, excluded : {{}}, windows : {{}}, planned : {<<>>}]
PackJobs == FreshJobs \cup JobsWithHistory

WP == INSTANCE WeeklyPack WITH used <- usedHours, Jobs <- PackJobs, DayLen <- 3, WeekDays <- 2, MaxActive <- 2, MaxWeeks <- 3

\* Resume imports: r1 may ask for the model; r2 and r3 are alike.
MCImports == {"r1", "r2", "r3"}
MCAccounts == {"m1", "m2"}
MCAiImports == {"r1"}
MCSlotFiles == {"i1", "i2"}

------------------------------------------------------------------------------
\* The planner: catalogs of three actions over three requirements.
Action(h, o, pre, f, c) == [hours |-> h, outcomes |-> o, prereqs |-> pre, foundational |-> f, cost |-> c]
Unpriced == -1
Uncapped == -1
ActionCatalogs ==
  {[base |-> Action(1, {"k1"}, {}, TRUE, 1), deep |-> Action(2, {"k2", "k3"}, {"base"}, FALSE, 2),
    quick |-> Action(1, {"k2"}, {}, FALSE, Unpriced)],
   [base |-> Action(1, {"k1", "k3"}, {}, TRUE, 0), both |-> Action(3, {"k1", "k2"}, {}, FALSE, 1),
    next |-> Action(1, {"k2"}, {"base"}, FALSE, 1)],
   [both |-> Action(3, {"k1", "k2"}, {}, FALSE, 1), spare |-> Action(1, {"k3"}, {}, FALSE, 0)]}
Needed(n, e, c) == [necessity |-> n, entity |-> e, codes |-> c]
RoleBaselines == {[k1 |-> Needed("required", "e1", {}), k2 |-> Needed("required", "e2", {"x"}),
                   k3 |-> Needed("preferred", "e3", {})]}
Has(e, c, x) == [entity |-> e, credit |-> c, codes |-> x]
Person(c, e) == [capabilities |-> c, entitiesComplete |-> e, experienceComplete |-> {"e2"}]
People == {Person({}, TRUE), Person({Has("e1", 2, {})}, TRUE), Person({Has("e1", 2, {}), Has("e2", 1, {"x"})}, TRUE),
           Person({Has("e2", 2, {}), Has("e2", 0, {"x"})}, TRUE), Person({Has("e3", 1, {})}, FALSE), Person({Has("e1", 1, {})}, TRUE)}
Wish(w, cap, low, product) ==
  [weeklyHours |-> w, cap |-> cap, target |-> 6, lowCost |-> low, fastest |-> ~low, careerSwitch |-> TRUE,
   productRole |-> product, available |-> [a \in {} |-> Off]]
Wishes == {[Wish(2, Uncapped, FALSE, FALSE) EXCEPT !.available = [both |-> [from |-> 0, until |-> 4]]],
           Wish(1, Uncapped, FALSE, FALSE), Wish(2, 1, TRUE, FALSE), Wish(2, Uncapped, TRUE, TRUE), Wish(2, 3, FALSE, FALSE)}
Hour(a, w) == [at |-> a, week |-> w]
StudyCalendars == {<<Hour(0, 1), Hour(1, 1), Hour(2, 1), Hour(4, 2)>>, <<Hour(0, 1), Hour(3, 2), Hour(5, 2)>>}
PL == INSTANCE Planner WITH Catalogs <- ActionCatalogs, Baselines <- RoleBaselines, Profiles <- People,
        Preferences <- Wishes, Calendars <- StudyCalendars, ScoreMax <- 100, SlowBuild <- 1

------------------------------------------------------------------------------
\* The chat: a question about a posting and a requirement.
ChatNodes == {"profile", "goal", "job", "occ", "unit", "req", "skill", "spec"}
ChatKinds == [profile |-> "profile", goal |-> "goal", job |-> "posting", occ |-> "ncs_occupation",
              unit |-> "ncs_competency", req |-> "ncs_competency", skill |-> "onet_skill", spec |-> "capability"]
ChatRanks == [n \in ChatNodes |-> CASE n = "skill" -> 2 [] n = "spec" -> 1 [] OTHER -> 0]
Graph(ns, es) == [nodes |-> ns, edges |-> es]
Edge(a, b, label) == [source |-> a, target |-> b, kind |-> label]
NodeAnswers == [n \in ChatNodes |-> IF n = "job" THEN Graph(<<"job", "occ">>, <<Edge("job", "occ", "CURRENT_CLASSIFICATION")>>)
                                    ELSE Graph(<<n>>, <<>>)]
ExpandAnswers == [n \in ChatNodes |-> CASE n = "occ" -> Graph(<<"occ", "unit">>, <<Edge("occ", "unit", "HAS")>>)
                                        [] n = "unit" -> Graph(<<"unit", "skill">>, <<Edge("unit", "skill", "CROSSWALK")>>)
                                        [] OTHER -> Graph(<<n>>, <<>>)]
ChatBatches ==
  {<<>>, <<<<"c1", "expand_connections", "req">>, <<"c1", "search_catalog", "job">>>>,
   <<<<"c1", "read_personal_records", "job">>, <<"c2", "search_catalog", "job">>>>,
   <<<<"c1", "get_posting", "job">>, <<"c2", "expand_connections", "skill">>>>,
   <<<<"c2", "search_postings", "occ">>, <<"c3", "read_personal_records", "job">>>>,
   <<<<"c3", "expand_connections", "req">>>>,
   <<<<"c1", "search_catalog", "job">>, <<"c2", "search_catalog", "job">>, <<"c3", "search_catalog", "job">>,
     <<"c1", "search_catalog", "job">>>>}
InCatalog == [n \in ChatNodes |-> IF n = "req" THEN "unit" ELSE n]
FirstEvidence == Graph(<<"profile", "req">>, <<>>)
Searches == {Graph(<<"skill", "unit">>, <<Edge("skill", "unit", "CROSSWALK")>>), Graph(<<"goal">>, <<>>)}
PersonalAnswers == {Graph(<<"profile", "spec">>, <<Edge("profile", "spec", "REPORTED")>>)}
Picks == {ChatNodes, {"occ"}}
Suggestions == {<<>>, <<Edge("job", "goal", "SUGGESTED_LINK")>>, <<Edge("job", "req", "SUGGESTED_LINK")>>}
Calls3 == {"c1", "c2", "c3"}
CH == INSTANCE Chat WITH focus <- selected, used <- usedCalls, NodeIds <- ChatNodes, KindOf <- ChatKinds, Rank <- ChatRanks,
        Catalogued <- InCatalog, InitialGraph <- FirstEvidence, FocusIds <- <<"job", "req">>,
        NodeReads <- NodeAnswers, ExpandReads <- ExpandAnswers, SearchReads <- Searches, PersonalReads <- PersonalAnswers,
        CallIds <- Calls3, Batches <- ChatBatches, AnswerPicks <- Picks, Proposals <- Suggestions,
        NodeCap <- 6, EdgeCap <- 4, RootCap <- 1, HopLimit <- 3, LedgerCap <- 4, TopRanked <- 1, TopConnected <- 1,
        MaxReply <- 2, MaxRounds <- 2, MaxCalls <- 2, MaxRequested <- 3, InFlight <- 1

\* Three streams on two processes that share a stored login.
Processes == [s1 |-> "h1", s2 |-> "h1", s3 |-> "h2"]
CS == INSTANCE ChatStreams WITH Streams <- {"s1", "s2", "s3"}, Hosts <- {"h1", "h2"}, HostOf <- Processes,
        StreamSlots <- 2, RefreshEnabled <- TRUE, MaxProviderCalls <- 1, MaxGeneration <- 1, MaxLogin <- 1

------------------------------------------------------------------------------
\* The views of two goals, of which one has two roadmaps.
Positions == [a |-> 1, b |-> 2, c |-> 3]
Prerequisites == [a |-> {}, b |-> {"a"}, c |-> {}]
ProposedSteps == {<<"c", "a", "d">>, <<"d", "a", "c">>, <<"b", "c">>}
RoadGoals == [r1 |-> "g1", r2 |-> "g1"]
VW == INSTANCE Views WITH Goals <- {"g1", "g2"}, Roads <- {"r1", "r2"}, Steps <- {"a", "b", "c"}, Position <- Positions,
        Requires <- Prerequisites, Proposals <- ProposedSteps, GoalOf <- RoadGoals, MaxWrites <- 3

\* Three crosswalk reads about two nodes.
ReadKinds == [c1 |-> "expand", c2 |-> "expand", c3 |-> "route"]
TwoNodes == {"n1", "n2"}

------------------------------------------------------------------------------
\* The role release: catalogs that differ in versions, evidence and links.
Unit(b, v, n, l, o) == [base |-> b, ver |-> v, name |-> n, level |-> l, old |-> o]
FirstCatalog ==
  [runs |-> 1, units |-> {Unit("a", 1, "A", 3, FALSE), Unit("a", 2, "A2", 6, FALSE), Unit("b", 1, "B", 7, FALSE)},
   quals |-> {[base |-> "a", ver |-> 2, hours |-> 4], [base |-> "a", ver |-> 2, hours |-> 8]},
   evidence |-> {<<"a", 1>>}, links |-> <<{<<"a", 1>>, <<"a", 2>>}, {<<"b", 1>>}, {<<"a", 2>>}>>]
NextCatalog ==
  [runs |-> 1, units |-> {Unit("a", 3, "A3", 6, FALSE), Unit("b", 2, "B", 7, TRUE)},
   quals |-> {}, evidence |-> {}, links |-> <<{<<"a", 1>>}>>]
RoleCatalogs == {FirstCatalog, NextCatalog}
TwoItems == [i1 |-> <<"a", "b">>, i2 |-> <<"b">>]
SavedSpecs == {[kind |-> "skill", bases |-> {"a"}, evidence |-> TRUE, credit |-> 2, label |-> "s"],
               [kind |-> "certification", bases |-> {"b"}, evidence |-> TRUE, credit |-> 3, label |-> "B", from |-> 1, until |-> 1]}

------------------------------------------------------------------------------
\* Graph reads: what Neo4j may answer to each query.
Rows(found) == [kind |-> "rows", fields |-> TRUE, rows |-> found]
TimedOut == [kind |-> "timeout", fields |-> TRUE, rows |-> <<>>]
OddFields == [kind |-> "rows", fields |-> FALSE, rows |-> <<>>]
Of(p, i) == [pub |-> p, id |-> i]
Id(i) == [id |-> i]
Ncs(i, p, x, o) == [id |-> i, postings |-> p, excluded |-> x, units |-> {"u"}, quals |-> {"q"}, onet |-> o]
Onet(i) == [id |-> i, skills |-> {"s"}, techs |-> {"t"}]
GraphReplies ==
  [occupations |-> {TimedOut, OddFields, Rows(<<Id("o1")>>), Rows(<<Id("o1"), Id("o1")>>), Rows(<<Id("o1"), Id("o2"), Id("o3")>>)},
   publications |-> {Rows(<<Id("p")>>)},
   publication |-> {TimedOut, Rows(<<>>), Rows(<<Id("p")>>), Rows(<<Id("x")>>), Rows(<<Id("p"), Id("p")>>)},
   enrichment |-> {Rows(<<>>), Rows(<<Id("p")>>)},
   alignments |-> {Rows(<<Of("p", 1), Of("p", 2)>>), Rows(<<Of("p", 1), Of("p", 1)>>), Rows(<<Of("x", 1)>>)},
   ncs |-> {TimedOut, Rows(<<Ncs("n1", 1, 0, {"o1"}), Ncs("n2", 0, 0, {"o1", "o2"})>>), Rows(<<Ncs("n1", 0, 1, {})>>)},
   context |-> {Rows(<<>>), Rows(<<[id |-> "o2", postings |-> 2]>>)},
   onet |-> {Rows(<<Onet("o1")>>), Rows(<<Onet("o2"), Onet("o9")>>), TimedOut}]
Operations == [c1 |-> "alignments", c2 |-> "graph", c3 |-> "occupations", c4 |-> "unknown_role"]
PageLimits == [c1 |-> 2, c2 |-> 2, c3 |-> 2, c4 |-> 2]
MCReaders == DOMAIN Operations

\* These instances are ones the theorems speak of.
ASSUME ServicesAssumption == ImportConstants /\ RoleConstants /\ CatalogConstants /\ GraphConstants
                          /\ CS!StreamsConstants /\ CH!ChatConstants

------------------------------------------------------------------------------
packVars    == <<job, packPc, cursor, remaining, waiting, ready, active, usedHours, placed>>
plannerVars == <<phase, input, problem, spent, runs, route, result>>
chatVars    == <<stage, graph, kept, selected, reads, context, usedCalls, outputs, round, warnings, emitted, partial, answer>>
streamVars  == <<run, free, lock, store, live, stale, lost>>
viewVars    == <<db, writes, view>>
roleVars    == vars
serviceVars == <<part, packVars, importVars, plannerVars, chatVars, streamVars, viewVars, catalogVars, roleVars, graphVars>>

Parts == {"pack", "slots", "analysis", "planner", "chat", "streams", "views", "catalog", "roles", "graph"}
Importing == part \in {"slots", "analysis"}

ServicesInit ==
  /\ part \in Parts
  /\ IF On("pack") THEN WP!PackInit
     ELSE /\ job = Off /\ packPc = Off /\ cursor = Off /\ remaining = Off /\ waiting = Off
          /\ ready = Off /\ active = Off /\ usedHours = Off /\ placed = Off
  /\ IF On("planner") THEN PL!Init
     ELSE /\ phase = Off /\ input = Off /\ problem = Off /\ spent = Off /\ runs = Off /\ route = Off
          /\ result = Off
  /\ IF On("chat") THEN CH!ChatInit
     ELSE /\ stage = Off /\ graph = Off /\ kept = Off /\ selected = Off /\ reads = Off
          /\ context = Off /\ usedCalls = Off /\ outputs = Off /\ round = Off /\ warnings = Off
          /\ emitted = Off /\ partial = Off /\ answer = Off
  /\ IF On("streams") THEN CS!StreamsInit
     ELSE /\ run = Off /\ free = Off /\ lock = Off /\ store = Off /\ live = Off /\ stale = Off
          /\ lost = Off
  /\ IF On("views") THEN VW!ViewsInit
     ELSE /\ db = Off /\ writes = Off /\ view = Off
  /\ ImportInit /\ GraphInit
  /\ CatalogInit
  /\ call["c1"].node = "n1"   \* nodes are alike; one page has two callers, another evicts it
  /\ IF On("catalog") THEN call["c2"].node # call["c3"].node ELSE \A c \in Calls : call[c].node = "n1"
  /\ Init
  /\ content = FirstCatalog

\* Only the variables of the component in focus change.
Rest ==
  /\ UNCHANGED part
  /\ IF On("pack") THEN TRUE ELSE UNCHANGED packVars
  /\ IF Importing THEN TRUE ELSE UNCHANGED importVars
  /\ IF On("planner") THEN TRUE ELSE UNCHANGED plannerVars
  /\ IF On("chat") THEN TRUE ELSE UNCHANGED chatVars
  /\ IF On("streams") THEN TRUE ELSE UNCHANGED streamVars
  /\ IF On("views") THEN TRUE ELSE UNCHANGED viewVars
  /\ IF On("catalog") THEN TRUE ELSE UNCHANGED catalogVars
  /\ IF On("roles") THEN TRUE ELSE UNCHANGED roleVars
  /\ IF On("graph") THEN TRUE ELSE UNCHANGED graphVars

\* r2 comes before r3, and the first import is m1's in slot i1: the others are their
\* like.  One limit has three imports without a model, the other two with one.
ImportsInOrder ==
  /\ imp'["r3"].pc # "new" => imp'["r2"].pc # "new"
  /\ (\A r \in DOMAIN imp : imp[r].pc = "new") =>
       slot'["i2"].holder = Nobody /\ \A r \in DOMAIN imp : imp'[r].account \in {Nobody, "m1"}
  /\ IF On("slots") THEN ~imp'["r1"].ai ELSE imp'["r3"].pc = "new"

\* The catalog of the roles is replaced once, by one that lost a unit.
CatalogReplaced == content' # content => content' = NextCatalog

\* Of two expansions of one node, c1 begins.
ExpansionsInOrder == call["c2"].node = "n1" /\ call'["c2"].pc # "new" => call'["c1"].pc # "new"

Pack    == On("pack") /\ WP!PackNext /\ Rest
Import  == Importing /\ ImportNext /\ ImportsInOrder /\ Rest
Route   == On("planner") /\ PL!Next /\ Rest
Ask     == On("chat") /\ CH!ChatNext /\ Rest
Stream  == On("streams") /\ CS!StreamsNext /\ Rest
See     == On("views") /\ VW!ViewsNext /\ Rest
Read    == On("catalog") /\ CatalogNext /\ ExpansionsInOrder /\ Rest
Serve   == On("roles") /\ Next /\ CatalogReplaced /\ Rest
Query   == On("graph") /\ GraphNext /\ Rest

ServicesNext == Pack \/ Import \/ Route \/ Ask \/ Stream \/ See \/ Read \/ Serve \/ Query
ServicesSpec == ServicesInit /\ [][ServicesNext]_serviceVars

------------------------------------------------------------------------------
(* What each component promises: the conjunction of its module's properties, where the parts   *)
(* are stated one by one.  ImportsContained, ReadsExact and RolesPinned are their modules' own.*)

\* The weekly calculator (_pack) places every requested hour once, leaves no capacity idle,
\* respects prerequisites and keeps two activities in progress at most.
HoursWellPlaced ==
  On("pack") => /\ WP!PackTypeOK /\ WP!HoursPlacedOnce /\ WP!CapacityIsUsed
                /\ WP!PrerequisitesFirst /\ WP!FewInProgress
\* A plan is sound: its hint is a route, "infeasible" is true, its label is right, what a step
\* needs comes first or is proven, an optimal partial route covers most, and one budget bounds
\* both searches (CpSatPlanner).
PlansSound ==
  On("planner") => /\ PL!HintIsRoute /\ PL!InfeasibleIsTrue /\ PL!LabelsMatchRoute /\ PL!NeedsMet
                   /\ PL!PartialCoversMost /\ PL!OneBudget /\ PL!OnlyProvenSkipped
\* An answer rests on the graph it is sent with: the account's evidence and the surroundings of
\* the selection stay in it, calls are settled once, and streams give back their slots and
\* share a login that stays valid (WorkspaceChat, ChatGptOAuthClient).
ChatGrounded ==
  /\ On("chat") => /\ CH!EvidenceStays /\ CH!CallsSettled /\ CH!AnswerGrounded
                   /\ CH!SurroundingsReachPrompt
  /\ On("streams") => CS!StreamsSound
\* A view that is read in several statements is of one goal and one version, recommends what
\* can be done, and its diff adds up; a role's graph hangs together (get_roadmap,
\* load_next_actions, get_roadmap_diff, role_evidence_graph.py).
ViewsConsistent ==
  /\ On("views") => /\ VW!VersionNamesWhatWasSeen /\ VW!ActionsCanBeTaken
                    /\ VW!ViewOfOneGoal /\ VW!DiffAddsUp
  /\ On("graph") => GraphHangsTogether
=============================================================================
