----------------------------- MODULE MCProgress -----------------------------
(***************************************************************************)
(* What must eventually happen, component by component.  A behaviour       *)
(* follows one of them; the others keep their initial state.  The fairness *)
(* is each component's own, stated for the component in focus.             *)
(***************************************************************************)
EXTENDS Integers, Sequences, TLC

VARIABLES
  focus,
  rmVersion, rmLatest, rmGoal, prop, road, event, cap, rename,
  clock, record, rowLock, account, pc, kReq, deleted, effects, answer, submitted,
  pJob, packPc, cursor, remaining, waiting, ready, active, used, placed,
  slot, imp, child, folder, task, tally,
  run, free, lock, store, live, stale, lost,
  now, call, cell, inflight, pages, reader, cache,
  content, approval, proc, rows, version, requests, day, restarts,
  query, closed, sent

CONSTANTS g1, o1, NoGoal, NoOcc, NoKind

RM == INSTANCE Roadmaps WITH version <- rmVersion, latest <- rmLatest, goal <- rmGoal,
        Goals <- {g1}, Occupations <- {o1}, Kinds <- {}, MaxProposals <- 2, MaxRoadmaps <- 2,
        MaxEvents <- 0, MaxVersion <- 3, MaxRoadmapVersion <- 3,
        GoalStatuses <- {"DRAFT", "ACTIVE", "ARCHIVED"}, Explored <- {"expire"}

Names == <<"p1", "p2", "p3">>   \* of the processes of a component
FirstTwo == {"p1", "p2"}

KR == INSTANCE KeyedRequests WITH req <- kReq, Users <- {"u1", "u2"}, Keys <- {"k"}, Payloads <- {"h"},
        Handlers <- FirstTwo, TTL <- 1, PruneLimit <- 1, MaxTime <- 1, MaxRequests <- 2

Orders == {<<1, 2, 3>>, <<2, 3, 1>>}
Needs == {(1 :> {} @@ 2 :> {1} @@ 3 :> {1, 2}), (1 :> {2} @@ 2 :> {1} @@ 3 :> {}), (1 :> {9} @@ 2 :> {1} @@ 3 :> {1})}
PackJobs ==
  [start : {0, 5}, asOf : {4}, recommendedWeekly : {2}, custom : {TRUE}, order : Orders,
   hours : {(1 :> 2 @@ 2 :> 3 @@ 3 :> 1)}, prerequisites : Needs, completed : {{}}, fixed : {<<>>},
   weekly : {3}, rests : {{}, {2}}, excluded : {{3}}, windows : {{}, {[weekday |-> 1, start |-> 0, end |-> 2]}},
   planned : {<<>>, (1 :> 0 @@ 2 :> 8)}]
WP == INSTANCE WeeklyPack WITH job <- pJob, Jobs <- PackJobs, DayLen <- 3, WeekDays <- 2, MaxActive <- 2, MaxWeeks <- 3

RI == INSTANCE ResumeImport WITH Imports <- FirstTwo, ImportAccounts <- {"m"}, AiImports <- {"p1"}, SlotFiles <- {1},
        Blocks <- {1}, AiConcurrency <- 1, MaxSuggestions <- 1, MaxFound <- 1

CS == INSTANCE ChatStreams WITH Streams <- FirstTwo, Hosts <- {"h"}, HostOf <- [s \in FirstTwo |-> "h"], StreamSlots <- 1,
        RefreshEnabled <- TRUE, MaxProviderCalls <- 1, MaxGeneration <- 1, MaxLogin <- 0

CR == INSTANCE CatalogReads WITH turn <- reader, Calls <- {"p1", "p2", "p3"}, CatalogNodes <- {"n"},
        KindOf <- [c \in {"p1", "p2", "p3"} |-> IF c = "p3" THEN "route" ELSE "expand"], TTL <- 1, CacheCap <- 1, MaxTime <- 0

Unit(b, v, n, l) == [base |-> b, ver |-> v, name |-> n, level |-> l, old |-> FALSE]
Catalogs ==
  {[runs |-> 1, units |-> {Unit("a", 1, "A", 3), Unit("a", 2, "A2", 6)}, quals |-> {}, evidence |-> {}, links |-> <<{<<"a", 1>>}>>],
   [runs |-> 2, units |-> {Unit("a", 1, "A", 3)}, quals |-> {}, evidence |-> {}, links |-> <<>>]}
RO == INSTANCE Roles WITH Contents <- Catalogs, Items <- [i |-> <<"a", "b">>],
        Specs <- {[kind |-> "skill", bases |-> {"a"}, evidence |-> TRUE, credit |-> 2, label |-> "s"]},
        MinBase <- 2, DefaultHours <- 20, MaxEdits <- 0, MaxRestarts <- 2

Rows(found) == [kind |-> "rows", fields |-> TRUE, rows |-> found]
Id(i) == [id |-> i]
GR == INSTANCE GraphReads WITH Readers <- 1 .. 3, OpOf <- <<"alignments", "occupations", "unknown_role">>,
        LimitOf <- <<2, 2, 2>>, Source <- "neo4j", MaxInFlight <- 1, MaxRows <- 2, Pub <- "p", Context <- TRUE,
        Replies <- [q \in {"occupations", "publications", "publication", "enrichment", "alignments"} |->
          IF q = "alignments" THEN {Rows(<<[pub |-> "p", id |-> 1]>>)}
          ELSE {Rows(<<Id("p")>>), [kind |-> "timeout", fields |-> TRUE, rows |-> <<>>]}]

------------------------------------------------------------------------------
roadmapVars == <<rmVersion, rmLatest, rmGoal, prop, road, event, cap, rename>>
keyedVars   == <<clock, record, rowLock, account, pc, kReq, deleted, effects, answer, submitted>>
packVars    == <<pJob, packPc, cursor, remaining, waiting, ready, active, used, placed>>
importVars  == <<slot, imp, child, folder, task, tally>>
streamVars  == <<run, free, lock, store, live, stale, lost>>
catalogVars == <<now, call, cell, inflight, pages, reader, cache>>
roleVars    == <<content, approval, proc, rows, version, requests, day, restarts>>
graphVars   == <<query, closed, sent>>
allVars     == <<focus, roadmapVars, keyedVars, packVars, importVars, streamVars, catalogVars, roleVars, graphVars>>

On(component) == focus = component
Components == {"roadmaps", "keyed", "pack", "import", "streams", "catalog", "roles", "graph"}

ProgressInit ==
  /\ focus \in Components
  /\ RM!Init /\ KR!KeyedInit /\ WP!PackInit /\ RI!ImportInit /\ CS!StreamsInit /\ CR!CatalogInit /\ RO!Init /\ GR!GraphInit
  /\ On("keyed") \/ effects = {}
  /\ On("roles") \/ content = CHOOSE c \in Catalogs : TRUE

\* Handlers, and users, are interchangeable: the first request is p1's, of u1.
FirstIsFirst == submitted = 0 /\ submitted' = 1 => pc'["p2"] = "idle" /\ kReq'["p1"].user = "u1"

Roadmaps == /\ On("roadmaps") /\ RM!Next
            /\ UNCHANGED <<focus, keyedVars, packVars, importVars, streamVars, catalogVars, roleVars, graphVars>>
Keyed    == /\ On("keyed") /\ KR!KeyedNext /\ FirstIsFirst
            /\ UNCHANGED <<focus, roadmapVars, packVars, importVars, streamVars, catalogVars, roleVars, graphVars>>
Pack     == /\ On("pack") /\ WP!PackNext
            /\ UNCHANGED <<focus, roadmapVars, keyedVars, importVars, streamVars, catalogVars, roleVars, graphVars>>
Import   == /\ On("import") /\ RI!ImportNext
            /\ UNCHANGED <<focus, roadmapVars, keyedVars, packVars, streamVars, catalogVars, roleVars, graphVars>>
Stream   == /\ On("streams") /\ CS!StreamsNext
            /\ UNCHANGED <<focus, roadmapVars, keyedVars, packVars, importVars, catalogVars, roleVars, graphVars>>
Catalog  == /\ On("catalog") /\ CR!CatalogNext /\ (call'["p2"].pc # "new" => call'["p1"].pc # "new")
            /\ UNCHANGED <<focus, roadmapVars, keyedVars, packVars, importVars, streamVars, roleVars, graphVars>>
Role     == /\ On("roles") /\ RO!Next
            /\ UNCHANGED <<focus, roadmapVars, keyedVars, packVars, importVars, streamVars, catalogVars, graphVars>>
Graph    == /\ On("graph") /\ GR!GraphNext
            /\ UNCHANGED <<focus, roadmapVars, keyedVars, packVars, importVars, streamVars, catalogVars, roleVars>>
ProgressNext == Roadmaps \/ Keyed \/ Pack \/ Import \/ Stream \/ Catalog \/ Role \/ Graph

\* The fairness of the component in focus.  As focus never changes, fairness
\* of a choice among components is fairness of each: process k of every
\* component shares one condition.  Loops of workers go round; handlers, parsers and
\* streams have deadlines (ImportStep, Fail, Acquire within two seconds, a stream within 75);
\* an event loop runs every task that can run, a query is answered or fails within its
\* budget, and locks and limiters serve their waiters in turn (Strong).
WeakFirst(k) ==
  \/ On("roadmaps") /\ k \in 1 .. 2 /\ RM!Reconcile(k)
  \/ On("keyed") /\ k \in 1 .. 2 /\ KR!HandlerStep(Names[k])
  \/ On("pack") /\ k = 1 /\ (WP!GiveUp \/ WP!Skip \/ WP!Work \/ WP!Finish)
  \/ On("import") /\ k \in 1 .. 2 /\ RI!ImportStep(Names[k])
  \/ On("streams") /\ k \in 1 .. 2 /\ CS!Open(Names[k])
  \/ On("catalog") /\ (CR!ReadPage(Names[k]) \/ CR!FailPage(Names[k]))
  \/ On("roles") /\ k = 1 /\ RO!Start
  \/ On("graph") /\ GR!Begin(k)
WeakSecond(k) ==
  \/ On("import") /\ k \in 1 .. 2 /\ RI!ChildAlarm(Names[k])
  \/ On("streams") /\ k \in 1 .. 2 /\ (CS!Acquire(Names[k]) \/ CS!Busy(Names[k]))
  \/ On("roles") /\ k = 1 /\ RO!RunWorker
  \/ On("graph") /\ GR!Receive(k)
WeakThird(k) ==
  \/ On("import") /\ k \in 1 .. 2 /\ (RI!Age(Names[k]) \/ RI!Sweep(Names[k]))
  \/ On("streams") /\ k \in 1 .. 2 /\ CS!Fail(Names[k])
Strong(k) ==
  \/ On("catalog") /\ CR!Finish(Names[k])
  \/ On("roles") /\ k = 1 /\ RO!RetryLoad /\ ~proc'.retryable
  \/ On("graph") /\ GR!Send(k)
focusVars ==
  CASE On("roadmaps") -> roadmapVars [] On("keyed") -> keyedVars [] On("pack") -> packVars [] On("import") -> importVars
    [] On("streams") -> streamVars [] On("catalog") -> catalogVars [] On("roles") -> roleVars [] On("graph") -> graphVars
Stays == UNCHANGED focus
ProgressFairness ==
  \A k \in 1 .. 3 : /\ WF_focusVars(Stays /\ WeakFirst(k)) /\ WF_focusVars(Stays /\ WeakSecond(k))
                    /\ WF_focusVars(Stays /\ WeakThird(k)) /\ SF_focusVars(Stays /\ Strong(k))

ProgressSpec == ProgressInit /\ [][ProgressNext]_allVars /\ ProgressFairness

------------------------------------------------------------------------------
\* The follow-up work of a finalization is settled (_reconcile_auto_roadmap).
AutoRoadmapSettles == On("roadmaps") => RM!AutoRoadmapSettles
\* Everything a service begins, it ends: keyed requests and reads are answered, the weekly
\* calculator stops, resume slots come back and leftovers are reaped, chat streams end, and a
\* failed load of the roles is retried to an end.
ServicesEnd ==
  /\ On("keyed") => KR!RequestsAnswered
  /\ On("pack") => WP!PackEnds
  /\ On("import") => RI!SlotsComeBack
  /\ On("import") => RI!LeftoversReaped
  /\ On("streams") => CS!StreamsEnd
  /\ On("catalog") => CR!CallsAnswered
  /\ On("roles") => RO!RetryEnds
  /\ On("graph") => GR!ReadsAnswered
=============================================================================
