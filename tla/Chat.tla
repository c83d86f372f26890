-------------------------------- MODULE Chat --------------------------------
(***************************************************************************)
(* One answer of the chat workspace (chat/workspace.py _events): the       *)
(* account's evidence graph is extended by reads of the selected items,    *)
(* by automatic expansions and by the model's tool calls, several of them  *)
(* in flight, then cut to a ledger of sources from which the streamed      *)
(* answer may cite.                                                        *)
(*                                                                         *)
(* A node is a model value with a kind; a graph is a sequence of nodes and *)
(* a sequence of edges, both in the order of the code's dictionaries.      *)
(* Texts are left out; a source's rank against the question is a constant. *)
(* The client leaving, the deadlines and uncaught read errors are Abandon. *)
(***************************************************************************)
EXTENDS Integers, SequencesExt

CONSTANTS NodeIds, KindOf, Rank,      \* every node, its kind, its rank for the question
          Catalogued,                 \* Catalogued[n]: the id the catalog knows n by (None: no entry)
          InitialGraph, FocusIds,     \* personal evidence, and the items the user selected
          NodeReads, ExpandReads,     \* [NodeIds -> graph]: what the catalog answers
          SearchReads, PersonalReads, \* sets of graphs: what a search or a personal read may find
          CallIds, Batches,           \* call ids, and the sequences <<id, tool, node>> a model may ask for
          AnswerPicks, Proposals,     \* sets of nodes, and connections, a model may name
          NodeCap, EdgeCap, RootCap,  \* 160, 320, 16
          HopLimit,                   \* nodes of a focused neighbourhood (24)
          LedgerCap, TopRanked, TopConnected,        \* 32, 8, 16
          MaxReply,                   \* bound: length of a reply
          MaxRounds, MaxCalls, MaxRequested, InFlight \* 3, 6, 12, 3

\* The calls of a model are lists, of ids the model makes up.
ChatConstants ==
  /\ MaxCalls \in Nat
  /\ \A calls \in Batches : calls \in Seq(Range(calls)) /\ \A i \in DOMAIN calls : calls[i][1] \in CallIds

VARIABLES stage,     \* "selected", "focused", "planning", "reading", "answering", "done" or "gone"
          graph,     \* the evidence so far
          kept,      \* protected_node_ids
          focus,     \* the selected items that exist
          reads,     \* reads[c]: the calls of the current batch
          context,   \* the graph the calls of a round may refer to
          used,      \* used_calls
          outputs,   \* ids with a function_call_output in the conversation
          round, warnings,
          emitted, partial,   \* text sent as answer_delta, and the reply parsed so far
          answer     \* the answer event

chatVars == <<stage, graph, kept, focus, reads, context, used, outputs, round, warnings,
              emitted, partial, answer>>

None == "none"
EmptyGraph == [nodes |-> <<>>, edges |-> <<>>]
NoAnswer == [sources |-> {}, ledger |-> {}, nodes |-> {}, edges |-> {}, reply |-> <<>>, neighbours |-> {}]
Nodes(g) == ToSet(g.nodes)
Take(s, n) == [i \in DOMAIN s \cap (1..n) |-> s[i]]
Latest(s, n) == SubSeq(s, IF n < Len(s) THEN Len(s) - n + 1 ELSE 1, Len(s))
Distinct(s) ==
  LET d[i \in 0..Len(s)] == IF i = 0 THEN <<>>
                            ELSE LET before == d[i - 1]
                                 IN IF Contains(before, s[i]) THEN before ELSE Append(before, s[i])
  IN d[Len(s)]
Edge(s, t, kind) == [source |-> s, target |-> t, kind |-> kind]

RootKinds == {"profile", "goal", "role", "preferences"}
\* onet_technology and posting_group are the technologies and groups with a catalog id.
CatalogKinds == {"role", "ncs_occupation", "ncs_competency", "onet_occupation", "onet_skill",
                 "onet_technology", "posting_group"}

\* A dictionary updated by a later one: what is found again moves to the end.
Refreshed(old, new) == SelectSeq(old, LAMBDA x : ~Contains(new, x)) \o new

\* Mutant: only the newest nodes are kept.
KeptNodesLatest(all, protected) == Latest(all, NodeCap)

\* merge_graphs: protected nodes first, then the account's roots, then the newest.
KeptNodes(all, protected) ==
  LET first == Take(SelectSeq(all, LAMBDA n : n \in protected), NodeCap)
      roots == Take(SelectSeq(all, LAMBDA n : ~Contains(first, n) /\ KindOf[n] \in RootKinds),
                    IF RootCap < NodeCap - Len(first) THEN RootCap ELSE NodeCap - Len(first))
      safe  == first \o roots
  IN safe \o Latest(SelectSeq(all, LAMBDA n : ~Contains(safe, n)), NodeCap - Len(safe))

KeptEdges(all, protected) ==
  LET Personal(e) == e.source \in protected \/ e.target \in protected
      personal == Take(SelectSeq(all, Personal), EdgeCap)
  IN personal \o Latest(SelectSeq(all, LAMBDA e : ~Contains(personal, e)), EdgeCap - Len(personal))

MergeGraphs(g, h, protected) ==
  LET nodes == KeptNodes(Refreshed(g.nodes, h.nodes), protected)
      Inside(e) == Contains(nodes, e.source) /\ Contains(nodes, e.target)
  IN [nodes |-> nodes,
      edges |-> KeptEdges(Refreshed(SelectSeq(g.edges, Inside), SelectSeq(h.edges, Inside)), protected)]

-----------------------------------------------------------------------------
\* focus_neighborhood: three hops from the selected items, one node of each parent in turn.
Neighbours(g, parent, seen, fromPosting) ==
  LET Other(e) == IF e.source = parent THEN e.target ELSE IF e.target = parent THEN e.source ELSE None
      Fresh(n) == /\ n \in Nodes(g) /\ ~Contains(seen, n)
                  /\ ~(fromPosting /\ KindOf[n] \in {"posting", "posting_evidence", "posting_group"})
  IN Distinct(SelectSeq([i \in 1..Len(g.edges) |-> Other(g.edges[i])], Fresh))

InTurn(rows) ==
  LET width == Max({0} \cup {Len(rows[i]) : i \in 1..Len(rows)})
      Column(i) == LET long == SelectSeq(rows, LAMBDA row : i <= Len(row)) IN [j \in 1..Len(long) |-> long[j][i]]
  IN Distinct(FlattenSeq([i \in 1..width |-> Column(i)]))

\* The nodes kept around the selected items, those items first.
FocusNeighbourhood(g, selected) ==
  LET start == Distinct(SelectSeq(selected, LAMBDA n : n \in Nodes(g)))
      fromPosting == \E i \in 1..Len(start) : KindOf[start[i]] = "posting"
      Hop(acc) ==
        LET next == InTurn([j \in 1..Len(acc.frontier) |->
                              Neighbours(g, acc.frontier[j], acc.seen, fromPosting)])
            new  == Take(next, IF Len(acc.seen) < HopLimit THEN HopLimit - Len(acc.seen) ELSE 0)
        IN [seen |-> acc.seen \o new, frontier |-> new]
  IN Hop(Hop(Hop([seen |-> start, frontier |-> start]))).seen

\* with_catalog_reference: a requirement keeps its identity beside the catalog's entry.
WithReference(found, node, id) ==
  IF node = id \/ id \notin Nodes(found) THEN found
  ELSE MergeGraphs(found, [nodes |-> <<node>>, edges |-> <<Edge(node, id, "CATALOG_REFERENCE")>>], {})

-----------------------------------------------------------------------------
ChatInit ==
  /\ stage = "selected"
  /\ graph = InitialGraph /\ kept = Nodes(InitialGraph)
  /\ focus = Take(Distinct(FocusIds), 3)
  /\ reads = [c \in CallIds |-> [at |-> "none"]]
  /\ context = InitialGraph
  /\ used = {} /\ outputs = {} /\ round = 0 /\ warnings = {}
  /\ emitted = <<>> /\ partial = <<>> /\ answer = NoAnswer

\* A selected item is read from the catalog when it is not there yet, or is a posting.
ReadSelected ==
  /\ stage = "selected" /\ focus # <<>>
  /\ focus' = Tail(focus)
  /\ \/ /\ Head(focus) \notin Nodes(graph) \/ KindOf[Head(focus)] = "posting"
        /\ \/ graph' = MergeGraphs(graph, NodeReads[Head(focus)], kept) /\ UNCHANGED warnings
           \/ warnings' = warnings \cup {"FOCUSED_SOURCE_UNAVAILABLE"} /\ UNCHANGED graph
     \/ /\ Head(focus) \in Nodes(graph) /\ KindOf[Head(focus)] # "posting"
        /\ UNCHANGED <<graph, warnings>>
  /\ UNCHANGED <<stage, kept, reads, context, used, outputs, round, emitted, partial, answer>>

\* The catalog entries to expand for the selected items: a posting's current occupations,
\* one per scheme, otherwise the item itself; two at most.
Classified(g, posting, kind) ==
  Take(SelectSeq(g.nodes, LAMBDA n : /\ KindOf[n] = kind
                                     /\ Contains(g.edges, Edge(posting, n, "CURRENT_CLASSIFICATION"))), 1)
Automatic(g, selected) ==
  LET Of(n) == IF KindOf[n] = "posting"
               THEN Classified(g, n, "ncs_occupation") \o Classified(g, n, "onet_occupation")
               ELSE IF KindOf[n] \in CatalogKinds /\ Catalogued[n] # None THEN <<Catalogued[n]>> ELSE <<>>
  IN Take(Distinct(FlattenSeq([i \in 1..Len(selected) |-> Of(selected[i])])), 2)

Call(at, name, arg) == [at |-> at, name |-> name, arg |-> arg]
StartReads(batch) == reads' = [c \in CallIds |-> IF c \in DOMAIN batch THEN batch[c] ELSE [at |-> "none"]]

\* The evidence event, and the automatic reads all started at once.
StartFocused ==
  /\ stage = "selected" /\ focus = <<>>
  /\ focus' = Take(SelectSeq(FocusIds, LAMBDA n : n \in Nodes(graph)), 8)
  /\ LET keys == Automatic(graph, focus')
         ids  == CHOOSE f \in [1..Len(keys) -> CallIds] : \A i, j \in 1..Len(keys) : f[i] = f[j] => i = j
     IN /\ StartReads([c \in {ids[i] : i \in 1..Len(keys)} |->
                          Call("reading", "focused", keys[CHOOSE i \in 1..Len(keys) : ids[i] = c])])
        /\ stage' = IF keys = <<>> THEN "planning" ELSE "focused"
  /\ UNCHANGED <<graph, kept, context, used, outputs, round, warnings, emitted, partial, answer>>

Waiting == {c \in CallIds : reads[c].at \in {"queued", "reading"}}
Reading == {c \in CallIds : reads[c].at = "reading"}

\* The selected item the catalog knows by this id, when it is another one.
Referenced(id) == SelectSeq(focus, LAMBDA n : KindOf[n] \in CatalogKinds /\ Catalogued[n] = id)
FocusedFound(id) ==
  IF Referenced(id) = <<>> THEN ExpandReads[id] ELSE WithReference(ExpandReads[id], Last(Referenced(id)), id)

\* A focused read ends, in any order: its neighbourhood is protected from then on.
FocusedRead ==
  /\ stage = "focused"
  /\ \E c \in Reading, ok \in BOOLEAN :
       LET found == IF ok THEN FocusedFound(reads[c].arg) ELSE EmptyGraph
       IN /\ graph' = MergeGraphs(graph, found, kept)
          /\ kept' = kept \cup ToSet(FocusNeighbourhood(graph', focus))
          /\ warnings' = IF ok THEN warnings ELSE warnings \cup {"FOCUSED_SOURCE_UNAVAILABLE"}
          /\ reads' = [reads EXCEPT ![c] = [at |-> "none"]]
          /\ stage' = IF Waiting = {c} THEN "planning" ELSE stage
  /\ UNCHANGED <<focus, context, used, outputs, round, emitted, partial, answer>>

-----------------------------------------------------------------------------

\* calls[:remaining]
Affordable(calls) == Take(calls, MaxCalls - Cardinality(used))

\* A call id may be used once in an answer.
Acceptable(calls) ==
  /\ \A i \in 1..Len(calls) : calls[i][1] \notin used
  /\ \A i, j \in 1..Len(calls) : calls[i][1] = calls[j][1] => i = j

\* A planning round: the model asks for nothing (or tools are off), for reads, or for
\* something refused.
Plan ==
  /\ stage = "planning" /\ round < MaxRounds
  /\ \E calls \in Batches :
       LET batch == Affordable(calls)
           fits  == Len(calls) <= MaxRequested /\ Acceptable(batch)
       IN \/ /\ calls = <<>> /\ stage' = "answering"
             /\ UNCHANGED <<reads, used, warnings>>
          \/ /\ calls # <<>> /\ fits
             /\ StartReads([c \in {batch[i][1] : i \in 1..Len(batch)} |->
                  LET i == CHOOSE k \in 1..Len(batch) : batch[k][1] = c IN Call("queued", batch[i][2], batch[i][3])])
             /\ used' = used \cup {batch[i][1] : i \in 1..Len(batch)}
             /\ stage' = "reading" /\ UNCHANGED warnings
          \/ /\ calls # <<>> /\ ~fits
             /\ warnings' = warnings \cup {"SEARCH_PLANNER_UNAVAILABLE"}
             /\ stage' = "answering" /\ UNCHANGED <<reads, used>>
  /\ context' = graph
  /\ UNCHANGED <<graph, kept, focus, outputs, round, emitted, partial, answer>>

\* The planner fails, times out or answers nonsense: what was found is answered from.
PlannerFails ==
  /\ stage = "planning" /\ round < MaxRounds
  /\ stage' = "answering" /\ warnings' = warnings \cup {"SEARCH_PLANNER_UNAVAILABLE"}
  /\ UNCHANGED <<graph, kept, focus, reads, context, used, outputs, round, emitted, partial, answer>>

BeginRead ==
  /\ stage = "reading" /\ Cardinality(Reading) < InFlight
  /\ \E c \in Waiting \ Reading : reads' = [reads EXCEPT ![c] = Call("reading", @.name, @.arg)]
  /\ UNCHANGED <<stage, graph, kept, focus, context, used, outputs, round, warnings, emitted, partial, answer>>

\* ReadTools.execute: what a call may find, nothing when it is refused.
Findings(name, arg) ==
  CASE name = "read_personal_records" -> PersonalReads
    [] name = "search_catalog" -> SearchReads
    [] name = "search_postings" -> IF arg \in Nodes(context) THEN SearchReads ELSE {}
    [] name = "get_posting" -> IF arg \in Nodes(context) /\ KindOf[arg] = "posting" THEN {NodeReads[arg]} ELSE {}
    [] name = "expand_connections" ->
         IF arg \notin Nodes(context) \/ Catalogued[arg] = None THEN {}
         ELSE {WithReference(ExpandReads[Catalogued[arg]], arg, Catalogued[arg])}

\* Personal records stay in the graph whatever is found later.
ProtectedBy(name, found) == IF name = "read_personal_records" THEN Nodes(found) ELSE {}

\* A read ends, in any order: its result is merged, reported and given to the model.
FinishRead ==
  /\ stage = "reading"
  /\ \E c \in Reading :
       /\ \/ \E found \in Findings(reads[c].name, reads[c].arg) :
               /\ kept' = kept \cup ProtectedBy(reads[c].name, found)
               /\ graph' = MergeGraphs(graph, found, kept')
               /\ UNCHANGED warnings
          \/ /\ warnings' = warnings \cup {"READ_UNAVAILABLE"}
             /\ graph' = MergeGraphs(graph, EmptyGraph, kept) /\ UNCHANGED kept
       /\ reads' = [reads EXCEPT ![c] = [at |-> "none"]]
       /\ outputs' = outputs \cup {c}
  /\ UNCHANGED <<stage, focus, context, used, round, emitted, partial, answer>>

\* The batch is over: another round unless the calls or the rounds are used up.
EndRound ==
  /\ stage = "reading" /\ Waiting = {}
  /\ round' = round + 1
  /\ \E tooLong \in BOOLEAN :   \* the conversation outgrew its bound
       LET spent == Cardinality(used) >= MaxCalls \/ round' = MaxRounds \/ tooLong
       IN /\ warnings' = IF spent THEN warnings \cup {"TOOL_BUDGET_REACHED"} ELSE warnings
          /\ stage' = IF spent THEN "answering" ELSE "planning"
  /\ UNCHANGED <<graph, kept, focus, reads, context, used, outputs, emitted, partial, answer>>

-----------------------------------------------------------------------------
Ranking == SortSeq(graph.nodes, LAMBDA a, b : Rank[a] > Rank[b])
Selected == SelectSeq(graph.nodes, LAMBDA n : Contains(focus, n))
Surroundings == ToSet(FocusNeighbourhood(graph, focus))

\* The sources of the prompt: the selected items, what surrounds them, the best
\* ranked, what is connected to those, and the rest.
Ledger ==
  LET ranking == Ranking
      around == Surroundings
      seed == ToSet(focus) \cup ToSet(Take(ranking, TopRanked))
      linked == {IF graph.edges[i].source \in seed THEN graph.edges[i].target ELSE graph.edges[i].source :
                   i \in {k \in 1..Len(graph.edges) : graph.edges[k].source \in seed \/ graph.edges[k].target \in seed}}
      connected == SelectSeq(graph.nodes, LAMBDA n : n \in linked)
      neighbours == SelectSeq(graph.nodes, LAMBDA n : n \in around /\ ~Contains(focus, n))
  IN Take(Distinct(Selected \o neighbours \o Take(ranking, TopRanked)
                   \o Take(connected, TopConnected) \o ranking), LedgerCap)

\* An answer_delta: the parsed reply is sent only where it extends what was sent.
Delta(text) ==
  /\ stage = "answering" /\ Len(partial) < MaxReply
  /\ partial' = text
  /\ emitted' = IF Len(text) > Len(emitted) /\ IsPrefix(emitted, text) THEN text ELSE emitted
  /\ UNCHANGED <<stage, graph, kept, focus, reads, context, used, outputs, round, warnings, answer>>

\* The answer is refused when its reply is not the text that was streamed.
StreamedIsReply(reply) == reply # <<>> /\ reply = emitted

\* Both ends of a proposed connection were in the prompt.
Proposable(p, allowed) == p.source \in allowed /\ p.target \in allowed /\ p.source # p.target

\* The answer and done events; what the model names outside the ledger is dropped.
Answer ==
  /\ stage = "answering" /\ StreamedIsReply(partial)
  /\ LET allowed == ToSet(Ledger)
         shown   == {e \in ToSet(graph.edges) : e.source \in allowed /\ e.target \in allowed}
         around  == Surroundings
     IN \E named \in AnswerPicks, proposals \in Proposals :
          LET proposed == SelectSeq(proposals, LAMBDA p : Proposable(p, allowed))
              final    == IF proposed = <<>> THEN graph
                          ELSE MergeGraphs(graph, [nodes |-> <<>>, edges |-> proposed], kept)
              cited    == {n \in Nodes(final) : n \in allowed /\ n \in named}
          IN /\ graph' = final
             /\ answer' = [sources |-> cited, ledger |-> allowed,
                           nodes |-> (named \cap allowed) \cup cited
                                     \cup UNION {{proposed[i].source, proposed[i].target} : i \in 1..Len(proposed)},
                           edges |-> {e \in shown : e.source \in named} \cup ToSet(proposed),
                           reply |-> partial, neighbours |-> around]
  /\ stage' = "done"
  /\ UNCHANGED <<kept, focus, reads, context, used, outputs, round, warnings, emitted, partial>>

\* The stream ends without an answer: a refused or interrupted answer, a deadline, the
\* client's disconnect, or an exception nothing catches.  Its reads are cancelled and
\* what it had gathered goes with it.
Abandon ==
  /\ stage \notin {"done", "gone"}
  /\ stage' = "gone"
  /\ graph' = EmptyGraph /\ kept' = {} /\ focus' = <<>> /\ context' = EmptyGraph
  /\ reads' = [c \in CallIds |-> [at |-> "none"]]
  /\ used' = {} /\ outputs' = {} /\ round' = 0 /\ warnings' = {} /\ emitted' = <<>> /\ partial' = <<>>
  /\ UNCHANGED answer

ChatNext ==
  \/ ReadSelected \/ StartFocused \/ FocusedRead
  \/ Plan \/ PlannerFails \/ BeginRead \/ FinishRead \/ EndRound
  \/ \E text \in {<<"a">>, <<"b">>, <<"a", "b">>} : Delta(text)
  \/ Answer \/ Abandon

ChatSpec == ChatInit /\ [][ChatNext]_chatVars

-----------------------------------------------------------------------------
\* The account's own records and the surroundings of the selected item stay in the
\* graph through every later merge, in whatever order the reads end, as long as they
\* fit its bound (merge_graphs, protected_node_ids).
EvidenceStays == Cardinality(kept) <= NodeCap => kept \subseteq Nodes(graph)

\* A call of the model is executed once, within the budget, and every accepted call has
\* its output in the conversation when the next round or the answer begins.
CallsSettled ==
  /\ Cardinality(used) <= MaxCalls
  /\ outputs \subseteq used
  /\ stage \in {"planning", "answering", "done"} => outputs = used /\ Waiting = {}

\* An answer cites, highlights and connects only nodes of the graph it is sent with and
\* sources the model was shown, and its reply is the text the client saw streamed.
AnswerGrounded ==
  stage = "done" =>
    /\ answer.sources \subseteq answer.ledger \cap Nodes(graph)
    /\ answer.nodes \subseteq Nodes(graph)
    /\ \A e \in answer.edges \cup ToSet(graph.edges) : {e.source, e.target} \subseteq Nodes(graph)
    /\ answer.reply = emitted

\* Everything around the selected items reaches the prompt: the ranking of the question
\* never displaces it (focus_neighborhood's limit is within the ledger's).
SurroundingsReachPrompt == stage = "done" => answer.neighbours \subseteq answer.ledger
=============================================================================
