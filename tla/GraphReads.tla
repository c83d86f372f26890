----------------------------- MODULE GraphReads -----------------------------
(***************************************************************************)
(* Reads of the Neo4j corpus: one HTTP client with a bounded number of     *)
(* requests in flight, shared by the native catalog and the evidence graph *)
(* of a role, and closed when the process stops.  A call is a plan of one  *)
(* to three queries; between two of them the source may change, fail, or   *)
(* answer with rows the repository must refuse.  Neo4j is external: a      *)
(* reply is any member of Replies.                                         *)
(***************************************************************************)
EXTENDS Integers, Sequences, FiniteSets, SequencesExt

CONSTANTS
  Readers,      \* concurrent calls
  OpOf,         \* call -> operation
  LimitOf,      \* call -> page limit asked for
  Source,       \* the configured source: "local_json" or "neo4j"
  MaxInFlight,  \* requests in flight at once
  MaxRows,      \* rows of one response
  Replies,      \* query -> the replies Neo4j may give
  Pub,          \* the publication asked for
  Context       \* whether the role has context occupations

VARIABLES query, closed, sent   \* query: the calls

\* What the calls ask for, and replies whose rows are a list.
GraphConstants ==
  /\ \A c \in Readers : OpOf[c] \in {"occupations", "publications", "enrichment", "alignments", "graph", "unknown_role"}
  /\ \A q \in {"occupations", "publications", "enrichment", "publication", "alignments"} :
       \A reply \in Replies[q] : reply.rows \in Seq(Range(reply.rows))

graphVars == <<query, closed, sent>>

------------------------------------------------------------------------------
(* Plans and requests. *)

Plan(op) ==
  CASE op = "occupations"  -> <<"occupations">>
    [] op = "publications" -> <<"publications">>
    [] op = "enrichment"   -> <<"enrichment">>
    [] op = "alignments"   -> <<"publication", "alignments">>
    [] OTHER               -> <<"ncs", "context", "onet">>

\* Queries that select one record ask for two rows, to notice a second one.
Selecting == {"publication", "enrichment"}
RowLimit(c, q) == IF q \in Selecting THEN 2 ELSE LimitOf[c]

\* Requests refused before anything is sent.
Refused(c) ==
  \/ OpOf[c] \in {"occupations", "publications", "alignments"} /\ LimitOf[c] > MaxRows
  \/ OpOf[c] \in {"alignments", "enrichment"} /\ MaxRows < 2

\* build_configured_corpus_source: only one source has a client.
HasClient == Source = "neo4j"

------------------------------------------------------------------------------
(* Responses. *)

\* _parse_response: a whole answer of at most MaxRows rows.
Parsed(reply) == reply.kind = "rows" /\ Len(reply.rows) <= MaxRows

\* _reject_duplicate_identities.
Distinct(identities) == Cardinality(Range(identities)) = Len(identities)
IdOf(row) == row.id
AlignmentId(row) == <<row.pub, row.id>>

\* What the repository accepts of a parsed response: the fields it asked for,
\* no more rows than it asked for, one row per identity.
Accepted(c, q, reply) ==
  /\ reply.fields
  /\ Len(reply.rows) <= RowLimit(c, q)
  /\ q \in {"occupations", "publications"} => Distinct([i \in DOMAIN reply.rows |-> IdOf(reply.rows[i])])
  /\ q = "alignments" =>
       /\ \A i \in DOMAIN reply.rows : reply.rows[i].pub = Pub
       /\ Distinct([i \in DOMAIN reply.rows |-> AlignmentId(reply.rows[i])])
  /\ q \in Selecting => Len(reply.rows) <= 1 /\ \A i \in DOMAIN reply.rows : reply.rows[i].id = Pub

------------------------------------------------------------------------------
(* The evidence graph of a role. *)

Graph0 == [nodes |-> [i \in {"role"} |-> "role"], edges |-> {}]

\* _GraphBuilder.link: the first node of an identity is kept.
Link(g, source, node, kind) ==
  [nodes |-> IF node.id \in DOMAIN g.nodes THEN g.nodes
             ELSE [i \in DOMAIN g.nodes \cup {node.id} |->
                     IF i = node.id THEN node.kind ELSE g.nodes[i]],
   edges |-> g.edges \cup {<<source, node.id, kind>>}]

LinkAll(g, source, ids, kind) ==
  LET link(h, i) == Link(h, source, [id |-> i, kind |-> kind], kind)
  IN FoldSet(LAMBDA i, h : link(h, i), g, ids)

\* The skills and technologies of an occupation that was linked: of its last
\* row, when it has one.
WithDetails(g, onet, id) ==
  LET own == SelectSeq(onet, LAMBDA row : row.id = id)
  IN IF own = <<>> THEN g
     ELSE LinkAll(LinkAll(g, id, Last(own).skills, "skill"), id, Last(own).techs, "technology")

NcsLinked(g, row, onet) ==
  LET a == Link(g, "role", [id |-> row.id, kind |-> "ncs"], "MAPPED_TO")
      b == IF row.postings > 0 \/ row.excluded > 0
           THEN Link(a, row.id, [id |-> "postings:" \o row.id, kind |-> "postings"], "EVIDENCED_BY")
           ELSE a
      d == LinkAll(LinkAll(b, row.id, row.units, "competency"), row.id, row.quals, "qualification")
  IN FoldSet(LAMBDA m, h : WithDetails(Link(h, row.id, [id |-> m, kind |-> "onet"], "MATCHED_ONET"), onet, m),
             d, row.onet)

ContextLinked(g, row, onet) ==
  LET a == Link(g, "role", [id |-> row.id, kind |-> "onet"], "CONTEXT_FOR")
      b == IF row.postings > 0
           THEN Link(a, row.id, [id |-> "postings:" \o row.id, kind |-> "postings"], "EVIDENCED_BY")
           ELSE a
  IN WithDetails(b, onet, row.id)

RoleGraph(ncs, context, onet) ==
  LET g == FoldLeft(LAMBDA h, row : NcsLinked(h, row, onet), Graph0, ncs)
  IN FoldLeft(LAMBDA h, row : ContextLinked(h, row, onet), g, context)

\* The occupations whose details the third query asks for.
OnetIds(got) ==
  UNION {got[1][i].onet : i \in DOMAIN got[1]} \cup {got[2][i].id : i \in DOMAIN got[2]}

\* The counts come from the live feed; without it the rows stay and a warning
\* says so.
Counted(rows, ok) == [i \in DOMAIN rows |-> [rows[i] EXCEPT !.postings = IF ok THEN @ ELSE 0]]

------------------------------------------------------------------------------
(* A call. *)

NoAnswer == [status |-> 0, rows |-> <<>>, graph |-> Graph0, warned |-> FALSE]
Idle == [pc |-> "start", got |-> <<>>, warned |-> FALSE, answer |-> NoAnswer]
Status(k) == [NoAnswer EXCEPT !.status = k]

Moved(c, pc, got, warned, answer) ==
  query' = [query EXCEPT ![c] = [pc |-> pc, got |-> got, warned |-> warned, answer |-> answer]]
Proceed(c, pc) == Moved(c, pc, query[c].got, query[c].warned, query[c].answer)
Ended(c, answer) == Moved(c, "done", query[c].got, query[c].warned, answer)

QueryOf(c) == Plan(OpOf[c])[Len(query[c].got) + 1]

Begin(c) ==
  /\ query[c].pc = "start"
  /\ \/ ~HasClient /\ Ended(c, Status(503))
     \/ HasClient /\ Refused(c) /\ Ended(c, Status(422))
     \/ HasClient /\ OpOf[c] = "unknown_role" /\ Ended(c, Status(404))
     \/ HasClient /\ OpOf[c] # "unknown_role" /\ ~Refused(c) /\ closed /\ Ended(c, Status(503))
     \/ HasClient /\ OpOf[c] # "unknown_role" /\ ~Refused(c) /\ ~closed /\ Proceed(c, "queue")
  /\ UNCHANGED <<closed, sent>>

InFlight == {c \in Readers : query[c].pc = "sent"}

\* The client is looked at again once the limiter lets the request through.
MaySendQueued == TRUE
MaySend == ~closed

Send(c) ==
  /\ query[c].pc = "queue"
  /\ Cardinality(InFlight) < MaxInFlight
  /\ \/ /\ MaySend
        /\ Proceed(c, "sent")
        /\ sent' = sent \cup {<<c, closed>>}
     \/ ~MaySend /\ Ended(c, Status(503)) /\ UNCHANGED sent
  /\ UNCHANGED closed

\* The answer of a call whose queries are all in.
Answer(c, got, warned) ==
  IF OpOf[c] = "graph"
  THEN [status |-> 200, rows |-> <<>>, graph |-> RoleGraph(got[1], got[2], got[3]), warned |-> warned]
  ELSE [Status(200) EXCEPT !.rows = got[Len(got)]]

\* The next query, or the answer; a role without context occupations and a
\* graph without O*NET occupations skip theirs.
Continue(c, got, warned) ==
  LET op == OpOf[c]
      more == IF op = "graph" /\ Len(got) = 1 /\ ~Context THEN Append(got, <<>>) ELSE got
      full == IF op = "graph" /\ Len(more) = 2 /\ OnetIds(more) = {} THEN Append(more, <<>>) ELSE more
  IN IF Len(full) = Len(Plan(op))
     THEN Moved(c, "done", full, query[c].warned, Answer(c, full, warned))
     ELSE IF closed THEN Moved(c, "done", full, warned, Status(503))
     ELSE Moved(c, "queue", full, warned, query[c].answer)

Receive(c) ==
  /\ query[c].pc = "sent"
  /\ \E reply \in Replies[QueryOf(c)] :
       LET q == QueryOf(c) IN
       \/ ~Parsed(reply) /\ Ended(c, Status(503))
       \/ Parsed(reply) /\ ~Accepted(c, q, reply) /\ Ended(c, Status(503))
       \/ /\ Parsed(reply) /\ Accepted(c, q, reply)
          /\ q = "publication" /\ reply.rows = <<>>
          /\ Ended(c, Status(404))
       \/ /\ Parsed(reply) /\ Accepted(c, q, reply)
          /\ q # "context" /\ (q = "publication" => reply.rows # <<>>)
          /\ Continue(c, Append(query[c].got, reply.rows), query[c].warned)
       \/ /\ Parsed(reply) /\ Accepted(c, q, reply) /\ q = "context"
          /\ \E ok \in BOOLEAN :
               Continue(c, Append(query[c].got, Counted(reply.rows, ok)), ~ok /\ reply.rows # <<>>)
  /\ UNCHANGED <<closed, sent>>

\* The process stops: aclose, once.
Close ==
  /\ HasClient /\ ~closed
  /\ closed' = TRUE
  /\ UNCHANGED <<query, sent>>

GraphInit ==
  /\ query = [c \in Readers |-> Idle]
  /\ closed = FALSE
  /\ sent = {}

AllDone == \A c \in Readers : query[c].pc = "done"

GraphNext ==
  \/ \E c \in Readers : Begin(c) \/ Send(c) \/ Receive(c)
  \/ Close

GraphSpec == GraphInit /\ [][GraphNext]_graphVars

\* Every request ends: the HTTP client has a timeout, the limiter is fair.
ReadsFairness == \A c \in Readers : WF_graphVars(Begin(c)) /\ SF_graphVars(Send(c)) /\ WF_graphVars(Receive(c))
GraphFairSpec == GraphSpec /\ ReadsFairness

------------------------------------------------------------------------------
(* Properties. *)

\* Nothing leaves for Neo4j once the client was closed, not even a request
\* that was waiting for its turn when it was.
NothingSentAfterClose == \A s \in sent : ~s[2]

\* The rows of an answer are what was asked for: of the publication named, no
\* record twice, never more than the page, whatever Neo4j replied.
RowsAsAsked ==
  \A c \in Readers : LET a == query[c].answer IN
    query[c].pc = "done" /\ a.status = 200 /\ OpOf[c] # "graph" =>
      /\ Len(a.rows) <= RowLimit(c, Plan(OpOf[c])[Len(Plan(OpOf[c]))])
      /\ \A i, j \in DOMAIN a.rows : i # j => a.rows[i] # a.rows[j]
      /\ OpOf[c] = "alignments" => \A i \in DOMAIN a.rows : a.rows[i].pub = Pub

\* What was read is what was asked for, of a client that was open.
RowsExact == NothingSentAfterClose /\ RowsAsAsked

\* The nodes a path from the role leads to.
Reached(g) ==
  LET step[n \in 0 .. Cardinality(DOMAIN g.nodes)] ==
        IF n = 0 THEN {"role"}
        ELSE LET prev == step[n - 1]
             IN prev \cup {e[2] : e \in {e \in g.edges : e[1] \in prev}}
  IN step[Cardinality(DOMAIN g.nodes)]
\* A role's graph hangs together though its parts were read at different
\* times: every edge joins two of its nodes and every node is reached from the
\* role.
GraphHangsTogether ==
  \A c \in Readers : LET g == query[c].answer.graph IN
    /\ \A e \in g.edges : {e[1], e[2]} \subseteq DOMAIN g.nodes
    /\ DOMAIN g.nodes \subseteq Reached(g)

\* Every call is answered, also when the client closes under it.
ReadsAnswered == <>AllDone

==============================================================================
