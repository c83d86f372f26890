----------------------------- MODULE CatalogReads -----------------------------
(***************************************************************************)
(* The shared catalog reads behind the chat's graph (chat/catalog.py, with *)
(* its 30 second cache) and the crosswalk pages of the live source feed    *)
(* (persistence/live_source_feed.py), which concurrent callers share: one  *)
(* cell per page, one query at a time, a cache of the pages read.          *)
(*                                                                         *)
(* A call expands a catalog node ("expand", from a chat tool or the        *)
(* catalog route, and cancelled by their deadlines) or asks the crosswalk  *)
(* route for a page ("route").  A page or graph is the time its source was *)
(* read, and whether every part of it could be read.  Between two awaits   *)
(* the event loop runs nothing else, so such a stretch is one action.      *)
(***************************************************************************)
EXTENDS Integers, Sequences, FiniteSets, SequencesExt

CONSTANTS Calls, CatalogNodes,   \* the calls, and the catalog nodes they ask about
          KindOf,                \* "expand" or "route"
          TTL, CacheCap,         \* how long a read is served, and how many are kept
          MaxTime                \* bound: the clock

VARIABLES
  now,       \* time.monotonic
  call,      \* [pc, node, cell, page, ok, age]: a call's progress, the page it was served
  cell,      \* _CrosswalkRead, named by the call that made it: [lock, result, expires, users]
  inflight,  \* _crosswalk_inflight: node -> cell or None
  pages,     \* _crosswalk_reads: <<[node, cell]>>, least recently used first
  turn,      \* the call holding _crosswalk_slot, or None
  cache      \* SharedCatalogRetriever._cache: <<[key, expires, page, ok]>>, oldest first

catalogVars == <<now, call, cell, inflight, pages, turn, cache>>

None == "none"
Never == -1
\* A page is served for a while, and the calls at any one time are finitely many.
CatalogConstants ==
  /\ TTL \in Nat \ {0} /\ CacheCap \in Nat
  /\ IsFiniteSet(Calls) /\ None \notin Calls

CatalogInit ==
  /\ now = 0
  /\ call \in [Calls -> {[pc |-> "new", node |-> n, cell |-> None, page |-> Never, ok |-> TRUE, age |-> 0] : n \in CatalogNodes}]
  /\ cell = [c \in Calls |-> [lock |-> None, result |-> Never, expires |-> 0, users |-> 0]]
  /\ inflight = [n \in CatalogNodes |-> None]
  /\ pages = <<>> /\ turn = None /\ cache = <<>>

Goes(c, pc) == call' = [call EXCEPT ![c].pc = pc]
Feed == <<cell, inflight, pages, turn>>
Evicted(s) == IF Len(s) > CacheCap THEN Tail(s) ELSE s

-----------------------------------------------------------------------------
(* The retriever's cache.  A key stored again keeps its place; only a hit of *)
(* _read moves to the end.                                                   *)

Entry(key) == SelectSeq(cache, LAMBDA e : e.key = key)
Hit(key) == Entry(key) # <<>> /\ Entry(key)[1].expires > now
Value(key) == Entry(key)[1]

Stored(key, page, ok) ==
  LET e == [key |-> key, expires |-> now + TTL, page |-> page, ok |-> ok]
  IN IF Entry(key) = <<>> THEN Evicted(Append(cache, e))
     ELSE [i \in 1..Len(cache) |-> IF cache[i].key = key THEN e ELSE cache[i]]

Touched(key) == SelectSeq(cache, LAMBDA e : e.key # key) \o Entry(key)

\* expand: the node's native neighbours, from the cache or from Neo4j.
Expand(c) ==
  /\ call[c].pc = "new" /\ KindOf[c] = "expand"
  /\ LET key == <<"expand", call[c].node>>
     IN IF Hit(key) THEN Goes(c, "mapping") /\ cache' = Touched(key)
        ELSE Goes(c, "native") /\ UNCHANGED cache
  /\ UNCHANGED <<now, Feed>>

ReadNative(c) ==
  /\ call[c].pc = "native"
  /\ \/ Goes(c, "mapping") /\ cache' = Stored(<<"expand", call[c].node>>, now, TRUE)
     \/ Goes(c, "failed") /\ UNCHANGED cache            \* Neo4jQueryApiError, ValueError
  /\ UNCHANGED <<now, Feed>>

\* The node's crosswalk, from the retriever's cache, or else from the feed.
Mapping(c) ==
  /\ call[c].pc = "mapping"
  /\ LET key == <<"crosswalk", call[c].node>>
     IN call' = IF Hit(key) THEN [call EXCEPT ![c].pc = "done", ![c].page = Value(key).page, ![c].ok = Value(key).ok]
                ELSE [call EXCEPT ![c].pc = "enter"]
  /\ UNCHANGED <<now, cache, Feed>>

AskRoute(c) ==
  /\ call[c].pc = "new" /\ KindOf[c] = "route" /\ Goes(c, "enter")
  /\ UNCHANGED <<now, cache, Feed>>

-----------------------------------------------------------------------------
(* PostgresLiveSourceFeed.crosswalk. *)

\* The place of the page among those kept, and the others.
Places(n) == {i \in 1 .. Len(pages) : pages[i].node = n}
Place(n) == CHOOSE i \in Places(n) : TRUE
Others(n) == IF Places(n) = {} THEN pages ELSE RemoveAt(pages, Place(n))

\* The cell of the page: in flight, else cached, else a new one.
CellFor(c) ==
  LET n == call[c].node
  IN IF inflight[n] # None THEN inflight[n] ELSE IF Places(n) # {} THEN pages[Place(n)].cell ELSE c

Enter(c) ==
  /\ call[c].pc = "enter"
  /\ LET x == CellFor(c) n == call[c].node
     IN /\ call' = [call EXCEPT ![c].pc = "locking", ![c].cell = x]
        /\ cell' = [cell EXCEPT ![x].users = @ + 1]
        /\ inflight' = [inflight EXCEPT ![n] = x]
        /\ pages' = IF Places(n) = {} THEN pages ELSE Append(Others(n), pages[Place(n)])
  /\ UNCHANGED <<now, turn, cache>>

\* A page that is served expires when it did.
Served(x) == cell[x]

\* Leaving the feed: the lock and the slot are released by their context managers, and
\* the last user takes the page out of flight.
Left(c, x, with) == [with EXCEPT !.lock = IF @ = c THEN None ELSE @, !.users = @ - 1]

LeaveFlight(c, x) ==
  inflight' = IF cell[x].users = 1 THEN [inflight EXCEPT ![call[c].node] = None] ELSE inflight

Lock(c) ==
  LET x == call[c].cell
  IN /\ call[c].pc = "locking" /\ cell[x].lock = None
     /\ IF cell[x].result # Never /\ cell[x].expires > now
        THEN /\ call' = [call EXCEPT ![c].pc = "parents", ![c].page = cell[x].result, ![c].age = now - cell[x].result]
             /\ cell' = [cell EXCEPT ![x] = Left(c, x, Served(x))]
             /\ LeaveFlight(c, x)
        ELSE /\ Goes(c, "queued") /\ cell' = [cell EXCEPT ![x].lock = c] /\ UNCHANGED inflight
     /\ UNCHANGED <<now, pages, turn, cache>>

Queue(c) ==
  /\ call[c].pc = "queued" /\ turn = None
  /\ turn' = c /\ Goes(c, "reading")
  /\ UNCHANGED <<now, cell, inflight, pages, cache>>

\* The query answers: the page is kept, the oldest one makes room.
ReadPage(c) ==
  LET x == call[c].cell n == call[c].node
  IN /\ call[c].pc = "reading"
     /\ call' = [call EXCEPT ![c].pc = "parents", ![c].page = now]
     /\ cell' = [cell EXCEPT ![x] = Left(c, x, [@ EXCEPT !.result = now, !.expires = now + TTL])]
     /\ pages' = Evicted(Append(Others(n), [node |-> n, cell |-> x]))
     /\ turn' = None /\ LeaveFlight(c, x)
     /\ UNCHANGED <<now, cache>>

SlotAfter(c) == IF turn = c THEN None ELSE turn

\* LiveSourceReadError, or the deadline of an expansion: the neighbours already found are
\* returned with a warning, and the route fails.
Unavailable(c) == [call EXCEPT ![c].pc = IF KindOf[c] = "expand" THEN "done" ELSE "failed", ![c].ok = FALSE]

FailPage(c) ==
  LET x == call[c].cell
  IN /\ \/ call[c].pc = "reading"
        \/ call[c].pc \in {"locking", "queued"} /\ KindOf[c] = "expand"     \* timeout(6)
     /\ call' = Unavailable(c)
     /\ cell' = [cell EXCEPT ![x] = Left(c, x, @)]
     /\ turn' = SlotAfter(c) /\ LeaveFlight(c, x)
     /\ UNCHANGED <<now, pages, cache>>

-----------------------------------------------------------------------------
\* crosswalk_connections: the parents of the mapped items, cached on their own; a failed
\* lookup keeps the mapping and warns.
Parents(c) ==
  /\ call[c].pc = "parents"
  /\ LET key == <<"crosswalk-parents", call[c].node>>
         store(ok) == IF KindOf[c] = "route" THEN [call EXCEPT ![c].pc = "done", ![c].ok = ok]
                      ELSE [call EXCEPT ![c].pc = "store", ![c].ok = ok]
     IN \/ Hit(key) /\ call' = store(TRUE) /\ UNCHANGED cache
        \/ ~Hit(key) /\ call' = store(TRUE) /\ cache' = Stored(key, now, TRUE)
        \/ ~Hit(key) /\ call' = store(FALSE) /\ UNCHANGED cache
        \/ KindOf[c] = "expand" /\ call' = Unavailable(c) /\ UNCHANGED cache   \* timeout(6)
  /\ UNCHANGED <<now, Feed>>

StoreMapping(c) ==
  /\ call[c].pc = "store"
  /\ Goes(c, "done") /\ cache' = Stored(<<"crosswalk", call[c].node>>, call[c].page, call[c].ok)
  /\ UNCHANGED <<now, Feed>>

\* The caller's own deadline cancels an expansion wherever it waits.
Cancel(c) ==
  LET x == call[c].cell
  IN /\ KindOf[c] = "expand" /\ Goes(c, "cancelled")
     /\ \/ call[c].pc \in {"native", "parents"} /\ UNCHANGED Feed
        \/ /\ call[c].pc \in {"locking", "queued", "reading"}
           /\ cell' = [cell EXCEPT ![x] = Left(c, x, @)]
           /\ turn' = SlotAfter(c) /\ LeaveFlight(c, x) /\ UNCHANGED pages
     /\ UNCHANGED <<now, cache>>

Tick == now < MaxTime /\ now' = now + 1 /\ UNCHANGED <<call, cache, Feed>>

Returned == {"done", "failed", "cancelled"}
Finish(c) ==
  \/ Expand(c) \/ AskRoute(c) \/ ReadNative(c) \/ Mapping(c) \/ Enter(c) \/ Lock(c) \/ Queue(c)
  \/ ReadPage(c) \/ Parents(c) \/ StoreMapping(c)
CatalogNext == Tick \/ (\E c \in Calls : Finish(c) \/ FailPage(c) \/ Cancel(c))
CatalogSpec == CatalogInit /\ [][CatalogNext]_catalogVars

-----------------------------------------------------------------------------
InFeed(c) == call[c].pc \in {"locking", "queued", "reading"}

\* Calls that ask for the same page at the same time share a read: they wait on one cell,
\* even when its page was evicted meanwhile, so a page is never read twice at once, nor
\* read again by a call that waited while it was read.
ConcurrentReadsShared ==
  \A c, d \in Calls : InFeed(c) /\ InFeed(d) /\ call[c].node = call[d].node => call[c].cell = call[d].cell

\* However its callers end, by an answer, a failure or a cancellation, a page is in flight
\* exactly while somebody waits for it, and its users are those callers.
FlightsAddUp ==
  /\ \A x \in Calls : cell[x].users = Cardinality({c \in Calls : InFeed(c) /\ call[c].cell = x})
  /\ \A n \in CatalogNodes : (inflight[n] # None) <=> \E c \in Calls : InFeed(c) /\ call[c].node = n
  /\ turn # None => call[turn].pc = "reading"

\* The feed serves no page that was read TTL or longer ago, however often it was served.
PagesServedFresh == \A c \in Calls : call[c].age < TTL

\* Callers share one flight for each page, and are served fresh pages (LiveSourceFeed).
FlightsExact == ConcurrentReadsShared /\ FlightsAddUp /\ PagesServedFresh

\* Every call is answered, although calls wait for a page with its lock in their hands
\* and only one page is read at a time.
CallsAnswered == \A c \in Calls : <>(call[c].pc \in Returned)

=============================================================================
