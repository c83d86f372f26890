----------------------------- MODULE ServiceProofs --------------------------
(***************************************************************************)
(* The services that share one cache, one graph database and one set of    *)
(* streams, for every number of callers.                                   *)
(*                                                                         *)
(* Catalog reads: the callers in a feed are counted in the users of the    *)
(* cell they wait on, and a page in flight belongs to their node           *)
(* (CatalogInv).  Corpus reads: what a request has read are the lists of   *)
(* its own question, and a closed service sends nothing (GraphInv).        *)
(* Chat streams: free slots and streams at work add up for each process,   *)
(* and the stored login has the latest generation unless a stream that     *)
(* was just answered is about to save it (StreamsInv).                     *)
(***************************************************************************)
EXTENDS SharedReads, ChatStreams, FiniteSetTheorems, SequenceTheorems, TLAPS

-----------------------------------------------------------------------------
(* The inductive invariant of the shared flights.                            *)

\* A call is a record of these fields; what it carries of the cache does not matter here.
IsCall(k) == k = [pc |-> k.pc, node |-> k.node, cell |-> k.cell, page |-> k.page, ok |-> k.ok, age |-> k.age]
AreCalls(f) == f = [c \in Calls |-> f[c]] /\ \A c \in Calls : IsCall(f[c])

Cells == [lock : Calls \cup {None}, result : Int, expires : Int, users : Int]
\* The pages kept are read through a cell of their own node.
KeptPages == {e \in [node : CatalogNodes, cell : Calls] : call[e.cell].node = e.node}
Users(x) == {c \in Calls : InFeed(c) /\ call[c].cell = x}

CallsOK == /\ AreCalls(call)
           /\ \A c \in Calls : call[c].node \in CatalogNodes /\ call[c].age \in Int /\ call[c].age < TTL
CellsOK == /\ cell \in [Calls -> Cells]
           /\ \A x \in Calls : cell[x].result # Never => cell[x].expires = cell[x].result + TTL
UsersOK == \A x \in Calls : cell[x].users = Cardinality(Users(x))
\* A page in flight is waited for, and whoever waits for it waits on its cell.
FlightOK == /\ inflight \in [CatalogNodes -> Calls \cup {None}]
            /\ \A n \in CatalogNodes : inflight[n] # None =>
                 call[inflight[n]].node = n /\ \E c \in Calls : InFeed(c) /\ call[c].node = n
            /\ \A c \in Calls : InFeed(c) => inflight[call[c].node] = call[c].cell /\ call[c].cell \in Calls
SlotOK == turn # None => turn \in Calls /\ call[turn].pc = "reading"

CatalogInv == now \in Int /\ CallsOK /\ CellsOK /\ UsersOK /\ FlightOK /\ SlotOK /\ pages \in Seq(KeptPages)

-----------------------------------------------------------------------------
(* Calls and cells, field by field.                                          *)

\* What else a call is when one of its fields changes.
SameBut(f, g, c) == AreCalls(g) /\ \A d \in Calls \ {c} : g[d] = f[d]

\* A call becomes another one.
LEMMA CallReplaced ==
  ASSUME NEW f, AreCalls(f), NEW c \in Calls, NEW k, IsCall(k)
  PROVE  SameBut(f, [f EXCEPT ![c] = k], c) /\ [f EXCEPT ![c] = k][c] = k
<1> DEFINE g == [f EXCEPT ![c] = k]
<1>1. f = [d \in Calls |-> f[d]]
  BY DEF AreCalls
<1>2. g = [d \in Calls |-> g[d]] /\ g[c] = k /\ \A d \in Calls \ {c} : g[d] = f[d]
  BY <1>1
<1> HIDE DEF g
<1>3. SameBut(f, g, c)
  BY <1>2 DEF SameBut, AreCalls
<1> QED BY <1>2, <1>3 DEF g

\* A call goes on.
LEMMA PcChanges ==
  ASSUME NEW f, AreCalls(f), NEW c \in Calls, NEW v
  PROVE  /\ SameBut(f, [f EXCEPT ![c].pc = v], c)
         /\ [f EXCEPT ![c].pc = v][c]
              = [pc |-> v, node |-> f[c].node, cell |-> f[c].cell, page |-> f[c].page, ok |-> f[c].ok, age |-> f[c].age]
<1> DEFINE k == [pc |-> v, node |-> f[c].node, cell |-> f[c].cell, page |-> f[c].page, ok |-> f[c].ok, age |-> f[c].age]
<1>1. f[c] = [pc |-> f[c].pc, node |-> f[c].node, cell |-> f[c].cell, page |-> f[c].page, ok |-> f[c].ok, age |-> f[c].age]
  BY DEF AreCalls, IsCall
<1>2. [f[c] EXCEPT !.pc = v] = k
  BY <1>1
<1>5. [f EXCEPT ![c].pc = v] = [f EXCEPT ![c] = k]
  BY <1>2
<1>3. IsCall(k)
  BY DEF IsCall
<1> HIDE DEF k
<1>4. SameBut(f, [f EXCEPT ![c] = k], c) /\ [f EXCEPT ![c] = k][c] = k
  BY <1>3, CallReplaced
<1> QED BY <1>4, <1>5 DEF k

\* A call waits on another cell.
LEMMA CellChanges ==
  ASSUME NEW f, AreCalls(f), NEW c \in Calls, NEW v
  PROVE  /\ SameBut(f, [f EXCEPT ![c].cell = v], c)
         /\ [f EXCEPT ![c].cell = v][c]
              = [pc |-> f[c].pc, node |-> f[c].node, cell |-> v, page |-> f[c].page, ok |-> f[c].ok, age |-> f[c].age]
<1> DEFINE k == [pc |-> f[c].pc, node |-> f[c].node, cell |-> v, page |-> f[c].page, ok |-> f[c].ok, age |-> f[c].age]
<1>1. f[c] = [pc |-> f[c].pc, node |-> f[c].node, cell |-> f[c].cell, page |-> f[c].page, ok |-> f[c].ok, age |-> f[c].age]
  BY DEF AreCalls, IsCall
<1>2. [f[c] EXCEPT !.cell = v] = k
  BY <1>1
<1>5. [f EXCEPT ![c].cell = v] = [f EXCEPT ![c] = k]
  BY <1>2
<1>3. IsCall(k)
  BY DEF IsCall
<1> HIDE DEF k
<1>4. SameBut(f, [f EXCEPT ![c] = k], c) /\ [f EXCEPT ![c] = k][c] = k
  BY <1>3, CallReplaced
<1> QED BY <1>4, <1>5 DEF k

\* A call has a page.
LEMMA PageChanges ==
  ASSUME NEW f, AreCalls(f), NEW c \in Calls, NEW v
  PROVE  /\ SameBut(f, [f EXCEPT ![c].page = v], c)
         /\ [f EXCEPT ![c].page = v][c]
              = [pc |-> f[c].pc, node |-> f[c].node, cell |-> f[c].cell, page |-> v, ok |-> f[c].ok, age |-> f[c].age]
<1> DEFINE k == [pc |-> f[c].pc, node |-> f[c].node, cell |-> f[c].cell, page |-> v, ok |-> f[c].ok, age |-> f[c].age]
<1>1. f[c] = [pc |-> f[c].pc, node |-> f[c].node, cell |-> f[c].cell, page |-> f[c].page, ok |-> f[c].ok, age |-> f[c].age]
  BY DEF AreCalls, IsCall
<1>2. [f[c] EXCEPT !.page = v] = k
  BY <1>1
<1>5. [f EXCEPT ![c].page = v] = [f EXCEPT ![c] = k]
  BY <1>2
<1>3. IsCall(k)
  BY DEF IsCall
<1> HIDE DEF k
<1>4. SameBut(f, [f EXCEPT ![c] = k], c) /\ [f EXCEPT ![c] = k][c] = k
  BY <1>3, CallReplaced
<1> QED BY <1>4, <1>5 DEF k

\* A call has its outcome.
LEMMA OkChanges ==
  ASSUME NEW f, AreCalls(f), NEW c \in Calls, NEW v
  PROVE  /\ SameBut(f, [f EXCEPT ![c].ok = v], c)
         /\ [f EXCEPT ![c].ok = v][c]
              = [pc |-> f[c].pc, node |-> f[c].node, cell |-> f[c].cell, page |-> f[c].page, ok |-> v, age |-> f[c].age]
<1> DEFINE k == [pc |-> f[c].pc, node |-> f[c].node, cell |-> f[c].cell, page |-> f[c].page, ok |-> v, age |-> f[c].age]
<1>1. f[c] = [pc |-> f[c].pc, node |-> f[c].node, cell |-> f[c].cell, page |-> f[c].page, ok |-> f[c].ok, age |-> f[c].age]
  BY DEF AreCalls, IsCall
<1>2. [f[c] EXCEPT !.ok = v] = k
  BY <1>1
<1>5. [f EXCEPT ![c].ok = v] = [f EXCEPT ![c] = k]
  BY <1>2
<1>3. IsCall(k)
  BY DEF IsCall
<1> HIDE DEF k
<1>4. SameBut(f, [f EXCEPT ![c] = k], c) /\ [f EXCEPT ![c] = k][c] = k
  BY <1>3, CallReplaced
<1> QED BY <1>4, <1>5 DEF k

\* A call has the age of its page.
LEMMA AgeChanges ==
  ASSUME NEW f, AreCalls(f), NEW c \in Calls, NEW v
  PROVE  /\ SameBut(f, [f EXCEPT ![c].age = v], c)
         /\ [f EXCEPT ![c].age = v][c]
              = [pc |-> f[c].pc, node |-> f[c].node, cell |-> f[c].cell, page |-> f[c].page, ok |-> f[c].ok, age |-> v]
<1> DEFINE k == [pc |-> f[c].pc, node |-> f[c].node, cell |-> f[c].cell, page |-> f[c].page, ok |-> f[c].ok, age |-> v]
<1>1. f[c] = [pc |-> f[c].pc, node |-> f[c].node, cell |-> f[c].cell, page |-> f[c].page, ok |-> f[c].ok, age |-> f[c].age]
  BY DEF AreCalls, IsCall
<1>2. [f[c] EXCEPT !.age = v] = k
  BY <1>1
<1>5. [f EXCEPT ![c].age = v] = [f EXCEPT ![c] = k]
  BY <1>2
<1>3. IsCall(k)
  BY DEF IsCall
<1> HIDE DEF k
<1>4. SameBut(f, [f EXCEPT ![c] = k], c) /\ [f EXCEPT ![c] = k][c] = k
  BY <1>3, CallReplaced
<1> QED BY <1>4, <1>5 DEF k

-----------------------------------------------------------------------------
(* Entering, waiting in and leaving a flight.                                *)

\* Calls keep their nodes, so the pages kept stay kept.
LEMMA NodesStay ==
  ASSUME CatalogInv, NEW c \in Calls, SameBut(call, call', c), call'[c].node = call[c].node
  PROVE  /\ \A d \in Calls : call'[d].node = call[d].node
         /\ KeptPages' = KeptPages
         /\ \A d \in Calls \ {c} : InFeed(d)' <=> InFeed(d)
<1>1. \A d \in Calls : call'[d].node = call[d].node
  BY DEF SameBut
<1>2. KeptPages' = KeptPages
  BY <1>1 DEF KeptPages
<1>3. \A d \in Calls \ {c} : InFeed(d)' <=> InFeed(d)
  BY DEF SameBut, InFeed
<1> QED BY <1>1, <1>2, <1>3

\* A call that waits on where it is, in the feed or outside it.
LEMMA FlightKept ==
  ASSUME CatalogConstants, CatalogInv, NEW c \in Calls, SameBut(call, call', c), call'[c].node = call[c].node,
         call'[c].cell = call[c].cell, call'[c].age = call[c].age, InFeed(c)' <=> InFeed(c),
         now' \in Int, CellsOK', \A x \in Calls : cell'[x].users = cell[x].users,
         UNCHANGED <<inflight, pages>>, SlotOK'
  PROVE  CatalogInv'
<1>1. /\ \A d \in Calls : call'[d].node = call[d].node /\ call'[d].cell = call[d].cell /\ call'[d].age = call[d].age
      /\ \A d \in Calls : InFeed(d)' <=> InFeed(d)
      /\ KeptPages' = KeptPages /\ AreCalls(call')
  BY NodesStay DEF SameBut
<1>2. CallsOK'
  BY <1>1 DEF CatalogInv, CallsOK
<1>3. UsersOK'
  <2>1. \A x \in Calls : Users(x)' = Users(x)
    BY <1>1 DEF Users
  <2> QED BY <2>1 DEF UsersOK, CatalogInv
<1>4. FlightOK'
  <2>1. \A n \in CatalogNodes : inflight'[n] # None => inflight'[n] \in Calls
    BY DEF CatalogInv, FlightOK
  <2> QED BY <1>1, <2>1 DEF FlightOK, CatalogInv
<1>5. pages' \in Seq(KeptPages')
  BY <1>1 DEF CatalogInv
<1> QED BY <1>2, <1>3, <1>4, <1>5 DEF CatalogInv

\* A call that leaves: the last user takes the page out of flight.
LEMMA FlightLeft ==
  ASSUME CatalogConstants, CatalogInv, NEW c \in Calls, SameBut(call, call', c), call'[c].node = call[c].node,
         call'[c].age \in Int, call'[c].age < TTL, InFeed(c), ~InFeed(c)', UNCHANGED now, CellsOK',
         NEW x \in Calls, x = call[c].cell,
         cell'[x].users = cell[x].users - 1, \A y \in Calls \ {x} : cell'[y].users = cell[y].users,
         LeaveFlight(c, x), turn' \in {None, turn}, turn' # c, pages' \in Seq(KeptPages)
  PROVE  CatalogInv'
<1> DEFINE m == call[c].node
<1>1. /\ \A d \in Calls : call'[d].node = call[d].node
      /\ \A d \in Calls \ {c} : call'[d] = call[d] /\ (InFeed(d)' <=> InFeed(d))
      /\ KeptPages' = KeptPages /\ AreCalls(call')
  BY NodesStay DEF SameBut
<1>2. /\ x \in Calls /\ m \in CatalogNodes /\ inflight[m] = x /\ inflight[m] # None /\ call[x].node = m
      /\ inflight \in [CatalogNodes -> Calls \cup {None}]
  BY DEF CatalogInv, FlightOK, CallsOK, CatalogConstants
<1>3. CallsOK'
  BY <1>1 DEF CatalogInv, CallsOK
<1>4. /\ Users(x)' = Users(x) \ {c} /\ c \in Users(x)
      /\ \A y \in Calls \ {x} : Users(y)' = Users(y)
  BY <1>1 DEF Users
<1>5. \A y \in Calls : IsFiniteSet(Users(y)) /\ Cardinality(Users(y)) \in Nat
  BY FS_Subset, FS_CardinalityType DEF Users, CatalogConstants
<1>6. cell[x].users = Cardinality(Users(x))
  BY <1>2 DEF CatalogInv, UsersOK
<1>7. UsersOK'
  <2>1. Cardinality(Users(x)') = Cardinality(Users(x)) - 1
    <3>1. Cardinality(Users(x) \ {c}) = Cardinality(Users(x)) - 1
      <4>1. IsFiniteSet(Users(x)) /\ c \in Users(x)
        BY <1>4, <1>5
      <4> HIDE DEF m
      <4> QED BY <4>1, FS_RemoveElement
    <3> QED BY <1>4, <3>1
  <2>2. ASSUME NEW y \in Calls PROVE cell'[y].users = Cardinality(Users(y)')
    <3>1. cell[y].users = Cardinality(Users(y))
      BY DEF CatalogInv, UsersOK
    <3>2. CASE y = x
      BY <1>6, <2>1, <3>2
    <3>3. CASE y # x
      BY <1>4, <3>1, <3>3
    <3> QED BY <3>2, <3>3
  <2> QED BY <2>2 DEF UsersOK
<1>8. \A d \in Calls : InFeed(d) /\ call[d].node = m => d \in Users(x)
  BY <1>2 DEF CatalogInv, FlightOK, Users
<1>9. FlightOK'
  <2>1. CASE cell[x].users = 1
    <3>1. Users(x) = {c}
      <4>1. IsFiniteSet(Users(x)) /\ Cardinality(Users(x)) = 1
        BY <1>5, <1>6, <2>1
      <4>2. PICK e : Users(x) = {e}
        BY <4>1, FS_Singleton
      <4> QED BY <1>4, <4>2
    <3>2. inflight' = [inflight EXCEPT ![m] = None]
      BY <2>1 DEF LeaveFlight
    <3>3. inflight' \in [CatalogNodes -> Calls \cup {None}] /\ inflight'[m] = None
          /\ \A n \in CatalogNodes \ {m} : inflight'[n] = inflight[n]
      BY <1>2, <3>2
    <3>4. \A d \in Calls : InFeed(d)' => d # c /\ InFeed(d) /\ call[d].node # m
      BY <1>1, <1>8, <3>1
    <3>5. ASSUME NEW n \in CatalogNodes, inflight'[n] # None
          PROVE  call'[inflight'[n]].node = n /\ \E d \in Calls : InFeed(d)' /\ call'[d].node = n
      <4>1. n # m /\ inflight[n] = inflight'[n] /\ inflight[n] \in Calls
        BY <1>2, <3>3, <3>5
      <4>2. PICK d \in Calls : InFeed(d) /\ call[d].node = n
        BY <3>5, <4>1 DEF CatalogInv, FlightOK
      <4>3. InFeed(d)'
        BY <1>1, <4>1, <4>2
      <4>4. call[inflight[n]].node = n
        BY <3>5, <4>1 DEF CatalogInv, FlightOK
      <4> QED BY <1>1, <4>1, <4>2, <4>3, <4>4
    <3>6. ASSUME NEW d \in Calls, InFeed(d)'
          PROVE  inflight'[call'[d].node] = call'[d].cell /\ call'[d].cell \in Calls
      <4>1. d # c /\ InFeed(d) /\ call[d].node # m /\ call'[d] = call[d] /\ call[d].node \in CatalogNodes
        BY <1>1, <3>4, <3>6 DEF CatalogInv, CallsOK
      <4>2. inflight[call[d].node] = call[d].cell /\ call[d].cell \in Calls
        BY <4>1 DEF CatalogInv, FlightOK
      <4> QED BY <3>3, <4>1, <4>2
    <3> QED BY <3>3, <3>5, <3>6 DEF FlightOK
  <2>2. CASE cell[x].users # 1
    <3>1. Users(x) # {c}
      <4>1. Cardinality({c}) = 1
        BY FS_Singleton
      <4> QED BY <1>6, <2>2, <4>1
    <3>2. PICK e \in Users(x) : e # c
      BY <1>4, <3>1
    <3>3. e \in Calls /\ InFeed(e) /\ call[e].cell = x /\ InFeed(e)' /\ call'[e] = call[e]
      BY <1>1, <3>2 DEF Users
    <3>4. call[e].node = m
      <4>1. inflight[call[e].node] = x /\ call[e].node \in CatalogNodes /\ x # None
        BY <1>2, <3>3 DEF CatalogInv, FlightOK, CallsOK
      <4>2. call[x].node = call[e].node
        BY <4>1 DEF CatalogInv, FlightOK
      <4> QED BY <1>2, <4>2
    <3>5. inflight' = inflight
      BY <2>2 DEF LeaveFlight
    <3>6. ASSUME NEW n \in CatalogNodes, inflight'[n] # None
          PROVE  call'[inflight'[n]].node = n /\ \E d \in Calls : InFeed(d)' /\ call'[d].node = n
      <4>1. inflight[n] \in Calls /\ call[inflight[n]].node = n
        BY <1>2, <3>5, <3>6 DEF CatalogInv, FlightOK
      <4>2. PICK d \in Calls : InFeed(d) /\ call[d].node = n
        BY <3>5, <3>6 DEF CatalogInv, FlightOK
      <4>3. CASE d = c
        BY <1>1, <3>3, <3>4, <3>5, <4>1, <4>2, <4>3
      <4>4. CASE d # c
        BY <1>1, <3>5, <4>1, <4>2, <4>4
      <4> QED BY <4>3, <4>4
    <3>7. ASSUME NEW d \in Calls, InFeed(d)'
          PROVE  inflight'[call'[d].node] = call'[d].cell /\ call'[d].cell \in Calls
      <4>1. d # c /\ InFeed(d) /\ call'[d] = call[d]
        BY <1>1, <3>7
      <4> QED BY <3>5, <4>1 DEF CatalogInv, FlightOK
    <3> QED BY <1>2, <3>5, <3>6, <3>7 DEF FlightOK
  <2> QED BY <2>1, <2>2
<1>10. SlotOK'
  BY <1>1 DEF SlotOK, CatalogInv
<1> QED BY <1>1, <1>3, <1>7, <1>9, <1>10 DEF CatalogInv

\* A call that enters waits on the cell in flight, a kept one of its node, or its own.
LEMMA FlightEntered ==
  ASSUME CatalogConstants, CatalogInv, NEW c \in Calls, SameBut(call, call', c), call'[c].node = call[c].node,
         NEW x \in Calls, call'[c].cell = x, call'[c].age = call[c].age, ~InFeed(c), InFeed(c)', UNCHANGED <<now, turn>>,
         call[x].node = call[c].node, inflight[call[c].node] \in {None, x},
         CellsOK', \A y \in Calls : cell'[y].users = (IF y = x THEN cell[y].users + 1 ELSE cell[y].users),
         inflight' = [inflight EXCEPT ![call[c].node] = x], pages' \in Seq(KeptPages)
  PROVE  CatalogInv'
<1> DEFINE m == call[c].node
<1>1. /\ \A d \in Calls : call'[d].node = call[d].node
      /\ \A d \in Calls \ {c} : call'[d] = call[d] /\ (InFeed(d)' <=> InFeed(d))
      /\ KeptPages' = KeptPages /\ AreCalls(call')
  BY NodesStay DEF SameBut
<1>2. /\ m \in CatalogNodes /\ inflight \in [CatalogNodes -> Calls \cup {None}] /\ x # None
  BY DEF CatalogInv, FlightOK, CallsOK, CatalogConstants
<1>3. CallsOK'
  BY <1>1 DEF CatalogInv, CallsOK
<1>4. /\ Users(x)' = Users(x) \cup {c} /\ c \notin Users(x)
      /\ \A y \in Calls \ {x} : Users(y)' = Users(y)
  BY <1>1 DEF Users
<1>5. \A y \in Calls : IsFiniteSet(Users(y)) /\ Cardinality(Users(y)) \in Nat
  BY FS_Subset, FS_CardinalityType DEF Users, CatalogConstants
<1>6. UsersOK'
  <2>1. Cardinality(Users(x)') = Cardinality(Users(x)) + 1
    <3>1. IsFiniteSet(Users(x)) /\ c \notin Users(x)
      BY <1>4, <1>5
    <3>2. Cardinality(Users(x) \cup {c}) = Cardinality(Users(x)) + 1
      BY <3>1, FS_AddElement
    <3> QED BY <1>4, <3>2
  <2>2. ASSUME NEW y \in Calls PROVE cell'[y].users = Cardinality(Users(y)')
    <3>1. cell[y].users = Cardinality(Users(y))
      BY DEF CatalogInv, UsersOK
    <3>2. CASE y = x
      BY <2>1, <3>1, <3>2
    <3>3. CASE y # x
      BY <1>4, <3>1, <3>3
    <3> QED BY <3>2, <3>3
  <2> QED BY <2>2 DEF UsersOK
<1>7. FlightOK'
  <2>1. inflight' \in [CatalogNodes -> Calls \cup {None}] /\ inflight'[m] = x /\ \A n \in CatalogNodes \ {m} : inflight'[n] = inflight[n]
    BY <1>2
  <2>2. ASSUME NEW n \in CatalogNodes, inflight'[n] # None
        PROVE  call'[inflight'[n]].node = n /\ \E d \in Calls : InFeed(d)' /\ call'[d].node = n
    <3>1. CASE n = m
      BY <1>1, <2>1, <3>1
    <3>2. CASE n # m
      <4>1. inflight[n] = inflight'[n] /\ inflight[n] \in Calls /\ call[inflight[n]].node = n
        BY <1>2, <2>1, <2>2, <3>2 DEF CatalogInv, FlightOK
      <4>2. PICK d \in Calls : InFeed(d) /\ call[d].node = n
        BY <2>2, <4>1 DEF CatalogInv, FlightOK
      <4>3. d # c
        BY <4>2
      <4> QED BY <1>1, <4>1, <4>2, <4>3
    <3> QED BY <3>1, <3>2
  <2>3. ASSUME NEW d \in Calls, InFeed(d)'
        PROVE  inflight'[call'[d].node] = call'[d].cell /\ call'[d].cell \in Calls
    <3>1. CASE d = c
      BY <1>1, <2>1, <3>1
    <3>2. CASE d # c
      <4>1. InFeed(d) /\ call'[d] = call[d] /\ call[d].node \in CatalogNodes
        BY <1>1, <2>3, <3>2 DEF CatalogInv, CallsOK
      <4>2. inflight[call[d].node] = call[d].cell /\ call[d].cell \in Calls
        BY <4>1 DEF CatalogInv, FlightOK
      <4>3. call[d].node = m => call[d].cell = x
        BY <1>2, <4>2 DEF CatalogConstants
      <4> QED BY <2>1, <4>1, <4>2, <4>3
    <3> QED BY <3>1, <3>2
  <2> QED BY <2>1, <2>2, <2>3 DEF FlightOK
<1>8. SlotOK'
  <2>1. turn # None => turn \in Calls /\ call[turn].pc = "reading" /\ InFeed(turn)
    BY DEF CatalogInv, SlotOK, InFeed
  <2> QED BY <1>1, <2>1 DEF SlotOK
<1> QED BY <1>1, <1>3, <1>6, <1>7, <1>8 DEF CatalogInv

-----------------------------------------------------------------------------
(* Several fields of a call at once.                                         *)

\* A call whose progress, page or state changes, not what it asks for or waits on.
Steps(f, g, c) == SameBut(f, g, c) /\ g[c].node = f[c].node /\ g[c].cell = f[c].cell /\ g[c].age = f[c].age

\* Only the progress.
LEMMA PcSteps ==
  ASSUME NEW f, AreCalls(f), NEW c \in Calls, NEW v
  PROVE  Steps(f, [f EXCEPT ![c].pc = v], c) /\ [f EXCEPT ![c].pc = v][c].pc = v
<1> DEFINE g == [f EXCEPT ![c].pc = v]
<1>1. SameBut(f, g, c)
      /\ g[c] = [pc |-> v, node |-> f[c].node, cell |-> f[c].cell, page |-> f[c].page, ok |-> f[c].ok, age |-> f[c].age]
  BY PcChanges
<1> HIDE DEF g
<1>2. Steps(f, g, c) /\ g[c].pc = v
  BY <1>1 DEF Steps
<1> QED BY <1>2 DEF g

\* And the page.
LEMMA PageSteps ==
  ASSUME NEW f, NEW h, NEW c \in Calls, Steps(f, h, c), NEW p
  PROVE  Steps(f, [h EXCEPT ![c].page = p], c) /\ [h EXCEPT ![c].page = p][c].pc = h[c].pc
<1> DEFINE g == [h EXCEPT ![c].page = p]
<1>1. AreCalls(h)
  BY DEF Steps, SameBut
<1>2. SameBut(h, g, c) /\ g[c] = [pc |-> h[c].pc, node |-> h[c].node, cell |-> h[c].cell, page |-> p, ok |-> h[c].ok, age |-> h[c].age]
  BY <1>1, PageChanges
<1> HIDE DEF g
<1>3. Steps(f, g, c) /\ g[c].pc = h[c].pc
  BY <1>2 DEF Steps, SameBut
<1> QED BY <1>3 DEF g

\* And whether every part could be read.
LEMMA OkSteps ==
  ASSUME NEW f, NEW h, NEW c \in Calls, Steps(f, h, c), NEW o
  PROVE  Steps(f, [h EXCEPT ![c].ok = o], c) /\ [h EXCEPT ![c].ok = o][c].pc = h[c].pc
<1> DEFINE g == [h EXCEPT ![c].ok = o]
<1>1. AreCalls(h)
  BY DEF Steps, SameBut
<1>2. SameBut(h, g, c) /\ g[c] = [pc |-> h[c].pc, node |-> h[c].node, cell |-> h[c].cell, page |-> h[c].page, ok |-> o, age |-> h[c].age]
  BY <1>1, OkChanges
<1> HIDE DEF g
<1>3. Steps(f, g, c) /\ g[c].pc = h[c].pc
  BY <1>2 DEF Steps, SameBut
<1> QED BY <1>3 DEF g

\* A call that goes on without some part of what it reads.
LEMMA DegradedSteps ==
  ASSUME AreCalls(call), NEW c \in Calls, NEW v, NEW o, call' = [call EXCEPT ![c].pc = v, ![c].ok = o]
  PROVE  Steps(call, call', c) /\ call'[c].pc = v
<1> DEFINE h == [call EXCEPT ![c].pc = v]
<1>1. call' = [h EXCEPT ![c].ok = o]
  OBVIOUS
<1>2. Steps(call, h, c) /\ h[c].pc = v
  BY PcSteps
<1> HIDE DEF h
<1>3. Steps(call, [h EXCEPT ![c].ok = o], c) /\ [h EXCEPT ![c].ok = o][c].pc = v
  BY <1>2, OkSteps
<1> QED BY <1>1, <1>3

-----------------------------------------------------------------------------
(* The steps outside the feed.                                               *)

\* A call before or after the feed holds neither a cell nor the slot.
LEMMA OutsideStep ==
  ASSUME CatalogConstants, CatalogInv, NEW c \in Calls, Steps(call, call', c), ~InFeed(c),
         call'[c].pc \notin {"locking", "queued", "reading"}, UNCHANGED now, UNCHANGED Feed
  PROVE  CatalogInv'
<1>1. CellsOK' /\ (\A x \in Calls : cell'[x].users = cell[x].users) /\ UNCHANGED <<inflight, pages, turn>>
  BY DEF Feed, CatalogInv, CellsOK
<1>2. SlotOK'
  <2>1. turn # None => turn \in Calls /\ turn # c /\ call[turn].pc = "reading"
    BY DEF CatalogInv, SlotOK, InFeed
  <2> QED BY <1>1, <2>1 DEF SlotOK, Steps, SameBut
<1>3. ~InFeed(c)'
  BY DEF InFeed
<1>4. now' \in Int
  BY DEF CatalogInv
<1> QED BY <1>1, <1>2, <1>3, <1>4, FlightKept DEF Steps

\* The retriever's reads around the feed, and its entry by the crosswalk route.
LEMMA OutsideOK ==
  ASSUME CatalogConstants, CatalogInv, NEW c \in Calls,
         Expand(c) \/ AskRoute(c) \/ ReadNative(c) \/ StoreMapping(c)
  PROVE  CatalogInv'
<1>1. AreCalls(call)
  BY DEF CatalogInv, CallsOK
<1>2. ASSUME NEW v, v \notin {"locking", "queued", "reading"}, Goes(c, v), ~InFeed(c), UNCHANGED now, UNCHANGED Feed
      PROVE  CatalogInv'
  <2>1. Steps(call, call', c) /\ call'[c].pc = v
    <3>1. Steps(call, [call EXCEPT ![c].pc = v], c) /\ [call EXCEPT ![c].pc = v][c].pc = v
      BY <1>1, PcSteps
    <3>2. call' = [call EXCEPT ![c].pc = v]
      BY <1>2 DEF Goes
    <3> QED BY <3>1, <3>2
  <2> QED BY <1>2, <2>1, OutsideStep
<1>3. CASE Expand(c)
  <2>1. (Goes(c, "mapping") \/ Goes(c, "native")) /\ ~InFeed(c) /\ UNCHANGED now /\ UNCHANGED Feed
    BY <1>3 DEF Expand, InFeed
  <2> QED BY <1>2, <2>1
<1>4. CASE AskRoute(c)
  <2>1. Goes(c, "enter") /\ ~InFeed(c) /\ UNCHANGED now /\ UNCHANGED Feed
    BY <1>4 DEF AskRoute, InFeed
  <2> QED BY <1>2, <2>1
<1>5. CASE ReadNative(c)
  <2>1. (Goes(c, "mapping") \/ Goes(c, "failed")) /\ ~InFeed(c) /\ UNCHANGED now /\ UNCHANGED Feed
    BY <1>5 DEF ReadNative, InFeed
  <2> QED BY <1>2, <2>1
<1>6. CASE StoreMapping(c)
  <2>1. Goes(c, "done") /\ ~InFeed(c) /\ UNCHANGED now /\ UNCHANGED Feed
    BY <1>6 DEF StoreMapping, InFeed
  <2> QED BY <1>2, <2>1
<1> QED BY <1>3, <1>4, <1>5, <1>6

\* The mapping of the cache, or the feed.
LEMMA MappingOK ==
  ASSUME CatalogConstants, CatalogInv, NEW c \in Calls, Mapping(c)
  PROVE  CatalogInv'
<1>1. AreCalls(call) /\ ~InFeed(c) /\ UNCHANGED now /\ UNCHANGED Feed
  BY DEF CatalogInv, CallsOK, Mapping, InFeed
<1>2. \/ \E p, o : call' = [call EXCEPT ![c].pc = "done", ![c].page = p, ![c].ok = o]
      \/ call' = [call EXCEPT ![c].pc = "enter"]
  BY DEF Mapping
<1>3. CASE \E p, o : call' = [call EXCEPT ![c].pc = "done", ![c].page = p, ![c].ok = o]
  <2>1. PICK p, o : call' = [call EXCEPT ![c].pc = "done", ![c].page = p, ![c].ok = o]
    BY <1>3
  <2> DEFINE h == [call EXCEPT ![c].pc = "done"]
             k == [h EXCEPT ![c].page = p]
  <2>2. call' = [k EXCEPT ![c].ok = o]
    BY <2>1
  <2>3. Steps(call, h, c) /\ h[c].pc = "done"
    BY <1>1, PcSteps
  <2> HIDE DEF h
  <2>4. Steps(call, k, c) /\ k[c].pc = "done"
    BY <2>3, PageSteps
  <2> HIDE DEF k
  <2>5. Steps(call, call', c) /\ call'[c].pc = "done"
    <3>1. Steps(call, [k EXCEPT ![c].ok = o], c) /\ [k EXCEPT ![c].ok = o][c].pc = "done"
      BY <2>4, OkSteps
    <3> QED BY <2>2, <3>1
  <2> QED BY <1>1, <2>5, OutsideStep
<1>4. CASE call' = [call EXCEPT ![c].pc = "enter"]
  <2>1. Steps(call, call', c) /\ call'[c].pc = "enter"
    <3>1. Steps(call, [call EXCEPT ![c].pc = "enter"], c) /\ [call EXCEPT ![c].pc = "enter"][c].pc = "enter"
      BY <1>1, PcSteps
    <3> QED BY <1>4, <3>1
  <2> QED BY <1>1, <2>1, OutsideStep
<1> QED BY <1>2, <1>3, <1>4

\* The parents, found, failed or timed out.
LEMMA ParentsOK ==
  ASSUME CatalogConstants, CatalogInv, NEW c \in Calls, Parents(c)
  PROVE  CatalogInv'
<1>1. AreCalls(call) /\ ~InFeed(c) /\ UNCHANGED now /\ UNCHANGED Feed
  BY DEF CatalogInv, CallsOK, Parents, InFeed
<1>2. \E v \in {"done", "store", "failed"}, o \in BOOLEAN : call' = [call EXCEPT ![c].pc = v, ![c].ok = o]
  BY DEF Parents, Unavailable
<1>3. PICK v \in {"done", "store", "failed"}, o \in BOOLEAN : call' = [call EXCEPT ![c].pc = v, ![c].ok = o]
  BY <1>2
<1>4. Steps(call, call', c) /\ call'[c].pc = v
  BY <1>1, <1>3, DegradedSteps
<1> QED BY <1>1, <1>4, OutsideStep

-----------------------------------------------------------------------------
(* The steps in the feed.                                                    *)

\* Leaving a cell: its lock is let go of, and it has one user less.
LEMMA CellLeft ==
  ASSUME CatalogInv, NEW c \in Calls, NEW x \in Calls, NEW w \in Cells, w.users = cell[x].users,
         w.result # Never => w.expires = w.result + TTL, cell' = [cell EXCEPT ![x] = Left(c, x, w)]
  PROVE  CellsOK' /\ cell'[x].users = cell[x].users - 1 /\ \A y \in Calls \ {x} : cell'[y].users = cell[y].users
<1> DEFINE l == IF w.lock = c THEN None ELSE w.lock
           k == [lock |-> l, result |-> w.result, expires |-> w.expires, users |-> w.users - 1]
<1>1. w = [lock |-> w.lock, result |-> w.result, expires |-> w.expires, users |-> w.users]
      /\ l \in Calls \cup {None} /\ w.result \in Int /\ w.expires \in Int /\ w.users \in Int
  BY DEF Cells
<1>2. Left(c, x, w) = k
  <2> DEFINE v == [w EXCEPT !.lock = l]
  <2>1. v = [lock |-> l, result |-> w.result, expires |-> w.expires, users |-> w.users]
    BY <1>1
  <2>2. Left(c, x, w) = [v EXCEPT !.users = @ - 1]
    BY DEF Left
  <2> HIDE DEF l, v
  <2>3. [v EXCEPT !.users = @ - 1] = [lock |-> l, result |-> w.result, expires |-> w.expires, users |-> w.users - 1]
    BY <2>1
  <2> QED BY <2>2, <2>3
<1>3. k \in Cells /\ k.users = cell[x].users - 1 /\ (k.result # Never => k.expires = k.result + TTL)
  BY <1>1 DEF Cells
<1> HIDE DEF k
<1>4. cell' \in [Calls -> Cells] /\ cell'[x] = k /\ \A y \in Calls \ {x} : cell'[y] = cell[y]
  BY <1>2, <1>3 DEF CatalogInv, CellsOK
<1> QED BY <1>3, <1>4 DEF CatalogInv, CellsOK

\* Whoever waits in the feed waits on a cell of its node, with a value that expires in time.
LEMMA Waiting ==
  ASSUME CatalogConstants, CatalogInv, NEW c \in Calls, InFeed(c)
  PROVE  /\ call[c].cell \in Calls /\ call[c].node \in CatalogNodes /\ call[call[c].cell].node = call[c].node
         /\ cell[call[c].cell] \in Cells /\ now \in Int /\ TTL \in Int /\ AreCalls(call)
         /\ cell[call[c].cell].result # Never => cell[call[c].cell].expires = cell[call[c].cell].result + TTL
<1>1. call[c].cell \in Calls /\ inflight[call[c].node] = call[c].cell /\ call[c].node \in CatalogNodes /\ AreCalls(call)
  BY DEF CatalogInv, FlightOK, CallsOK
<1>2. call[call[c].cell].node = call[c].node
  BY <1>1 DEF CatalogInv, FlightOK, CatalogConstants
<1>3. cell[call[c].cell] \in Cells /\ now \in Int /\ TTL \in Int
      /\ (cell[call[c].cell].result # Never => cell[call[c].cell].expires = cell[call[c].cell].result + TTL)
  BY <1>1 DEF CatalogInv, CellsOK, CatalogConstants
<1> QED BY <1>1, <1>2, <1>3

\* A call that leaves the feed without a page, or with the one just read.
LEMMA LeavesFeed ==
  ASSUME CatalogConstants, CatalogInv, NEW c \in Calls, InFeed(c), Steps(call, call', c), ~InFeed(c)', UNCHANGED now,
         NEW x \in Calls, x = call[c].cell, NEW w \in Cells, w.users = cell[x].users,
         w.result # Never => w.expires = w.result + TTL, cell' = [cell EXCEPT ![x] = Left(c, x, w)],
         LeaveFlight(c, x), turn' \in {None, turn}, turn' # c, pages' \in Seq(KeptPages)
  PROVE  CatalogInv'
<1>1. CellsOK' /\ cell'[x].users = cell[x].users - 1 /\ \A y \in Calls \ {x} : cell'[y].users = cell[y].users
  BY CellLeft
<1>2. call'[c].age \in Int /\ call'[c].age < TTL /\ SameBut(call, call', c) /\ call'[c].node = call[c].node
  BY DEF Steps, CatalogInv, CallsOK
<1> QED BY <1>1, <1>2, FlightLeft

\* Pages kept or dropped, one at a time.
LEMMA PagesKept ==
  ASSUME CatalogConstants, CatalogInv, NEW n
  PROVE  /\ Others(n) \in Seq(KeptPages)
         /\ Places(n) # {} => pages[Place(n)] \in KeptPages /\ pages[Place(n)].node = n
<1>1. pages \in Seq(KeptPages)
  BY DEF CatalogInv
<1>2. ASSUME Places(n) # {}
      PROVE  Place(n) \in 1 .. Len(pages) /\ pages[Place(n)].node = n
  <2>1. Place(n) \in Places(n)
    BY <1>2 DEF Place
  <2> QED BY <2>1 DEF Places
<1>3. ASSUME NEW i \in 1 .. Len(pages) PROVE RemoveAt(pages, i) \in Seq(KeptPages)
  <2>1. Len(pages) \in Nat
    BY <1>1
  <2>2. SubSeq(pages, 1, i - 1) \in Seq(KeptPages) /\ SubSeq(pages, i + 1, Len(pages)) \in Seq(KeptPages)
    BY <1>1, <2>1, SubSeqProperties
  <2> QED BY <2>2 DEF RemoveAt
<1>4. Others(n) \in Seq(KeptPages)
  BY <1>1, <1>2, <1>3 DEF Others
<1> QED BY <1>1, <1>2, <1>4

\* A page added, with room made for it.
LEMMA PageKept ==
  ASSUME CatalogConstants, NEW s \in Seq(KeptPages), NEW e \in KeptPages
  PROVE  Append(s, e) \in Seq(KeptPages) /\ Evicted(Append(s, e)) \in Seq(KeptPages)
<1>1. Append(s, e) \in Seq(KeptPages) /\ Append(s, e) # <<>>
  BY AppendProperties
<1>2. Tail(Append(s, e)) \in Seq(KeptPages)
  BY <1>1
<1> QED BY <1>1, <1>2 DEF Evicted

\* The lock, free: the page it guards is served, or the call queues for the slot.
LEMMA LockOK ==
  ASSUME CatalogConstants, CatalogInv, NEW c \in Calls, Lock(c)
  PROVE  CatalogInv'
<1> DEFINE x == call[c].cell
<1>1. InFeed(c) /\ call[c].pc = "locking"
  BY DEF Lock, InFeed
<1>2. PICK y \in Calls : y = x
  BY <1>1, Waiting
<1>3. /\ y \in Calls /\ call[c].node \in CatalogNodes /\ cell[y] \in Cells /\ now \in Int /\ TTL \in Int /\ AreCalls(call)
      /\ cell[y].result # Never => cell[y].expires = cell[y].result + TTL
  BY <1>1, <1>2, Waiting
<1>4. turn # c /\ UNCHANGED <<now, pages, turn>>
  BY <1>1 DEF CatalogConstants, CatalogInv, SlotOK, Lock
<1>5. CASE cell[y].result # Never /\ cell[y].expires > now
  <2> DEFINE g == [call EXCEPT ![c].pc = "parents"]
             h == [g EXCEPT ![c].page = cell[y].result]
             a == now - cell[y].result
  <2>1. /\ call' = [h EXCEPT ![c].age = a]
        /\ cell' = [cell EXCEPT ![y] = Left(c, y, cell[y])]
        /\ LeaveFlight(c, y)
    BY <1>2, <1>5 DEF Lock, Served
  <2>2. Steps(call, g, c) /\ g[c].pc = "parents"
    <3>1. AreCalls(call)
      BY <1>3
    <3> QED BY <3>1, PcSteps
  <2> HIDE DEF g
  <2>3. Steps(call, h, c) /\ h[c].pc = "parents"
    BY <2>2, PageSteps
  <2>4. a \in Int /\ a < TTL
    BY <1>3, <1>5 DEF Cells
  <2> HIDE DEF h, a
  <2>5. AreCalls(h)
    BY <2>3 DEF Steps, SameBut
  <2>6. SameBut(h, call', c)
        /\ call'[c] = [pc |-> h[c].pc, node |-> h[c].node, cell |-> h[c].cell, page |-> h[c].page, ok |-> h[c].ok, age |-> a]
    <3>1. SameBut(h, [h EXCEPT ![c].age = a], c) /\ [h EXCEPT ![c].age = a][c]
            = [pc |-> h[c].pc, node |-> h[c].node, cell |-> h[c].cell, page |-> h[c].page, ok |-> h[c].ok, age |-> a]
      BY <2>5, AgeChanges
    <3> QED BY <2>1, <3>1
  <2>7. SameBut(call, call', c) /\ call'[c].node = call[c].node /\ call'[c].age = a /\ call'[c].pc = "parents"
    BY <2>3, <2>6 DEF Steps, SameBut
  <2>8. ~InFeed(c)'
    BY <2>7 DEF InFeed
  <2>9. CellsOK' /\ cell'[y].users = cell[y].users - 1 /\ \A z \in Calls \ {y} : cell'[z].users = cell[z].users
    BY <1>3, <2>1, CellLeft
  <2>10. turn' \in {None, turn} /\ turn' # c /\ pages' \in Seq(KeptPages)
    BY <1>4 DEF CatalogInv
  <2> QED BY <1>1, <1>2, <1>4, <2>1, <2>4, <2>7, <2>8, <2>9, <2>10, FlightLeft
<1>6. CASE ~(cell[y].result # Never /\ cell[y].expires > now)
  <2>1. Goes(c, "queued") /\ cell' = [cell EXCEPT ![y].lock = c] /\ UNCHANGED inflight
    BY <1>2, <1>6 DEF Lock
  <2>2. Steps(call, call', c) /\ call'[c].pc = "queued"
    <3>1. AreCalls(call)
      BY <1>3
    <3>2. Steps(call, [call EXCEPT ![c].pc = "queued"], c) /\ [call EXCEPT ![c].pc = "queued"][c].pc = "queued"
      BY <3>1, PcSteps
    <3> QED BY <2>1, <3>2 DEF Goes
  <2>3. CellsOK' /\ \A z \in Calls : cell'[z].users = cell[z].users
    <3> DEFINE k == [cell[y] EXCEPT !.lock = c]
    <3>1. k \in Cells /\ k.users = cell[y].users /\ k.result = cell[y].result /\ k.expires = cell[y].expires
      BY <1>3 DEF Cells
    <3>2. cell' = [cell EXCEPT ![y] = k]
      BY <2>1
    <3> HIDE DEF k
    <3>3. cell' \in [Calls -> Cells] /\ cell'[y] = k /\ \A z \in Calls \ {y} : cell'[z] = cell[z]
      BY <3>1, <3>2 DEF CatalogInv, CellsOK
    <3> QED BY <1>3, <3>1, <3>3 DEF CatalogInv, CellsOK
  <2>4. InFeed(c)'
    BY <2>2 DEF InFeed
  <2>5. SlotOK'
    BY <1>4, <2>2 DEF CatalogInv, SlotOK, Steps, SameBut
  <2> QED BY <1>1, <1>3, <1>4, <2>1, <2>2, <2>3, <2>4, <2>5, FlightKept DEF Steps
<1> QED BY <1>5, <1>6

\* The slot, free.
LEMMA QueueOK ==
  ASSUME CatalogConstants, CatalogInv, NEW c \in Calls, Queue(c)
  PROVE  CatalogInv'
<1>1. /\ InFeed(c) /\ turn' = c /\ Goes(c, "reading") /\ UNCHANGED <<now, cell, inflight, pages>>
      /\ AreCalls(call)
  BY DEF Queue, InFeed, CatalogInv, CallsOK
<1>2. Steps(call, call', c) /\ call'[c].pc = "reading"
  <2>1. AreCalls(call)
    BY <1>1
  <2>2. Steps(call, [call EXCEPT ![c].pc = "reading"], c) /\ [call EXCEPT ![c].pc = "reading"][c].pc = "reading"
    BY <2>1, PcSteps
  <2> QED BY <1>1, <2>2 DEF Goes
<1>3. InFeed(c)' /\ SlotOK'
  BY <1>1, <1>2 DEF InFeed, SlotOK
<1>4. CellsOK' /\ now' \in Int /\ \A z \in Calls : cell'[z].users = cell[z].users
  BY <1>1 DEF CatalogInv, CellsOK
<1> QED BY <1>1, <1>2, <1>3, <1>4, FlightKept DEF Steps

\* The query's answer.
LEMMA ReadPageOK ==
  ASSUME CatalogConstants, CatalogInv, NEW c \in Calls, ReadPage(c)
  PROVE  CatalogInv'
<1>1. InFeed(c) /\ call[c].pc = "reading"
  BY DEF ReadPage, InFeed
<1>2. PICK y \in Calls : y = call[c].cell
  BY <1>1, Waiting
<1>3. /\ call[c].node \in CatalogNodes /\ call[y].node = call[c].node /\ cell[y] \in Cells /\ now \in Int
      /\ TTL \in Int /\ AreCalls(call)
  BY <1>1, <1>2, Waiting
<1> DEFINE w == [cell[y] EXCEPT !.result = now, !.expires = now + TTL]
           g == [call EXCEPT ![c].pc = "parents"]
           e == [node |-> call[c].node, cell |-> y]
<1>4. /\ call' = [g EXCEPT ![c].page = now]
      /\ cell' = [cell EXCEPT ![y] = Left(c, y, w)] /\ LeaveFlight(c, y)
      /\ pages' = Evicted(Append(Others(call[c].node), e))
      /\ turn' = None /\ UNCHANGED now
  BY <1>2 DEF ReadPage
<1>5. w \in Cells /\ w.users = cell[y].users /\ (w.result # Never => w.expires = w.result + TTL)
  <2> DEFINE v == [cell[y] EXCEPT !.result = now]
  <2>1. v \in Cells /\ v.users = cell[y].users /\ v.result = now
    BY <1>3 DEF Cells
  <2>2. w = [v EXCEPT !.expires = now + TTL]
    OBVIOUS
  <2> HIDE DEF v, w
  <2>3. now + TTL \in Int
    BY <1>3
  <2> QED BY <2>1, <2>2, <2>3 DEF Cells
<1>6. Steps(call, g, c) /\ g[c].pc = "parents"
  <2>1. AreCalls(call)
    BY <1>3
  <2> QED BY <2>1, PcSteps
<1> HIDE DEF g
<1>7. Steps(call, call', c) /\ call'[c].pc = "parents"
  <2>1. Steps(call, [g EXCEPT ![c].page = now], c) /\ [g EXCEPT ![c].page = now][c].pc = "parents"
    BY <1>6, PageSteps
  <2> QED BY <1>4, <2>1
<1>8. pages' \in Seq(KeptPages)
  <2>1. e \in KeptPages
    BY <1>2, <1>3 DEF KeptPages
  <2> HIDE DEF e
  <2> QED BY <1>4, <2>1, PagesKept, PageKept
<1> HIDE DEF w
<1>9. ~InFeed(c)' /\ turn' \in {None, turn} /\ turn' # c
  BY <1>4, <1>7 DEF InFeed, CatalogConstants
<1> QED BY <1>1, <1>2, <1>4, <1>5, <1>7, <1>8, <1>9, LeavesFeed

\* A call that leaves empty-handed.
LEMMA GivesUp ==
  ASSUME CatalogConstants, CatalogInv, NEW c \in Calls, InFeed(c), Steps(call, call', c),
         call'[c].pc \notin {"locking", "queued", "reading"}, UNCHANGED <<now, pages>>,
         cell' = [cell EXCEPT ![call[c].cell] = Left(c, call[c].cell, @)], turn' = SlotAfter(c),
         LeaveFlight(c, call[c].cell)
  PROVE  CatalogInv'
<1>1. PICK y \in Calls : y = call[c].cell
  BY Waiting
<1>2. cell[y] \in Cells /\ (cell[y].result # Never => cell[y].expires = cell[y].result + TTL)
  BY <1>1, Waiting
<1>3. cell' = [cell EXCEPT ![y] = Left(c, y, cell[y])] /\ LeaveFlight(c, y)
  BY <1>1
<1>4. ~InFeed(c)' /\ turn' \in {None, turn} /\ turn' # c /\ pages' \in Seq(KeptPages)
  BY DEF InFeed, SlotAfter, CatalogConstants, CatalogInv
<1> QED BY <1>1, <1>2, <1>3, <1>4, LeavesFeed

\* The read fails, or an expansion waits too long for it.
LEMMA FailPageOK ==
  ASSUME CatalogConstants, CatalogInv, NEW c \in Calls, FailPage(c)
  PROVE  CatalogInv'
<1>1. InFeed(c) /\ AreCalls(call)
  BY DEF FailPage, InFeed, CatalogInv, CallsOK
<1>2. PICK v \in {"done", "failed"} : call' = [call EXCEPT ![c].pc = v, ![c].ok = FALSE]
  BY DEF FailPage, Unavailable
<1>3. Steps(call, call', c) /\ call'[c].pc = v
  BY <1>1, <1>2, DegradedSteps
<1>4. /\ cell' = [cell EXCEPT ![call[c].cell] = Left(c, call[c].cell, @)] /\ turn' = SlotAfter(c)
      /\ LeaveFlight(c, call[c].cell) /\ UNCHANGED <<now, pages>>
  BY DEF FailPage
<1> QED BY <1>1, <1>3, <1>4, GivesUp

\* The caller's deadline.
LEMMA CancelOK ==
  ASSUME CatalogConstants, CatalogInv, NEW c \in Calls, Cancel(c)
  PROVE  CatalogInv'
<1>1. Steps(call, call', c) /\ call'[c].pc = "cancelled"
  <2>1. AreCalls(call) /\ Goes(c, "cancelled")
    BY DEF CatalogInv, CallsOK, Cancel
  <2>2. Steps(call, [call EXCEPT ![c].pc = "cancelled"], c) /\ [call EXCEPT ![c].pc = "cancelled"][c].pc = "cancelled"
    BY <2>1, PcSteps
  <2> QED BY <2>1, <2>2 DEF Goes
<1>2. CASE call[c].pc \in {"native", "parents"} /\ UNCHANGED Feed
  <2>1. ~InFeed(c) /\ UNCHANGED now
    BY <1>2 DEF InFeed, Cancel
  <2> QED BY <1>1, <1>2, <2>1, OutsideStep
<1>3. CASE call[c].pc \in {"locking", "queued", "reading"}
  <2>1. /\ InFeed(c) /\ UNCHANGED <<now, pages>> /\ turn' = SlotAfter(c) /\ LeaveFlight(c, call[c].cell)
        /\ cell' = [cell EXCEPT ![call[c].cell] = Left(c, call[c].cell, @)]
    BY <1>3 DEF Cancel, InFeed
  <2> QED BY <1>1, <2>1, GivesUp
<1> QED BY <1>2, <1>3 DEF Cancel

\* A call enters: it shares the cell of its page in flight or kept, or makes one.
LEMMA EnterOK ==
  ASSUME CatalogConstants, CatalogInv, NEW c \in Calls, Enter(c)
  PROVE  CatalogInv'
<1> DEFINE m == call[c].node
<1>1. /\ ~InFeed(c) /\ m \in CatalogNodes /\ AreCalls(call) /\ UNCHANGED <<now, turn>>
      /\ inflight \in [CatalogNodes -> Calls \cup {None}]
  BY DEF Enter, InFeed, CatalogInv, CallsOK, FlightOK
<1>2. Places(m) # {} => pages[Place(m)] \in KeptPages /\ pages[Place(m)].node = m
  BY PagesKept
<1>3. CellFor(c) \in Calls /\ call[CellFor(c)].node = m /\ inflight[m] \in {None, CellFor(c)}
  <2>1. CASE inflight[m] # None
    <3>1. CellFor(c) = inflight[m]
      BY <2>1 DEF CellFor
    <3>2. inflight[m] \in Calls /\ call[inflight[m]].node = m
      BY <1>1, <2>1 DEF CatalogInv, FlightOK
    <3> QED BY <3>1, <3>2
  <2>2. CASE inflight[m] = None /\ Places(m) # {}
    <3>1. CellFor(c) = pages[Place(m)].cell
      BY <2>2 DEF CellFor
    <3>2. pages[Place(m)].cell \in Calls /\ call[pages[Place(m)].cell].node = m
      BY <1>2, <2>2 DEF KeptPages
    <3> QED BY <2>2, <3>1, <3>2
  <2>3. CASE inflight[m] = None /\ Places(m) = {}
    BY <2>3 DEF CellFor
  <2> QED BY <2>1, <2>2, <2>3
<1>4. PICK x \in Calls : x = CellFor(c)
  BY <1>3
<1> DEFINE g == [call EXCEPT ![c].pc = "locking"]
<1>5. /\ call' = [g EXCEPT ![c].cell = x]
      /\ cell' = [cell EXCEPT ![x].users = @ + 1]
      /\ inflight' = [inflight EXCEPT ![m] = x]
      /\ pages' = IF Places(m) = {} THEN pages ELSE Append(Others(m), pages[Place(m)])
  BY <1>4 DEF Enter
<1>6. Steps(call, g, c) /\ g[c].pc = "locking"
  BY <1>1, PcSteps
<1> HIDE DEF g
<1>7. AreCalls(g)
  BY <1>6 DEF Steps, SameBut
<1>8. SameBut(g, call', c)
      /\ call'[c] = [pc |-> g[c].pc, node |-> g[c].node, cell |-> x, page |-> g[c].page, ok |-> g[c].ok, age |-> g[c].age]
  <2>1. SameBut(g, [g EXCEPT ![c].cell = x], c) /\ [g EXCEPT ![c].cell = x][c]
          = [pc |-> g[c].pc, node |-> g[c].node, cell |-> x, page |-> g[c].page, ok |-> g[c].ok, age |-> g[c].age]
    BY <1>7, CellChanges
  <2> QED BY <1>5, <2>1
<1>9. SameBut(call, call', c) /\ call'[c].node = m /\ call'[c].cell = x /\ call'[c].age = call[c].age
      /\ call'[c].pc = "locking"
  BY <1>6, <1>8 DEF Steps, SameBut
<1>10. CellsOK' /\ \A y \in Calls : cell'[y].users = IF y = x THEN cell[y].users + 1 ELSE cell[y].users
  <2>1. cell \in [Calls -> Cells] /\ cell[x] \in Cells
    BY DEF CatalogInv, CellsOK
  <2> DEFINE k == [cell[x] EXCEPT !.users = @ + 1]
  <2>2. k \in Cells /\ k.users = cell[x].users + 1 /\ k.result = cell[x].result /\ k.expires = cell[x].expires
    BY <2>1 DEF Cells
  <2>3. cell' = [cell EXCEPT ![x] = k]
    BY <1>5
  <2> HIDE DEF k
  <2>4. cell' \in [Calls -> Cells] /\ cell'[x] = k /\ \A y \in Calls \ {x} : cell'[y] = cell[y]
    BY <2>1, <2>2, <2>3
  <2> QED BY <2>2, <2>4 DEF CatalogInv, CellsOK
<1>11. pages' \in Seq(KeptPages)
  <2>1. CASE Places(m) = {}
    BY <1>5, <2>1 DEF CatalogInv
  <2>2. CASE Places(m) # {}
    <3>1. Others(m) \in Seq(KeptPages) /\ pages[Place(m)] \in KeptPages
      BY <2>2, PagesKept
    <3>2. Append(Others(m), pages[Place(m)]) \in Seq(KeptPages)
      BY <3>1, PageKept
    <3> QED BY <1>5, <2>2, <3>2
  <2> QED BY <2>1, <2>2
<1>12. InFeed(c)'
  BY <1>9 DEF InFeed
<1>13. call[x].node = call[c].node /\ inflight[call[c].node] \in {None, x}
  BY <1>3, <1>4
<1> QED BY <1>1, <1>5, <1>9, <1>10, <1>11, <1>12, <1>13, FlightEntered

\* Time passes, or nothing happens.
LEMMA TickOK ==
  ASSUME CatalogConstants, CatalogInv, UNCHANGED <<call, Feed>>, now' = now + 1 \/ UNCHANGED now
  PROVE  CatalogInv'
<1>1. now' \in Int
  BY DEF CatalogInv
<1>2. UNCHANGED <<call, cell, inflight, pages, turn>>
  BY DEF Feed
<1>3. CallsOK' /\ CellsOK' /\ UsersOK' /\ FlightOK' /\ SlotOK' /\ pages' \in Seq(KeptPages')
  BY <1>2 DEF CatalogInv, CallsOK, CellsOK, UsersOK, Users, FlightOK, SlotOK, KeptPages, InFeed
<1> QED BY <1>1, <1>3 DEF CatalogInv

\* At first nobody waits and nothing is kept.
LEMMA CatalogInitOK ==
  ASSUME CatalogConstants, CatalogInit
  PROVE  CatalogInv
<1> DEFINE fresh(n) == [pc |-> "new", node |-> n, cell |-> None, page |-> Never, ok |-> TRUE, age |-> 0]
<1>1. call \in [Calls -> {fresh(n) : n \in CatalogNodes}]
  BY DEF CatalogInit
<1>2. \A n : fresh(n) = [pc |-> fresh(n).pc, node |-> fresh(n).node, cell |-> fresh(n).cell, page |-> fresh(n).page,
                        ok |-> fresh(n).ok, age |-> fresh(n).age]
             /\ fresh(n).pc = "new" /\ fresh(n).node = n /\ fresh(n).age = 0
  OBVIOUS
<1> HIDE DEF fresh
<1>3. \A c \in Calls : \E n \in CatalogNodes : call[c] = fresh(n)
  BY <1>1
<1>4. \A c \in Calls : IsCall(call[c]) /\ call[c].pc = "new" /\ call[c].node \in CatalogNodes /\ call[c].age = 0
  <2> TAKE c \in Calls
  <2>1. PICK n \in CatalogNodes : call[c] = fresh(n)
    BY <1>3
  <2>2. IsCall(fresh(n))
    BY <1>2 DEF IsCall
  <2> QED BY <1>2, <2>1, <2>2
<1>5. CallsOK
  <2>1. call = [c \in Calls |-> call[c]]
    BY <1>1
  <2> QED BY <1>4, <2>1 DEF CallsOK, AreCalls, CatalogConstants
<1>6. \A c \in Calls : ~InFeed(c)
  BY <1>4 DEF InFeed
<1>7. CellsOK /\ \A x \in Calls : cell[x].users = 0
  BY DEF CatalogInit, CellsOK, Cells, Never
<1>8. UsersOK
  <2>1. \A x \in Calls : Users(x) = {}
    BY <1>6 DEF Users
  <2> QED BY <1>7, <2>1, FS_EmptySet DEF UsersOK
<1>9. FlightOK
  BY <1>6 DEF FlightOK, CatalogInit
<1>10. SlotOK /\ pages \in Seq(KeptPages) /\ now \in Int
  BY DEF SlotOK, CatalogInit
<1> QED BY <1>5, <1>7, <1>8, <1>9, <1>10 DEF CatalogInv

\* Every step keeps the flights.
LEMMA CatalogNextOK ==
  ASSUME CatalogConstants, CatalogInv, [CatalogNext]_catalogVars
  PROVE  CatalogInv'
<1>1. CASE Tick
  BY <1>1, TickOK DEF Tick
<1>2. CASE \E c \in Calls : Finish(c) \/ FailPage(c) \/ Cancel(c)
  <2>1. PICK c \in Calls : Finish(c) \/ FailPage(c) \/ Cancel(c)
    BY <1>2
  <2>2. CASE Expand(c) \/ AskRoute(c) \/ ReadNative(c) \/ StoreMapping(c)
    BY <2>2, OutsideOK
  <2>3. CASE Mapping(c)
    BY <2>3, MappingOK
  <2>4. CASE Enter(c)
    BY <2>4, EnterOK
  <2>5. CASE Lock(c)
    BY <2>5, LockOK
  <2>6. CASE Queue(c)
    BY <2>6, QueueOK
  <2>7. CASE ReadPage(c)
    BY <2>7, ReadPageOK
  <2>8. CASE Parents(c)
    BY <2>8, ParentsOK
  <2>9. CASE FailPage(c)
    BY <2>9, FailPageOK
  <2>10. CASE Cancel(c)
    BY <2>10, CancelOK
  <2> QED BY <2>1, <2>2, <2>3, <2>4, <2>5, <2>6, <2>7, <2>8, <2>9, <2>10 DEF Finish
<1>3. CASE UNCHANGED catalogVars
  BY <1>3, TickOK DEF catalogVars, Feed
<1> QED BY <1>1, <1>2, <1>3 DEF CatalogNext

\* Shared flights are what the invariant says of them.
LEMMA CatalogInvExact ==
  ASSUME CatalogConstants, CatalogInv
  PROVE  FlightsExact
<1>1. ConcurrentReadsShared
  <2> SUFFICES ASSUME NEW c \in Calls, NEW d \in Calls, InFeed(c), InFeed(d), call[c].node = call[d].node
               PROVE  call[c].cell = call[d].cell
    BY DEF ConcurrentReadsShared
  <2>1. inflight[call[c].node] = call[c].cell /\ inflight[call[d].node] = call[d].cell
    BY DEF CatalogInv, FlightOK
  <2> QED BY <2>1
<1>2. FlightsAddUp
  <2>1. \A x \in Calls : cell[x].users = Cardinality({c \in Calls : InFeed(c) /\ call[c].cell = x})
    BY DEF CatalogInv, UsersOK, Users
  <2>2. ASSUME NEW n \in CatalogNodes
        PROVE  (inflight[n] # None) <=> \E c \in Calls : InFeed(c) /\ call[c].node = n
    <3>1. inflight[n] # None => \E c \in Calls : InFeed(c) /\ call[c].node = n
      BY DEF CatalogInv, FlightOK
    <3>2. ASSUME NEW c \in Calls, InFeed(c), call[c].node = n
          PROVE  inflight[n] # None
      BY <3>2 DEF CatalogInv, FlightOK, CatalogConstants
    <3> QED BY <3>1, <3>2
  <2>3. turn # None => call[turn].pc = "reading"
    BY DEF CatalogInv, SlotOK
  <2> QED BY <2>1, <2>2, <2>3 DEF FlightsAddUp
<1>3. PagesServedFresh
  BY DEF CatalogInv, CallsOK, PagesServedFresh
<1> QED BY <1>1, <1>2, <1>3 DEF FlightsExact

\* The live source feed (persistence/live_source_feed.py): however calls enter, wait, fail
\* or are cancelled, those that ask for one page at one time share its read, the flights
\* and their users add up, and no page is served past its time.
THEOREM CatalogReadsAreShared == ASSUME CatalogConstants PROVE CatalogSpec => []FlightsExact
<1>1. CatalogInit => CatalogInv
  BY CatalogInitOK
<1>2. CatalogInv /\ [CatalogNext]_catalogVars => CatalogInv'
  BY CatalogNextOK
<1>3. CatalogInv => FlightsExact
  BY CatalogInvExact
<1> QED BY <1>1, <1>2, <1>3, PTL DEF CatalogSpec

-----------------------------------------------------------------------------
(* The reads of the corpus: what an answer holds, and when a request leaves. *)

\* Calls of one list: all but those that build a graph.
Listing(c) == OpOf[c] \in {"occupations", "publications", "enrichment", "alignments"}

\* What was read before the last list: nothing, or the publication.
ListsOf(c, got) == \/ got = <<>>
                   \/ OpOf[c] = "alignments" /\ got = <<got[1]>>

\* A call in progress has read at most the publication before its rows.
Underway(c) == /\ OpOf[c] # "unknown_role"
               /\ Listing(c) => ListsOf(c, query[c].got)

\* The rows of an answer are what the call asked for.
AnsweredAsAsked(c) ==
  query[c].answer.status = 200 /\ OpOf[c] # "graph" =>
    /\ Len(query[c].answer.rows) <= RowLimit(c, Plan(OpOf[c])[Len(Plan(OpOf[c]))])
    /\ \A i, j \in DOMAIN query[c].answer.rows : i # j => query[c].answer.rows[i] # query[c].answer.rows[j]
    /\ OpOf[c] = "alignments" => \A i \in DOMAIN query[c].answer.rows : query[c].answer.rows[i].pub = Pub

QueryOK(c) == /\ query[c].pc = "start" => query[c].got = <<>>
              /\ query[c].pc \in {"queue", "sent"} => Underway(c)
              /\ query[c].pc = "done" => AnsweredAsAsked(c)

GraphInv == /\ query = [c \in Readers |-> query[c]]
            /\ \A c \in Readers : QueryOK(c)
            /\ closed \in BOOLEAN /\ NothingSentAfterClose

\* One call moves, the others stay.
LEMMA QueryMoves ==
  ASSUME GraphInv, NEW c \in Readers, NEW k, query' = [query EXCEPT ![c] = k],
         k.pc # "start", k.pc \in {"queue", "sent"} => Underway(c)', k.pc = "done" => AnsweredAsAsked(c)',
         closed' \in BOOLEAN, NothingSentAfterClose'
  PROVE  GraphInv'
<1>1. query' = [d \in Readers |-> query'[d]] /\ query'[c] = k /\ \A d \in Readers \ {c} : query'[d] = query[d]
  BY DEF GraphInv
<1>2. ASSUME NEW d \in Readers PROVE QueryOK(d)'
  <2>1. CASE d = c
    BY <1>1, <2>1 DEF QueryOK
  <2>2. CASE d # c
    <3>1. query'[d] = query[d] /\ QueryOK(d)
      BY <1>1, <2>2 DEF GraphInv
    <3> QED BY <3>1 DEF QueryOK, Underway, AnsweredAsAsked
  <2> QED BY <2>1, <2>2
<1> QED BY <1>1, <1>2 DEF GraphInv

\* An error is no rows.
LEMMA RefusalOK ==
  ASSUME GraphInv, NEW c \in Readers, NEW got, NEW warned, NEW n \in {404, 422, 503}, Moved(c, "done", got, warned, Status(n)),
         UNCHANGED <<closed, sent>>
  PROVE  GraphInv'
<1> DEFINE k == [pc |-> "done", got |-> got, warned |-> warned, answer |-> Status(n)]
<1>1. query' = [query EXCEPT ![c] = k] /\ k.pc = "done" /\ k.answer.status = n
  BY DEF Moved, Status, NoAnswer
<1> HIDE DEF k
<1>2. query'[c] = k
  BY <1>1 DEF GraphInv
<1>3. AnsweredAsAsked(c)'
  BY <1>1, <1>2 DEF AnsweredAsAsked
<1>4. closed' \in BOOLEAN /\ NothingSentAfterClose'
  BY DEF GraphInv, NothingSentAfterClose
<1> QED BY <1>1, <1>3, <1>4, QueryMoves

\* As many identities as rows: no two rows alike.
LEMMA DistinctRows ==
  ASSUME NEW r, r \in Seq(Range(r)), NEW f, f = [i \in DOMAIN r |-> f[i]], Distinct(f),
         \A i, j \in DOMAIN r : r[i] = r[j] => f[i] = f[j]
  PROVE  \A i, j \in DOMAIN r : i # j => r[i] # r[j]
<1> DEFINE n == Len(r)
<1>1. n \in Nat /\ DOMAIN r = 1 .. n
  OBVIOUS
<1>2. f = [i \in 1 .. n |-> f[i]]
  BY <1>1
<1>3. Len(f) = n
  <2>1. \A i \in 1 .. n : f[i] \in Range(f)
    BY <1>2 DEF Range
  <2>2. f \in [1 .. n -> Range(f)]
    BY <1>2, <2>1
  <2>3. f \in Seq(Range(f)) /\ DOMAIN f = 1 .. Len(f) /\ Len(f) \in Nat
    BY <1>1, <2>2, SeqDef
  <2>4. DOMAIN f = 1 .. n
    BY <2>2
  <2> HIDE DEF n
  <2> QED BY <1>1, <2>3, <2>4
<1>4. f \in Surjection(1 .. n, Range(f))
  BY <1>2 DEF Surjection, Range
<1>5. IsFiniteSet(1 .. n) /\ Cardinality(1 .. n) = n
  <2> HIDE DEF n
  <2>1. IsFiniteSet(1 .. n) /\ Cardinality(1 .. n) = IF 1 > n THEN 0 ELSE n - 1 + 1
    BY <1>1, FS_Interval
  <2> QED BY <1>1, <2>1
<1>6. Cardinality(Range(f)) = n
  BY <1>3 DEF Distinct
<1>7. f \in Injection(1 .. n, Range(f))
  BY <1>4, <1>5, <1>6, FS_Surjection
<1>8. \A i, j \in 1 .. n : f[i] = f[j] => i = j
  BY <1>7 DEF Injection, IsInjective
<1> QED BY <1>1, <1>8

\* Accepted rows are as many, as different and of the publication asked for.
LEMMA AcceptedRows ==
  ASSUME NEW c \in Readers, NEW q \in {"occupations", "publications", "enrichment", "alignments"},
         NEW reply, reply.rows \in Seq(Range(reply.rows)), Accepted(c, q, reply)
  PROVE  /\ Len(reply.rows) <= RowLimit(c, q)
         /\ \A i, j \in DOMAIN reply.rows : i # j => reply.rows[i] # reply.rows[j]
         /\ q = "alignments" => \A i \in DOMAIN reply.rows : reply.rows[i].pub = Pub
<1> DEFINE r == reply.rows
<1>1. Len(r) <= RowLimit(c, q) /\ (q = "alignments" => \A i \in DOMAIN r : r[i].pub = Pub)
  BY DEF Accepted
<1>2. CASE q \in {"occupations", "publications"}
  <2> DEFINE f == [i \in DOMAIN r |-> IdOf(r[i])]
  <2>1. Distinct(f)
    BY <1>2 DEF Accepted
  <2>2. f = [i \in DOMAIN r |-> f[i]] /\ \A i, j \in DOMAIN r : r[i] = r[j] => f[i] = f[j]
    OBVIOUS
  <2> HIDE DEF f
  <2> QED BY <1>1, <2>1, <2>2, DistinctRows
<1>3. CASE q = "alignments"
  <2> DEFINE f == [i \in DOMAIN r |-> AlignmentId(r[i])]
  <2>1. Distinct(f)
    BY <1>3 DEF Accepted
  <2>2. f = [i \in DOMAIN r |-> f[i]] /\ \A i, j \in DOMAIN r : r[i] = r[j] => f[i] = f[j]
    OBVIOUS
  <2> HIDE DEF f
  <2> QED BY <1>1, <2>1, <2>2, DistinctRows
<1>4. CASE q = "enrichment"
  <2>1. Len(r) <= 1 /\ Len(r) \in Nat /\ DOMAIN r = 1 .. Len(r)
    BY <1>4 DEF Accepted, Selecting
  <2>2. \A i, j \in DOMAIN r : i = j
    BY <2>1
  <2> QED BY <1>1, <2>2
<1> QED BY <1>2, <1>3, <1>4

\* The first list of a call, and the one after it.
LEMMA ListsRead ==
  ASSUME NEW r, NEW p
  PROVE  /\ Append(<<>>, r) = <<r>> /\ Len(<<r>>) = 1 /\ <<r>>[1] = r
         /\ Append(<<p>>, r) = <<p, r>> /\ Len(<<p, r>>) = 2 /\ <<p, r>>[2] = r
         /\ Len(<<>>) = 0
<1>1. Len(<<r>>) = 1 /\ <<r>>[1] = r /\ Len(<<p, r>>) = 2 /\ <<p, r>>[2] = r /\ Len(<<>>) = 0
  OBVIOUS
<1>2. Append(<<>>, r) = <<r>>
  OBVIOUS
<1>3. Append(<<p>>, r) = <<p, r>>
  <2> DEFINE s == <<p>>
             t == <<p, r>>
             S == {p, r}
  <2>1. s \in Seq(S) /\ Len(s) = 1 /\ s[1] = p /\ r \in S
    OBVIOUS
  <2>2. t \in Seq(S) /\ Len(t) = 2 /\ t[1] = p /\ t[2] = r
    OBVIOUS
  <2> HIDE DEF s, t, S
  <2>3. Append(s, r) \in Seq(S) /\ Len(Append(s, r)) = Len(s) + 1 /\ Append(s, r)[Len(s) + 1] = r
        /\ \A i \in 1 .. Len(s) : Append(s, r)[i] = s[i]
    <3>1. Append(s, r) \in Seq(S) /\ Len(Append(s, r)) = Len(s) + 1
      BY <2>1, AppendProperties
    <3>2. Append(s, r)[Len(s) + 1] = r
      BY <2>1, AppendProperties
    <3>3. \A i \in 1 .. Len(s) : Append(s, r)[i] = s[i]
      BY <2>1
    <3> QED BY <3>1, <3>2, <3>3
  <2> DEFINE a == Append(s, r)
  <2>4. a \in Seq(S) /\ Len(a) = 2 /\ a[1] = p /\ a[2] = r
    BY <2>1, <2>3
  <2> HIDE DEF a
  <2>5. \A i \in 1 .. Len(a) : a[i] = t[i]
    BY <2>2, <2>4
  <2>6. a = t
    BY <2>2, <2>4, <2>5, SeqEqual
  <2> QED BY <2>6 DEF a, s, t
<1> QED BY <1>1, <1>2, <1>3

-----------------------------------------------------------------------------
(* The steps of a call.                                                      *)

\* A call that goes on as it is, or with one list more.
LEMMA ProceedOK ==
  ASSUME GraphInv, NEW c \in Readers, NEW pc \in {"queue", "sent"}, NEW got, NEW warned, NEW answer,
         Moved(c, pc, got, warned, answer), OpOf[c] # "unknown_role",
         Listing(c) => ListsOf(c, got),
         closed' \in BOOLEAN, NothingSentAfterClose'
  PROVE  GraphInv'
<1> DEFINE k == [pc |-> pc, got |-> got, warned |-> warned, answer |-> answer]
<1>1. query' = [query EXCEPT ![c] = k] /\ k.pc = pc /\ k.got = got
  BY DEF Moved
<1> HIDE DEF k
<1>2. query'[c] = k
  BY <1>1 DEF GraphInv
<1>3. Underway(c)'
  BY <1>1, <1>2 DEF Underway
<1> QED BY <1>1, <1>3, QueryMoves

\* Asked: refused, or on its way to the queue.
LEMMA BeginOK ==
  ASSUME GraphConstants, GraphInv, NEW c \in Readers, Begin(c), UNCHANGED <<closed, sent>>
  PROVE  GraphInv'
<1>1. CASE \E n \in {404, 422, 503} : Ended(c, Status(n))
  <2>1. PICK n \in {404, 422, 503} : Ended(c, Status(n))
    BY <1>1
  <2> QED BY <2>1, RefusalOK DEF Ended
<1>2. CASE OpOf[c] # "unknown_role" /\ Proceed(c, "queue")
  <2>1. query[c].got = <<>>
    BY DEF Begin, GraphInv, QueryOK
  <2>2. closed' \in BOOLEAN /\ NothingSentAfterClose'
    BY DEF GraphInv, NothingSentAfterClose
  <2>3. PICK got, warned, answer : Moved(c, "queue", got, warned, answer) /\ got = <<>>
    BY <1>2, <2>1 DEF Proceed
  <2>4. Listing(c) => ListsOf(c, got)
    BY <2>3 DEF ListsOf
  <2> QED BY <1>2, <2>2, <2>3, <2>4, ProceedOK
<1> QED BY <1>1, <1>2 DEF Begin

\* The limiter lets a request through to a client that is still open.
LEMMA SendOK ==
  ASSUME GraphConstants, GraphInv, NEW c \in Readers, Send(c)
  PROVE  GraphInv'
<1>1. CASE MaySend /\ Proceed(c, "sent") /\ sent' = sent \cup {<<c, closed>>}
  <2>1. Underway(c)
    BY DEF Send, GraphInv, QueryOK
  <2>2. closed' \in BOOLEAN /\ NothingSentAfterClose'
    <3>1. ~closed /\ UNCHANGED closed
      BY <1>1 DEF MaySend, Send
    <3> QED BY <1>1, <3>1 DEF GraphInv, NothingSentAfterClose
  <2>3. PICK got, warned, answer : Moved(c, "sent", got, warned, answer) /\ got = query[c].got
    BY <1>1 DEF Proceed
  <2>4. OpOf[c] # "unknown_role" /\ (Listing(c) => ListsOf(c, got))
    BY <2>1, <2>3 DEF Underway
  <2> QED BY <2>2, <2>3, <2>4, ProceedOK
<1>2. CASE Ended(c, Status(503)) /\ UNCHANGED sent
  <2>1. UNCHANGED closed
    BY DEF Send
  <2> QED BY <1>2, <2>1, RefusalOK DEF Ended
<1> QED BY <1>1, <1>2 DEF Send

\* The query in progress follows from what was read.
LEMMA ListQuery ==
  ASSUME NEW c \in Readers, Underway(c), Listing(c)
  PROVE  \/ query[c].got = <<>> /\ OpOf[c] # "alignments" /\ QueryOf(c) = OpOf[c] /\ Plan(OpOf[c]) = <<OpOf[c]>>
         \/ query[c].got = <<>> /\ OpOf[c] = "alignments" /\ QueryOf(c) = "publication"
         \/ (\E p : query[c].got = <<p>>) /\ OpOf[c] = "alignments" /\ QueryOf(c) = "alignments"
<1>1. Len(<<>>) = 0 /\ \A p : Len(<<p>>) = 1
  OBVIOUS
<1>2. CASE query[c].got = <<>> /\ OpOf[c] # "alignments"
  <2>1. Plan(OpOf[c]) = <<OpOf[c]>>
    BY <1>2 DEF Plan, Listing
  <2>2. QueryOf(c) = OpOf[c]
    BY <1>1, <1>2, <2>1 DEF QueryOf
  <2> QED BY <1>2, <2>1, <2>2
<1>3. CASE query[c].got = <<>> /\ OpOf[c] = "alignments"
  <2>1. Plan(OpOf[c]) = <<"publication", "alignments">>
    BY <1>3 DEF Plan
  <2>2. QueryOf(c) = "publication"
    BY <1>1, <1>3, <2>1 DEF QueryOf
  <2> QED BY <1>3, <2>2
<1>4. CASE OpOf[c] = "alignments" /\ query[c].got = <<query[c].got[1]>>
  <2>1. Plan(OpOf[c]) = <<"publication", "alignments">>
    BY <1>4 DEF Plan
  <2>2. Len(query[c].got) = 1
    BY <1>1, <1>4
  <2>3. QueryOf(c) = "alignments"
    BY <2>1, <2>2 DEF QueryOf
  <2> QED BY <1>4, <2>3
<1> QED BY <1>2, <1>3, <1>4 DEF Underway, ListsOf

\* What a query of a list may lead to.
LEMMA ContinueOK ==
  ASSUME GraphConstants, GraphInv, NEW c \in Readers, query[c].pc = "sent", NEW reply, NEW warned,
         reply.rows \in Seq(Range(reply.rows)), Accepted(c, QueryOf(c), reply),
         Listing(c), Continue(c, Append(query[c].got, reply.rows), warned), UNCHANGED <<closed, sent>>
  PROVE  GraphInv'
<1> DEFINE r == reply.rows
           full == Append(query[c].got, r)
<1>1. Underway(c) /\ closed' \in BOOLEAN /\ NothingSentAfterClose'
  BY DEF GraphInv, QueryOK, NothingSentAfterClose
<1>2. IF Len(full) = Len(Plan(OpOf[c]))
      THEN Moved(c, "done", full, query[c].warned, Answer(c, full, warned))
      ELSE IF closed THEN Moved(c, "done", full, warned, Status(503))
      ELSE Moved(c, "queue", full, warned, query[c].answer)
  BY DEF Continue, Listing
<1>3. \/ query[c].got = <<>> /\ OpOf[c] # "alignments" /\ full = <<r>> /\ QueryOf(c) = OpOf[c] /\ Plan(OpOf[c]) = <<OpOf[c]>>
      \/ query[c].got = <<>> /\ OpOf[c] = "alignments" /\ full = <<r>> /\ Len(Plan(OpOf[c])) = 2
      \/ \E p : query[c].got = <<p>> /\ OpOf[c] = "alignments" /\ full = <<p, r>> /\ QueryOf(c) = "alignments"
  <2>1. Append(<<>>, r) = <<r>> /\ \A p : Append(<<p>>, r) = <<p, r>>
    BY ListsRead
  <2>2. OpOf[c] = "alignments" => Len(Plan(OpOf[c])) = 2
    BY DEF Plan
  <2>3. CASE \E p : query[c].got = <<p>> /\ OpOf[c] = "alignments" /\ QueryOf(c) = "alignments"
    <3>1. PICK p : query[c].got = <<p>>
      BY <2>3
    <3>2. full = <<p, r>>
      BY <2>1, <3>1
    <3> QED BY <2>3, <3>1, <3>2
  <2>4. CASE query[c].got = <<>>
    <3>1. full = <<r>>
      BY <2>1, <2>4
    <3> HIDE DEF full
    <3> QED BY <1>1, <2>2, <2>4, <3>1, ListQuery
  <2> HIDE DEF full
  <2> QED BY <1>1, <2>3, <2>4, ListQuery
<1> HIDE DEF full
<1>4. ASSUME QueryOf(c) = OpOf[c], Len(full) = Len(Plan(OpOf[c])), full[Len(full)] = r,
             Plan(OpOf[c])[Len(Plan(OpOf[c]))] = OpOf[c]
      PROVE  GraphInv'
  <2>1. Moved(c, "done", full, query[c].warned, Answer(c, full, warned))
    BY <1>2, <1>4
  <2>2. Answer(c, full, warned).rows = r
    BY <1>4 DEF Answer, Listing, Status, NoAnswer
  <2>3. /\ Len(r) <= RowLimit(c, OpOf[c])
        /\ \A i, j \in DOMAIN r : i # j => r[i] # r[j]
        /\ OpOf[c] = "alignments" => \A i \in DOMAIN r : r[i].pub = Pub
    BY <1>4, AcceptedRows DEF Listing
  <2> DEFINE k == [pc |-> "done", got |-> full, warned |-> query[c].warned, answer |-> Answer(c, full, warned)]
  <2>4. query' = [query EXCEPT ![c] = k] /\ k.pc = "done" /\ k.answer.rows = r
    BY <2>1, <2>2 DEF Moved
  <2> HIDE DEF k, r
  <2>5. query'[c] = k
    BY <2>4 DEF GraphInv
  <2>6. AnsweredAsAsked(c)'
    BY <1>4, <2>3, <2>4, <2>5 DEF AnsweredAsAsked
  <2> QED BY <1>1, <2>4, <2>6, QueryMoves
<1>5. CASE query[c].got = <<>> /\ OpOf[c] # "alignments" /\ full = <<r>> /\ QueryOf(c) = OpOf[c] /\ Plan(OpOf[c]) = <<OpOf[c]>>
  <2>1. Len(full) = 1 /\ full[1] = r /\ Len(Plan(OpOf[c])) = 1 /\ Plan(OpOf[c])[1] = OpOf[c]
    BY <1>5
  <2> QED BY <1>4, <1>5, <2>1
<1>6. CASE query[c].got = <<>> /\ OpOf[c] = "alignments" /\ full = <<r>> /\ Len(Plan(OpOf[c])) = 2
  <2>1. Len(full) = 1 /\ ListsOf(c, full)
    BY <1>6 DEF ListsOf
  <2>2. CASE closed
    <3>1. Moved(c, "done", full, warned, Status(503))
      <4>1. Len(Plan(OpOf[c])) = 2
        BY <1>6
      <4>2. Len(full) # Len(Plan(OpOf[c]))
        BY <2>1, <4>1
      <4> QED BY <1>2, <2>2, <4>2
    <3> QED BY <3>1, RefusalOK
  <2>3. CASE ~closed
    <3>1. Moved(c, "queue", full, warned, query[c].answer)
      <4>1. Len(Plan(OpOf[c])) = 2
        BY <1>6
      <4>2. Len(full) # Len(Plan(OpOf[c]))
        BY <2>1, <4>1
      <4> QED BY <1>2, <2>3, <4>2
    <3> QED BY <1>1, <1>6, <2>1, <3>1, ProceedOK
  <2> QED BY <2>2, <2>3
<1>7. CASE \E p : query[c].got = <<p>> /\ OpOf[c] = "alignments" /\ full = <<p, r>> /\ QueryOf(c) = "alignments"
  <2>1. PICK p : full = <<p, r>>
    BY <1>7
  <2>2. Len(full) = 2 /\ full[2] = r /\ Len(Plan(OpOf[c])) = 2 /\ Plan(OpOf[c])[2] = OpOf[c]
    BY <1>7, <2>1 DEF Plan
  <2> QED BY <1>4, <1>7, <2>2
<1> QED BY <1>3, <1>5, <1>6, <1>7

\* The steps of a graph, whatever is skipped.
LEMMA GraphContinueOK ==
  ASSUME GraphConstants, GraphInv, NEW c \in Readers, OpOf[c] = "graph", NEW got, NEW warned,
         Continue(c, got, warned), UNCHANGED <<closed, sent>>
  PROVE  GraphInv'
<1>1. closed' \in BOOLEAN /\ NothingSentAfterClose' /\ ~Listing(c)
  BY DEF GraphInv, NothingSentAfterClose, Listing
<1>2. \E full, w, a : Moved(c, "done", full, w, a) \/ Moved(c, "queue", full, w, a)
  <2> DEFINE more == IF Len(got) = 1 /\ ~Context THEN Append(got, <<>>) ELSE got
             all == IF Len(more) = 2 /\ OnetIds(more) = {} THEN Append(more, <<>>) ELSE more
  <2>1. IF Len(all) = Len(Plan(OpOf[c])) THEN Moved(c, "done", all, query[c].warned, Answer(c, all, warned))
        ELSE IF closed THEN Moved(c, "done", all, warned, Status(503))
        ELSE Moved(c, "queue", all, warned, query[c].answer)
    BY DEF Continue
  <2> HIDE DEF all
  <2> QED BY <2>1
<1>3. PICK full, w, a : Moved(c, "done", full, w, a) \/ Moved(c, "queue", full, w, a)
  BY <1>2
<1>4. CASE Moved(c, "queue", full, w, a)
  BY <1>1, <1>4, ProceedOK
<1>5. CASE Moved(c, "done", full, w, a)
  <2> DEFINE k == [pc |-> "done", got |-> full, warned |-> w, answer |-> a]
  <2>1. query' = [query EXCEPT ![c] = k] /\ k.pc = "done"
    BY <1>5 DEF Moved
  <2> HIDE DEF k
  <2>2. AnsweredAsAsked(c)'
    BY DEF AnsweredAsAsked
  <2> QED BY <1>1, <2>1, <2>2, QueryMoves
<1> QED BY <1>3, <1>4, <1>5

\* A reply: refused, or one list more.
LEMMA ReceiveOK ==
  ASSUME GraphConstants, GraphInv, NEW c \in Readers, Receive(c)
  PROVE  GraphInv'
<1>1. query[c].pc = "sent" /\ UNCHANGED <<closed, sent>> /\ Underway(c)
  BY DEF Receive, GraphInv, QueryOK
<1>2. PICK reply \in Replies[QueryOf(c)] :
        \/ \E n \in {404, 503} : Ended(c, Status(n))
        \/ /\ Accepted(c, QueryOf(c), reply) /\ QueryOf(c) # "context"
           /\ Continue(c, Append(query[c].got, reply.rows), query[c].warned)
        \/ /\ QueryOf(c) = "context"
           /\ \E ok \in BOOLEAN :
                Continue(c, Append(query[c].got, Counted(reply.rows, ok)), ~ok /\ reply.rows # <<>>)
  BY DEF Receive
<1>3. CASE \E n \in {404, 503} : Ended(c, Status(n))
  <2>1. PICK n \in {404, 422, 503} : Ended(c, Status(n))
    BY <1>3
  <2> QED BY <1>1, <2>1, RefusalOK DEF Ended
<1>4. CASE OpOf[c] = "graph" /\ \E got, w : Continue(c, got, w)
  BY <1>1, <1>4, GraphContinueOK
<1>5. CASE Listing(c) /\ Accepted(c, QueryOf(c), reply) /\ Continue(c, Append(query[c].got, reply.rows), query[c].warned)
  <2>1. QueryOf(c) \in {"occupations", "publications", "enrichment", "publication", "alignments"}
    BY <1>1, <1>5, ListQuery DEF Listing
  <2>2. reply.rows \in Seq(Range(reply.rows))
    BY <2>1 DEF GraphConstants
  <2> QED BY <1>1, <1>5, <2>2, ContinueOK
<1>6. OpOf[c] = "graph" \/ Listing(c)
  BY <1>1 DEF GraphConstants, Underway, Listing
<1>7. Listing(c) => QueryOf(c) # "context"
  BY <1>1, ListQuery DEF Listing
<1> QED BY <1>2, <1>3, <1>4, <1>5, <1>6, <1>7

\* Every step of a call, and the close.
LEMMA GraphNextOK ==
  ASSUME GraphConstants, GraphInv, [GraphNext]_graphVars
  PROVE  GraphInv'
<1>1. CASE \E c \in Readers : Begin(c) \/ Send(c) \/ Receive(c)
  <2>1. PICK c \in Readers : Begin(c) \/ Send(c) \/ Receive(c)
    BY <1>1
  <2>2. CASE Begin(c)
    <3>1. UNCHANGED <<closed, sent>>
      BY <2>2 DEF Begin
    <3> QED BY <2>2, <3>1, BeginOK
  <2> QED BY <2>1, <2>2, SendOK, ReceiveOK
<1>2. CASE Close \/ UNCHANGED graphVars
  <2>1. UNCHANGED <<query, sent>> /\ closed' \in BOOLEAN
    BY <1>2 DEF Close, graphVars, GraphInv
  <2>2. \A c \in Readers : QueryOK(c)' <=> QueryOK(c)
    BY <2>1 DEF QueryOK, Underway, AnsweredAsAsked
  <2> QED BY <2>1, <2>2 DEF GraphInv, NothingSentAfterClose
<1> QED BY <1>1, <1>2 DEF GraphNext

\* At first nothing was asked.
LEMMA GraphInitOK ==
  ASSUME GraphInit
  PROVE  GraphInv
<1>1. \A c \in Readers : query[c].pc = "start" /\ query[c].got = <<>>
  BY DEF GraphInit, Idle
<1>2. query = [c \in Readers |-> query[c]] /\ closed \in BOOLEAN /\ NothingSentAfterClose
  BY DEF GraphInit, NothingSentAfterClose
<1> QED BY <1>1, <1>2 DEF GraphInv, QueryOK

\* The corpus client (corpus/neo4j_client.py, neo4j_repository.py): a request that waited
\* for its turn is not sent once the client is closed, and an answer has the rows that were
\* asked for, each once and no more than the page, whatever Neo4j replied.
THEOREM CorpusReadsAreExact == ASSUME GraphConstants PROVE GraphSpec => []RowsExact
<1>1. GraphInit => GraphInv
  BY GraphInitOK
<1>2. GraphInv /\ [GraphNext]_graphVars => GraphInv'
  BY GraphNextOK
<1>3. GraphInv => RowsExact
  <2>1. GraphInv => RowsAsAsked
    BY DEF GraphInv, QueryOK, AnsweredAsAsked, RowsAsAsked
  <2> QED BY <2>1 DEF GraphInv, RowsExact
<1> QED BY <1>1, <1>2, <1>3, PTL DEF GraphSpec

\* Both kinds of read are exact, however their steps interleave.
THEOREM ReadsAreExact ==
  ASSUME CatalogConstants, GraphConstants PROVE CatalogSpec /\ GraphSpec => []ReadsExact
<1>1. CatalogSpec => []FlightsExact
  BY CatalogReadsAreShared
<1>2. GraphSpec => []RowsExact
  BY CorpusReadsAreExact
<1>3. FlightsExact /\ RowsExact => ReadsExact
  BY DEF ReadsExact
<1> QED BY <1>1, <1>2, <1>3, PTL

-----------------------------------------------------------------------------
(* The chat streams: their slots, and the login they share.                  *)

Docs == [login : 0..MaxLogin, generation : Nat]
Stages == {"new", "waiting", "refused", "working", "locking", "loaded", "asking", "answered", "streaming",
           "completed", "ended"}
Runs == [pc : Stages, calls : Nat, doc : Docs]

\* The streams of a process that hold one of its slots.
AtWork(h) == {s \in Streams : HostOf[s] = h /\ run[s].pc \in Holding}
SlotsOK == free \in [Hosts -> Int] /\ SlotsAddUp

\* Who may yet save: it has the latest generation, and nobody else who may refresh has it.
Refreshing == {"loaded", "asking", "answered"}
TokensOK ==
  /\ \A s \in Streams : run[s].doc.generation <= live[run[s].doc.login]
  /\ store.generation <= live[store.login]
  /\ \A s \in Streams : run[s].pc = "answered" =>
       /\ run[s].doc.generation = live[run[s].doc.login]
       /\ store.login = run[s].doc.login => store.generation < live[store.login]
       /\ \A t \in Streams \ {s} : run[t].pc \in Refreshing /\ run[t].doc.login = run[s].doc.login =>
            run[t].doc.generation < live[run[s].doc.login]
  /\ ~lost => \/ store.generation = live[store.login]
              \/ \E s \in Streams : run[s].pc = "answered" /\ run[s].doc.login = store.login

StreamsTypeOK == /\ run \in [Streams -> Runs] /\ store \in Docs /\ live \in [0..MaxLogin -> Nat]
                 /\ lost \in BOOLEAN
StreamsInv == StreamsTypeOK /\ SlotsOK /\ TokensOK

\* Steps that neither take nor give back a slot.
LEMMA SlotsKept ==
  ASSUME SlotsOK, UNCHANGED free, \A s \in Streams : run'[s].pc \in Holding <=> run[s].pc \in Holding
  PROVE  SlotsOK'
<1>1. ASSUME NEW h \in Hosts PROVE AtWork(h)' = AtWork(h)
  BY DEF AtWork
<1> QED BY <1>1 DEF SlotsOK, SlotsAddUp, AtWork

\* A step that takes a slot, or gives one back.
LEMMA SlotMoves ==
  ASSUME StreamsConstants, SlotsOK, NEW s \in Streams, \A t \in Streams \ {s} : run'[t] = run[t],
         \/ /\ run[s].pc \notin Holding /\ run'[s].pc \in Holding
            /\ free' = [free EXCEPT ![HostOf[s]] = @ - 1]
         \/ /\ run[s].pc \in Holding /\ run'[s].pc \notin Holding
            /\ free' = [free EXCEPT ![HostOf[s]] = Released(s)]
  PROVE  SlotsOK'
<1>1. PICK g \in Hosts : g = HostOf[s]
  BY DEF StreamsConstants
<1>2. \A h \in Hosts : IsFiniteSet(AtWork(h)) /\ Cardinality(AtWork(h)) \in Nat
                       /\ free[h] + Cardinality(AtWork(h)) = StreamSlots /\ free[h] \in Int
  <2> TAKE h \in Hosts
  <2>1. IsFiniteSet(AtWork(h))
    BY FS_Subset DEF AtWork, StreamsConstants
  <2>2. free[h] + Cardinality(AtWork(h)) = StreamSlots /\ free[h] \in Int
    BY DEF SlotsOK, SlotsAddUp, AtWork
  <2> QED BY <2>1, <2>2, FS_CardinalityType
<1>3. \A h \in Hosts \ {g} : AtWork(h)' = AtWork(h)
  BY <1>1 DEF AtWork
<1>4. ASSUME NEW n \in Int, free' = [free EXCEPT ![g] = n], Cardinality(AtWork(g)') = StreamSlots - n
      PROVE  SlotsOK'
  <2>1. free' \in [Hosts -> Int] /\ free'[g] = n /\ \A h \in Hosts \ {g} : free'[h] = free[h]
    BY <1>4 DEF SlotsOK
  <2>2. ASSUME NEW h \in Hosts PROVE free'[h] + Cardinality(AtWork(h)') = StreamSlots
    <3>1. CASE h = g
      BY <1>4, <2>1, <3>1 DEF StreamsConstants
    <3>2. CASE h # g
      BY <1>2, <1>3, <2>1, <3>2
    <3> QED BY <3>1, <3>2
  <2> QED BY <2>1, <2>2 DEF SlotsOK, SlotsAddUp, AtWork
<1>5. CASE run[s].pc \notin Holding /\ run'[s].pc \in Holding /\ free' = [free EXCEPT ![HostOf[s]] = @ - 1]
  <2>1. AtWork(g)' = AtWork(g) \cup {s} /\ s \notin AtWork(g)
    BY <1>1, <1>5 DEF AtWork
  <2>2. Cardinality(AtWork(g) \cup {s}) = Cardinality(AtWork(g)) + 1
    BY <1>2, <2>1, FS_AddElement
  <2>3. Cardinality(AtWork(g)') = StreamSlots - (free[g] - 1)
    BY <1>2, <2>1, <2>2 DEF StreamsConstants
  <2>4. free' = [free EXCEPT ![g] = free[g] - 1] /\ free[g] - 1 \in Int
    BY <1>1, <1>2, <1>5
  <2> QED BY <1>4, <2>3, <2>4
<1>6. CASE run[s].pc \in Holding /\ run'[s].pc \notin Holding /\ free' = [free EXCEPT ![HostOf[s]] = Released(s)]
  <2>1. AtWork(g)' = AtWork(g) \ {s} /\ s \in AtWork(g)
    BY <1>1, <1>6 DEF AtWork
  <2>2. Cardinality(AtWork(g) \ {s}) = Cardinality(AtWork(g)) - 1
    BY <1>2, <2>1, FS_RemoveElement
  <2>3. Cardinality(AtWork(g)') = StreamSlots - (free[g] + 1)
    BY <1>2, <2>1, <2>2 DEF StreamsConstants
  <2>4. free' = [free EXCEPT ![g] = free[g] + 1] /\ free[g] + 1 \in Int
    BY <1>1, <1>2, <1>6 DEF Released
  <2> QED BY <1>4, <2>3, <2>4
<1> QED BY <1>5, <1>6

\* Steps that neither read, rotate nor store credentials: whoever may save still may, or
\* its rotation is lost.
LEMMA TokensKept ==
  ASSUME StreamsTypeOK, TokensOK, UNCHANGED <<store, live>>, lost => lost',
         \A s \in Streams : run'[s].doc = run[s].doc,
         \A s \in Streams : run'[s].pc \in Refreshing => run[s].pc \in Refreshing,
         \A s \in Streams : run'[s].pc = "answered" => run[s].pc = "answered",
         \A s \in Streams : run[s].pc = "answered" => run'[s].pc = "answered" \/ lost'
  PROVE  TokensOK'
<1>1. /\ \A s \in Streams : run'[s].doc.generation <= live'[run'[s].doc.login]
      /\ store'.generation <= live'[store'.login]
  BY DEF TokensOK
<1>2. ASSUME NEW s \in Streams, run'[s].pc = "answered"
      PROVE  /\ run'[s].doc.generation = live'[run'[s].doc.login]
             /\ store'.login = run'[s].doc.login => store'.generation < live'[store'.login]
             /\ \A t \in Streams \ {s} : run'[t].pc \in Refreshing /\ run'[t].doc.login = run'[s].doc.login =>
                  run'[t].doc.generation < live'[run'[s].doc.login]
  BY <1>2 DEF TokensOK
<1>3. ~lost' => \/ store'.generation = live'[store'.login]
                \/ \E s \in Streams : run'[s].pc = "answered" /\ run'[s].doc.login = store'.login
  BY DEF TokensOK
<1> QED BY <1>1, <1>2, <1>3 DEF TokensOK

\* One stream goes on to another stage.
LEMMA StageChanges ==
  ASSUME StreamsTypeOK, NEW s \in Streams, NEW v \in Stages, GoesTo(s, v)
  PROVE  /\ run' \in [Streams -> Runs] /\ run'[s].pc = v /\ run'[s].doc = run[s].doc
         /\ \A t \in Streams \ {s} : run'[t] = run[t]
<1> DEFINE k == [run[s] EXCEPT !.pc = v]
<1>1. k \in Runs /\ k.pc = v /\ k.doc = run[s].doc
  BY DEF StreamsTypeOK, Runs
<1>2. run' = [run EXCEPT ![s] = k]
  BY DEF GoesTo
<1> HIDE DEF k
<1> QED BY <1>1, <1>2 DEF StreamsTypeOK

\* A stage that neither takes nor gives back a slot, nor may lose a rotation.
LEMMA QuietStep ==
  ASSUME StreamsConstants, StreamsInv, NEW s \in Streams, NEW v \in Stages, GoesTo(s, v),
         UNCHANGED <<free, store, live, lost>>, v \in Holding <=> run[s].pc \in Holding,
         v \in Refreshing => run[s].pc \in Refreshing, v # "answered", run[s].pc # "answered"
  PROVE  StreamsInv'
<1>1. /\ run' \in [Streams -> Runs] /\ run'[s].pc = v /\ run'[s].doc = run[s].doc
      /\ \A t \in Streams \ {s} : run'[t] = run[t]
  BY StageChanges DEF StreamsInv
<1>2. SlotsOK'
  <2>1. \A t \in Streams : run'[t].pc \in Holding <=> run[t].pc \in Holding
    BY <1>1
  <2> QED BY <2>1, SlotsKept DEF StreamsInv
<1>3. TokensOK'
  <2>1. \A t \in Streams : /\ run'[t].doc = run[t].doc /\ (run'[t].pc \in Refreshing => run[t].pc \in Refreshing)
                           /\ (run'[t].pc = "answered" => run[t].pc = "answered")
                           /\ (run[t].pc = "answered" => run'[t].pc = "answered")
    BY <1>1
  <2> QED BY <2>1, TokensKept DEF StreamsInv
<1>4. StreamsTypeOK'
  BY <1>1 DEF StreamsInv, StreamsTypeOK
<1> QED BY <1>2, <1>3, <1>4 DEF StreamsInv

\* The stages of a stream and of its provider calls.
LEMMA StagesOK ==
  ASSUME StreamsConstants, StreamsInv, NEW s \in Streams,
         \/ Open(s) \/ Busy(s) \/ UseToken(s) \/ AskRefresh(s) \/ RefuseRefresh(s) \/ Complete(s)
         \/ BrokenStream(s)
  PROVE  StreamsInv'
<1> USE DEF Holding, Refreshing, Stages
<1>1. CASE Open(s)
  <2>1. PICK v \in {"waiting", "refused"} : GoesTo(s, v)
    BY <1>1 DEF Open
  <2> QED BY <1>1, <2>1, QuietStep DEF Open
<1>2. CASE Busy(s)
  BY <1>2, QuietStep DEF Busy
<1>3. CASE UseToken(s)
  BY <1>3, QuietStep DEF UseToken
<1>4. CASE AskRefresh(s)
  BY <1>4, QuietStep DEF AskRefresh
<1>5. CASE RefuseRefresh(s)
  BY <1>5, QuietStep DEF RefuseRefresh
<1>6. CASE Complete(s)
  BY <1>6, QuietStep DEF Complete
<1>7. CASE BrokenStream(s)
  BY <1>7, QuietStep DEF BrokenStream
<1> QED BY <1>1, <1>2, <1>3, <1>4, <1>5, <1>6, <1>7

\* A slot is taken.
LEMMA AcquireOK ==
  ASSUME StreamsConstants, StreamsInv, NEW s \in Streams, Acquire(s)
  PROVE  StreamsInv'
<1>1. /\ run' \in [Streams -> Runs] /\ run'[s].pc = "working" /\ run'[s].doc = run[s].doc
      /\ \A t \in Streams \ {s} : run'[t] = run[t]
  BY StageChanges DEF Acquire, StreamsInv, Stages
<1>2. run[s].pc = "waiting" /\ free' = [free EXCEPT ![HostOf[s]] = @ - 1] /\ UNCHANGED <<store, live, lost>>
  BY DEF Acquire
<1>3. SlotsOK'
  BY <1>1, <1>2, SlotMoves DEF StreamsInv, Holding
<1>4. TokensOK'
  <2>1. \A t \in Streams : /\ run'[t].doc = run[t].doc /\ (run'[t].pc \in Refreshing => run[t].pc \in Refreshing)
                           /\ (run'[t].pc = "answered" => run[t].pc = "answered")
                           /\ (run[t].pc = "answered" => run'[t].pc = "answered")
    BY <1>1, <1>2 DEF Refreshing
  <2> QED BY <1>2, <2>1, TokensKept DEF StreamsInv
<1> QED BY <1>1, <1>2, <1>3, <1>4 DEF StreamsInv, StreamsTypeOK

\* A stream at work ends, however it does.
LEMMA EndOK ==
  ASSUME StreamsConstants, StreamsInv, NEW s \in Streams, run[s].pc \in Holding, End(s), UNCHANGED <<store, live>>
  PROVE  StreamsInv'
<1>1. /\ run' \in [Streams -> Runs] /\ run'[s].pc = "ended" /\ run'[s].doc = run[s].doc
      /\ \A t \in Streams \ {s} : run'[t] = run[t]
  BY StageChanges DEF End, StreamsInv, Stages
<1>2. free' = [free EXCEPT ![HostOf[s]] = Released(s)] /\ lost' = (lost \/ run[s].pc \in {"asking", "answered"})
  BY DEF End
<1>3. SlotsOK'
  BY <1>1, <1>2, SlotMoves DEF StreamsInv, Holding
<1>4. lost' \in BOOLEAN /\ (lost => lost') /\ (run[s].pc = "answered" => lost')
  BY <1>2
<1>5. TokensOK'
  <2>1. \A t \in Streams : /\ run'[t].doc = run[t].doc /\ (run'[t].pc \in Refreshing => run[t].pc \in Refreshing)
                           /\ (run'[t].pc = "answered" => run[t].pc = "answered")
                           /\ (run[t].pc = "answered" => run'[t].pc = "answered" \/ lost')
    BY <1>1, <1>4 DEF Refreshing
  <2> QED BY <1>4, <2>1, TokensKept DEF StreamsInv
<1> QED BY <1>1, <1>3, <1>4, <1>5 DEF StreamsInv, StreamsTypeOK

\* A failure, a disconnect, or the close of the last call.
LEMMA EndingsOK ==
  ASSUME StreamsConstants, StreamsInv, NEW s \in Streams, Fail(s) \/ Leave(s) \/ Closed(s)
  PROVE  StreamsInv'
<1>1. CASE Fail(s)
  BY <1>1, EndOK DEF Fail, Interruptible
<1>2. CASE Leave(s)
  <2>1. CASE run[s].pc \in Holding /\ End(s)
    BY <1>2, <2>1, EndOK DEF Leave
  <2>2. CASE run[s].pc = "waiting" /\ GoesTo(s, "ended") /\ UNCHANGED <<free, lock, lost>>
    BY <1>2, <2>2, QuietStep DEF Leave, Holding, Refreshing, Stages
  <2> QED BY <1>2, <2>1, <2>2 DEF Leave
<1>3. CASE Closed(s)
  <2>1. CASE End(s)
    BY <1>3, <2>1, EndOK DEF Closed, Holding
  <2>2. CASE GoesTo(s, "working") /\ UNCHANGED <<free, lock, lost>>
    BY <1>3, <2>2, QuietStep DEF Closed, Holding, Refreshing, Stages
  <2> QED BY <1>3, <2>1, <2>2 DEF Closed
<1> QED BY <1>1, <1>2, <1>3

\* A process stops: all its slots are free again.
LEMMA CrashOK ==
  ASSUME StreamsConstants, StreamsInv, NEW h \in Hosts, Crash(h)
  PROVE  StreamsInv'
<1>1. \A s \in Streams : run[s] \in Runs /\ run[s].pc \in Stages
  BY DEF StreamsInv, StreamsTypeOK, Runs
<1>2. ASSUME NEW s \in Streams
      PROVE  /\ run'[s] \in Runs /\ run'[s].doc = run[s].doc
             /\ run'[s].pc = IF HostOf[s] = h /\ run[s].pc \in Active \ {"new"} THEN "ended" ELSE run[s].pc
  <2> DEFINE k == [run[s] EXCEPT !.pc = "ended"]
  <2>1. k \in Runs /\ k.pc = "ended" /\ k.doc = run[s].doc
    BY <1>1 DEF Runs, Stages
  <2>2. run'[s] = IF HostOf[s] = h /\ run[s].pc \in Active \ {"new"} THEN k ELSE run[s]
    BY DEF Crash
  <2> HIDE DEF k
  <2> QED BY <1>1, <2>1, <2>2
<1>3. run' \in [Streams -> Runs]
  <2>1. run' = [s \in Streams |-> run'[s]]
    BY DEF Crash
  <2> QED BY <1>2, <2>1
<1>4. Holding \subseteq Active \ {"new"} /\ "ended" \notin Holding
  BY DEF Active, Holding, Reading
<1>5. SlotsOK'
  <2>1. free' \in [Hosts -> Int] /\ free'[h] = StreamSlots /\ \A g \in Hosts \ {h} : free'[g] = free[g]
    BY DEF Crash, StreamsInv, SlotsOK, StreamsConstants
  <2>2. AtWork(h)' = {}
    BY <1>2, <1>4 DEF AtWork
  <2>3. \A g \in Hosts \ {h} : AtWork(g)' = AtWork(g)
    BY <1>2 DEF AtWork
  <2>4. ASSUME NEW g \in Hosts PROVE free'[g] + Cardinality(AtWork(g)') = StreamSlots
    <3>1. CASE g = h
      BY <2>1, <2>2, <3>1, FS_EmptySet DEF StreamsConstants
    <3>2. CASE g # h
      BY <2>1, <2>3, <3>2 DEF StreamsInv, SlotsOK, SlotsAddUp, AtWork
    <3> QED BY <3>1, <3>2
  <2> QED BY <2>1, <2>4 DEF SlotsOK, SlotsAddUp, AtWork
<1>6. lost' \in BOOLEAN /\ (lost => lost') /\ UNCHANGED <<store, live>>
      /\ \A s \in Streams : HostOf[s] = h /\ run[s].pc = "answered" => lost'
  BY DEF Crash, StreamsInv, StreamsTypeOK
<1>7. TokensOK'
  <2>1. \A s \in Streams : /\ run'[s].doc = run[s].doc /\ (run'[s].pc \in Refreshing => run[s].pc \in Refreshing)
                           /\ (run'[s].pc = "answered" => run[s].pc = "answered")
                           /\ (run[s].pc = "answered" => run'[s].pc = "answered" \/ lost')
    BY <1>2, <1>6 DEF Refreshing
  <2> QED BY <1>6, <2>1, TokensKept DEF StreamsInv
<1> QED BY <1>3, <1>5, <1>6, <1>7 DEF StreamsInv, StreamsTypeOK

\* A step of one stream that holds its slot throughout.
LEMMA HeldStep ==
  ASSUME StreamsTypeOK, SlotsOK, NEW s \in Streams, NEW k \in Runs, run' = [run EXCEPT ![s] = k], UNCHANGED free,
         run[s].pc \in Holding, k.pc \in Holding
  PROVE  /\ run' \in [Streams -> Runs] /\ run'[s] = k /\ \A t \in Streams \ {s} : run'[t] = run[t]
         /\ SlotsOK'
<1>1. run' \in [Streams -> Runs] /\ run'[s] = k /\ \A t \in Streams \ {s} : run'[t] = run[t]
  BY DEF StreamsTypeOK
<1>2. \A t \in Streams : run'[t].pc \in Holding <=> run[t].pc \in Holding
  BY <1>1
<1> QED BY <1>1, <1>2, SlotsKept

\* A provider call begins.
LEMMA CallProviderOK ==
  ASSUME StreamsConstants, StreamsInv, NEW s \in Streams, CallProvider(s)
  PROVE  StreamsInv'
<1> DEFINE k == [pc |-> "locking", calls |-> run[s].calls + 1, doc |-> run[s].doc]
<1>1. run' = [run EXCEPT ![s] = k] /\ run[s].pc = "working" /\ UNCHANGED <<free, store, live, lost>>
  BY DEF CallProvider
<1>2. k \in Runs /\ k.pc = "locking" /\ k.doc = run[s].doc
  BY DEF StreamsInv, StreamsTypeOK, Runs, Stages
<1> HIDE DEF k
<1>3. /\ run' \in [Streams -> Runs] /\ run'[s] = k /\ \A t \in Streams \ {s} : run'[t] = run[t]
      /\ SlotsOK'
  BY <1>1, <1>2, HeldStep DEF StreamsInv, Holding
<1>4. TokensOK'
  <2>1. \A t \in Streams : /\ run'[t].doc = run[t].doc /\ (run'[t].pc \in Refreshing => run[t].pc \in Refreshing)
                           /\ (run'[t].pc = "answered" => run[t].pc = "answered")
                           /\ (run[t].pc = "answered" => run'[t].pc = "answered")
    BY <1>1, <1>2, <1>3 DEF Refreshing
  <2> QED BY <1>1, <2>1, TokensKept DEF StreamsInv
<1> QED BY <1>1, <1>3, <1>4 DEF StreamsInv, StreamsTypeOK

\* The stored credentials are read: whoever may save them has newer ones.
LEMMA LoadOK ==
  ASSUME StreamsConstants, StreamsInv, NEW s \in Streams, Load(s)
  PROVE  StreamsInv'
<1> DEFINE k == [pc |-> "loaded", calls |-> run[s].calls, doc |-> store]
<1>1. run' = [run EXCEPT ![s] = k] /\ run[s].pc = "locking" /\ UNCHANGED <<free, store, live, lost>>
  BY DEF Load
<1>2. k \in Runs /\ k.pc = "loaded" /\ k.doc = store
  BY DEF StreamsInv, StreamsTypeOK, Runs, Stages
<1> HIDE DEF k
<1>3. /\ run' \in [Streams -> Runs] /\ run'[s] = k /\ \A t \in Streams \ {s} : run'[t] = run[t]
      /\ SlotsOK'
  BY <1>1, <1>2, HeldStep DEF StreamsInv, Holding
<1>4. TokensOK'
  <2>1. TokensOK
    BY DEF StreamsInv
  <2>2. ASSUME NEW t \in Streams, run'[t].pc = "answered"
        PROVE  /\ t # s /\ run'[t] = run[t] /\ run[t].pc = "answered"
               /\ run[t].doc.generation = live[run[t].doc.login]
               /\ store.login = run[t].doc.login => store.generation < live[store.login]
               /\ \A u \in Streams \ {t} : run'[u].pc \in Refreshing /\ run'[u].doc.login = run[t].doc.login =>
                    run'[u].doc.generation < live[run[t].doc.login]
    <3>1. t # s /\ run'[t] = run[t] /\ run[t].pc = "answered"
      BY <1>2, <1>3, <2>2
    <3>2. /\ run[t].doc.generation = live[run[t].doc.login]
          /\ store.login = run[t].doc.login => store.generation < live[store.login]
      BY <2>1, <3>1 DEF TokensOK
    <3>3. ASSUME NEW u \in Streams \ {t}, run'[u].pc \in Refreshing, run'[u].doc.login = run[t].doc.login
          PROVE  run'[u].doc.generation < live[run[t].doc.login]
      <4>1. CASE u = s
        BY <1>2, <1>3, <3>2, <3>3, <4>1
      <4>2. CASE u # s
        <5>1. run'[u] = run[u]
          BY <1>3, <4>2
        <5> QED BY <2>1, <3>1, <3>3, <5>1 DEF TokensOK
      <4> QED BY <4>1, <4>2
    <3> QED BY <3>1, <3>2, <3>3
  <2>3. \A t \in Streams : run'[t].doc.generation <= live[run'[t].doc.login]
    <3>1. store.generation <= live[store.login] /\ \A t \in Streams : run[t].doc.generation <= live[run[t].doc.login]
      BY <2>1 DEF TokensOK
    <3> QED BY <1>2, <1>3, <3>1
  <2>4. ~lost => \/ store.generation = live[store.login]
                 \/ \E t \in Streams : run'[t].pc = "answered" /\ run'[t].doc.login = store.login
    <3>1. \A t \in Streams : run[t].pc = "answered" => run'[t] = run[t]
      BY <1>1, <1>3
    <3> QED BY <2>1, <3>1 DEF TokensOK
  <2>5. store.generation <= live[store.login]
    BY <2>1 DEF TokensOK
  <2> QED BY <1>1, <2>2, <2>3, <2>4, <2>5 DEF TokensOK
<1> QED BY <1>1, <1>3, <1>4 DEF StreamsInv, StreamsTypeOK

\* The provider rotates the latest token: nobody else has its successor.
LEMMA RotateOK ==
  ASSUME StreamsConstants, StreamsInv, NEW s \in Streams, Rotate(s)
  PROVE  StreamsInv'
<1> DEFINE d == run[s].doc
           k == [pc |-> "answered", calls |-> run[s].calls, doc |-> Doc(run[s].doc.login, run[s].doc.generation + 1)]
<1>0. PICK l \in 0..MaxLogin : l = d.login
  BY DEF StreamsInv, StreamsTypeOK, Runs, Docs
<1>a. PICK g \in Nat : g = d.generation
  BY DEF StreamsInv, StreamsTypeOK, Runs, Docs
<1>1. /\ run' = [run EXCEPT ![s] = k] /\ run[s].pc = "asking" /\ live[l] = g
      /\ live' = [live EXCEPT ![l] = g + 1] /\ UNCHANGED <<free, store, lost>>
  BY <1>0, <1>a DEF Rotate
<1>2. k \in Runs /\ k.pc = "answered" /\ k.doc.login = l /\ k.doc.generation = g + 1
  BY <1>0, <1>a DEF StreamsInv, StreamsTypeOK, Runs, Stages, Docs, Doc
<1> HIDE DEF k
<1>3. /\ run' \in [Streams -> Runs] /\ run'[s] = k /\ \A t \in Streams \ {s} : run'[t] = run[t]
      /\ SlotsOK'
  BY <1>1, <1>2, HeldStep DEF StreamsInv, Holding
<1>4. live' \in [0..MaxLogin -> Nat] /\ live'[l] = g + 1 /\ \A i \in 0..MaxLogin \ {l} : live'[i] = live[i]
  BY <1>1 DEF StreamsInv, StreamsTypeOK
<1>5. /\ \A t \in Streams : run[t].doc.generation \in Nat /\ run[t].doc.login \in 0..MaxLogin
      /\ store.generation \in Nat /\ store.login \in 0..MaxLogin
      /\ \A i \in 0..MaxLogin : live[i] \in Nat
  BY DEF StreamsInv, StreamsTypeOK, Runs, Docs
<1>6. TokensOK
  BY DEF StreamsInv
<1>7. ASSUME NEW t \in Streams, run[t].pc = "answered" PROVE run[t].doc.login # l
  <2>1. t # s /\ run[s].pc \in Refreshing
    BY <1>1, <1>7 DEF Refreshing
  <2>2. run[t].doc.login = l => g < live[l]
    BY <1>0, <1>a, <1>6, <1>7, <2>1 DEF TokensOK
  <2> QED BY <1>1, <2>2
<1>8. ASSUME NEW t \in Streams \ {s}
      PROVE  run'[t].doc.generation <= live[run'[t].doc.login] /\ run'[t] = run[t]
             /\ (run'[t].doc.login = l => run'[t].doc.generation < g + 1)
  <2>1. run'[t] = run[t] /\ run[t].doc.generation <= live[run[t].doc.login]
    BY <1>3, <1>6 DEF TokensOK
  <2> QED BY <1>1, <1>5, <2>1
<1>9. TokensOK'
  <2>1. \A t \in Streams : run'[t].doc.generation <= live'[run'[t].doc.login]
    <3> TAKE t \in Streams
    <3>1. CASE t = s
      BY <1>2, <1>3, <1>4, <3>1
    <3>2. CASE t # s
      BY <1>4, <1>5, <1>8, <3>2
    <3> QED BY <3>1, <3>2
  <2>2. store.generation <= live[store.login] /\ store.generation <= live'[store.login]
        /\ (store.login = l => store.generation < g + 1)
    <3>1. store.generation <= live[store.login]
      BY <1>6 DEF TokensOK
    <3> QED BY <1>1, <1>4, <1>5, <3>1
  <2>3. ASSUME NEW t \in Streams, run'[t].pc = "answered"
        PROVE  /\ run'[t].doc.generation = live'[run'[t].doc.login]
               /\ store.login = run'[t].doc.login => store.generation < live'[store.login]
               /\ \A u \in Streams \ {t} : run'[u].pc \in Refreshing /\ run'[u].doc.login = run'[t].doc.login =>
                    run'[u].doc.generation < live'[run'[t].doc.login]
    <3>1. CASE t = s
      BY <1>2, <1>3, <1>4, <1>8, <2>2, <3>1
    <3>2. CASE t # s
      <4>1. run'[t] = run[t] /\ run[t].pc = "answered" /\ run[t].doc.login # l
            /\ live'[run[t].doc.login] = live[run[t].doc.login]
        BY <1>4, <1>5, <1>7, <1>8, <2>3, <3>2
      <4>2. /\ run[t].doc.generation = live[run[t].doc.login]
            /\ store.login = run[t].doc.login => store.generation < live[store.login]
            /\ \A u \in Streams \ {t} : run[u].pc \in Refreshing /\ run[u].doc.login = run[t].doc.login =>
                 run[u].doc.generation < live[run[t].doc.login]
        BY <1>6, <4>1 DEF TokensOK
      <4>3. ASSUME NEW u \in Streams \ {t}, run'[u].pc \in Refreshing, run'[u].doc.login = run[t].doc.login
            PROVE  run'[u].doc.generation < live[run[t].doc.login]
        <5>1. u # s
          BY <1>2, <1>3, <4>1, <4>3
        <5>2. run'[u] = run[u]
          BY <1>3, <5>1
        <5> QED BY <4>2, <4>3, <5>2
      <4> QED BY <4>1, <4>2, <4>3
    <3> QED BY <3>1, <3>2
  <2>4. ~lost => \/ store.generation = live'[store.login]
                 \/ \E t \in Streams : run'[t].pc = "answered" /\ run'[t].doc.login = store.login
    <3>1. CASE store.login = l
      BY <1>2, <1>3, <3>1
    <3>2. CASE store.login # l
      <4>1. live'[store.login] = live[store.login]
        BY <1>4, <1>5, <3>2
      <4>2. \A t \in Streams : run[t].pc = "answered" => run'[t] = run[t]
        BY <1>1, <1>3
      <4> QED BY <1>6, <4>1, <4>2 DEF TokensOK
    <3> QED BY <3>1, <3>2
  <2> QED BY <1>1, <2>1, <2>2, <2>3, <2>4 DEF TokensOK
<1> QED BY <1>1, <1>3, <1>4, <1>9 DEF StreamsInv, StreamsTypeOK

\* The rotated document is stored: it is the latest of its login.
LEMMA SaveOK ==
  ASSUME StreamsConstants, StreamsInv, NEW s \in Streams, Save(s)
  PROVE  StreamsInv'
<1>1. run[s].pc = "answered" /\ store' = run[s].doc /\ UNCHANGED <<free, live, lost>>
  BY DEF Save, Saved
<1>2. /\ run' \in [Streams -> Runs] /\ run'[s].pc = "streaming" /\ run'[s].doc = run[s].doc
      /\ \A t \in Streams \ {s} : run'[t] = run[t]
  BY StageChanges DEF Save, StreamsInv, Stages
<1>3. SlotsOK'
  <2>1. \A t \in Streams : run'[t].pc \in Holding <=> run[t].pc \in Holding
    BY <1>1, <1>2 DEF Holding
  <2> QED BY <1>1, <2>1, SlotsKept DEF StreamsInv
<1>4. TokensOK
  BY DEF StreamsInv
<1>5. store'.generation = live[store'.login]
  BY <1>1, <1>4 DEF TokensOK
<1>6. ASSUME NEW t \in Streams, run'[t].pc = "answered"
      PROVE  t # s /\ run'[t] = run[t] /\ run[t].doc.login # run[s].doc.login
  <2>1. t # s /\ run'[t] = run[t]
    BY <1>2, <1>6
  <2>2. run[t].doc.login = run[s].doc.login =>
          run[t].doc.generation = live[run[s].doc.login] /\ run[t].doc.generation < live[run[s].doc.login]
    BY <1>1, <1>4, <1>6, <2>1 DEF TokensOK, Refreshing
  <2>3. live[run[s].doc.login] \in Nat
    BY DEF StreamsInv, StreamsTypeOK, Runs, Docs
  <2> QED BY <2>1, <2>2, <2>3
<1>7. TokensOK'
  <2>1. \A t \in Streams : run'[t].doc = run[t].doc /\ (run'[t].pc \in Refreshing => run[t].pc \in Refreshing)
    BY <1>2 DEF Refreshing
  <2>2. \A t \in Streams : run'[t].doc.generation <= live[run'[t].doc.login]
    BY <1>4, <2>1 DEF TokensOK
  <2>3. store'.generation <= live[store'.login]
    BY <1>1, <1>4 DEF TokensOK
  <2>4. ASSUME NEW t \in Streams, run'[t].pc = "answered"
        PROVE  /\ run'[t].doc.generation = live[run'[t].doc.login]
               /\ store'.login # run'[t].doc.login
               /\ \A u \in Streams \ {t} : run'[u].pc \in Refreshing /\ run'[u].doc.login = run'[t].doc.login =>
                    run'[u].doc.generation < live[run'[t].doc.login]
    <3>1. run'[t] = run[t] /\ run[t].pc = "answered" /\ run[t].doc.login # run[s].doc.login
      BY <1>6, <2>4
    <3> QED BY <1>1, <1>4, <2>1, <3>1 DEF TokensOK
  <2> QED BY <1>1, <1>5, <2>2, <2>3, <2>4 DEF TokensOK
<1> QED BY <1>1, <1>2, <1>3, <1>7 DEF StreamsInv, StreamsTypeOK, Runs

\* A new login, which nobody has read or rotated.
LEMMA ImportOK ==
  ASSUME StreamsConstants, StreamsInv, Import
  PROVE  StreamsInv'
<1>1. PICK l \in 1..MaxLogin : live[l] = 0 /\ (\A s \in Streams : run[s].doc.login # l) /\ store' = Doc(l, 0)
  BY DEF Import
<1>2. UNCHANGED <<run, free, live, lost>>
  BY DEF Import
<1>3. store' \in Docs /\ store'.login = l /\ store'.generation = 0
  BY <1>1 DEF Doc, Docs
<1>4. SlotsOK'
  BY <1>2, SlotsKept DEF StreamsInv
<1>5. TokensOK'
  <2>1. store'.generation <= live[store'.login] /\ store'.generation = live[store'.login]
    BY <1>1, <1>3
  <2>2. \A s \in Streams : store'.login # run[s].doc.login
    BY <1>1, <1>3
  <2> QED BY <1>2, <2>1, <2>2 DEF StreamsInv, TokensOK
<1> QED BY <1>2, <1>3, <1>4, <1>5 DEF StreamsInv, StreamsTypeOK

\* Nothing but the age of a token changes, or nothing at all.
LEMMA AgeOK ==
  ASSUME StreamsInv, UNCHANGED <<run, free, store, live, lost>>
  PROVE  StreamsInv'
<1>1. SlotsOK'
  BY SlotsKept DEF StreamsInv
<1>2. TokensOK'
  BY DEF StreamsInv, TokensOK
<1> QED BY <1>1, <1>2 DEF StreamsInv, StreamsTypeOK

\* Every step keeps the slots and the login.
LEMMA StreamsNextOK ==
  ASSUME StreamsConstants, StreamsInv, [StreamsNext]_streamVars
  PROVE  StreamsInv'
<1>1. CASE \E s \in Streams : StreamStep(s)
  <2>1. PICK s \in Streams : StreamStep(s)
    BY <1>1
  <2> QED BY <2>1, StagesOK, AcquireOK, EndingsOK, CallProviderOK, LoadOK, RotateOK, SaveOK DEF StreamStep
<1>2. CASE \E h \in Hosts : Crash(h)
  BY <1>2, CrashOK
<1>3. CASE Import
  BY <1>3, ImportOK
<1>4. CASE Age
  BY <1>4, AgeOK DEF Age
<1>5. CASE UNCHANGED streamVars
  BY <1>5, AgeOK DEF streamVars
<1> QED BY <1>1, <1>2, <1>3, <1>4, <1>5 DEF StreamsNext

\* At first no stream is at work and the stored login is the first.
LEMMA StreamsInitOK ==
  ASSUME StreamsConstants, StreamsInit
  PROVE  StreamsInv
<1>1. Doc(0, 0) \in Docs /\ Doc(0, 0).login = 0 /\ Doc(0, 0).generation = 0
  BY DEF Docs, Doc, StreamsConstants
<1>2. StreamsTypeOK /\ \A s \in Streams : run[s].pc = "new" /\ run[s].doc = Doc(0, 0)
  BY <1>1 DEF StreamsInit, StreamsTypeOK, Runs, Stages
<1>3. SlotsOK
  <2>1. \A h \in Hosts : AtWork(h) = {} /\ free[h] = StreamSlots
    BY <1>2 DEF AtWork, Holding, StreamsInit
  <2>2. free \in [Hosts -> Int]
    BY DEF StreamsInit, StreamsConstants
  <2>3. \A h \in Hosts : free[h] + Cardinality(AtWork(h)) = StreamSlots
    BY <2>1, FS_EmptySet DEF StreamsConstants
  <2> QED BY <2>2, <2>3 DEF SlotsOK, SlotsAddUp, AtWork
<1>4. TokensOK
  BY <1>1, <1>2 DEF TokensOK, StreamsInit, StreamsConstants
<1> QED BY <1>2, <1>3, <1>4 DEF StreamsInv

\* The chat streams (chat/workspace.py events, llm/client.py): a stream gives back its slot
\* however it ends, and the stored login stays one the provider accepts though processes
\* that know nothing of each other refresh it, unless a rotation is lost with its caller.
THEOREM StreamsShareSoundly == ASSUME StreamsConstants PROVE StreamsSpec => []StreamsSound
<1>1. StreamsInit => StreamsInv
  BY StreamsInitOK
<1>2. StreamsInv /\ [StreamsNext]_streamVars => StreamsInv'
  BY StreamsNextOK
<1>3. StreamsInv => StreamsSound
  <2>1. StreamsInv => StoredTokenLives
    BY DEF StreamsInv, TokensOK, StoredTokenLives
  <2> QED BY <2>1 DEF StreamsInv, SlotsOK, StreamsSound
<1> QED BY <1>1, <1>2, <1>3, PTL DEF StreamsSpec

=============================================================================
