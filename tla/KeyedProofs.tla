----------------------------- MODULE KeyedProofs -----------------------------
(***************************************************************************)
(* Keyed writes, for every number of users, keys, payloads, handlers and   *)
(* requests, and every life of a record.                                   *)
(*                                                                         *)
(* The rows of two handlers are apart (Apart): what one transaction has    *)
(* deleted, inserted, or reserved for a mutation to come, no other one     *)
(* writes.  So a step of one handler concerns its own rows only (Step):    *)
(* the other handlers (OthersOK) and the other rows (RowsKept) are as they *)
(* were, and each action is left with its own row (RowOK).                 *)
(***************************************************************************)
EXTENDS KeyedRequests, FiniteSetTheorems, TLAPS

Places     == {"idle", "lock", "own", "insert", "read", "operate", "reserved", "mutate", "complete"}
SavedRow   == [status: {"pending", "done"}, hash: Payloads, expires: Nat, id: Nat]
RequestRow == [mode: {"execute", "reserve"}, user: Users, key: Keys, hash: Payloads,
               id: Nat, started: Nat, expires: Nat]
EffectRow  == [user: Users, key: Keys, hash: Payloads, id: Nat, at: Nat, order: Nat,
               expires: Nat, mode: {"execute", "reserve"}]

Types ==
  /\ clock \in 0 .. MaxTime /\ submitted \in 0 .. MaxRequests
  /\ record \in [KeyedRows -> SavedRow \cup {NoRecord}]
  /\ rowLock \in [KeyedRows -> SUBSET Handlers] /\ account \in [Users -> SUBSET Handlers]
  /\ pc \in [Handlers -> Places] /\ req \in [Handlers -> RequestRow \cup {NoRequest}]
  /\ deleted \in [Handlers -> SUBSET KeyedRows]
  /\ effects \in SUBSET EffectRow /\ IsFiniteSet(effects)
  /\ DOMAIN answer = Handlers

\* A lock has one holder, a number one request.
Single(S) == \A p, q \in S : p = q
Exclusive ==
  /\ \A r \in KeyedRows : Single(rowLock[r])
  /\ \A u \in Users : Single(account[u])
  /\ \A p, q \in Handlers : p # q /\ pc[p] # "idle" /\ pc[q] # "idle" => req[p].id # req[q].id

RowOfEffect(e) == <<e.user, e.key>>
Of(r)          == {e \in effects : RowOfEffect(e) = r}

\* An inserted row is locked; it was absent, or deleted by the same transaction.
Inserted(p) == /\ p \in rowLock[RowOf(p)]
               /\ record[RowOf(p)].status # "absent" => RowOf(p) \in deleted[p]
Pending(p)  == record[RowOf(p)] = PendingRecord(req[p])
Fresh(p)    == \A e \in Of(RowOf(p)) : e.expires <= clock
Done(p)     == \E e \in Of(RowOf(p)) : e.hash = req[p].hash /\ e.id = req[p].id

\* What the place of a handler says about its request and its rows.
HandlerOK(p) ==
  /\ pc[p] # "idle" => req[p] \in RequestRow /\ req[p].id <= submitted /\ req[p].started <= clock
  /\ \A r \in deleted[p] : p \in rowLock[r] /\ record[r].status = "done" /\ record[r].expires <= clock
  /\ pc[p] \in {"operate", "reserved"} => Inserted(p)
  /\ pc[p] \in {"mutate", "complete"} => Pending(p)
  /\ pc[p] \in {"operate", "reserved", "mutate"} => Fresh(p)
  /\ pc[p] \notin {"idle", "complete"} => \A e \in effects : e.id # req[p].id
  /\ pc[p] = "complete" => Done(p)

\* What a record says about the effects under its key.
RowOK(r) ==
  /\ \A e \in Of(r) : e.expires <= clock \/ (record[r].status # "absent" /\ e.expires <= record[r].expires)
  /\ record[r].status = "done" => \E e \in Of(r) : e.hash = record[r].hash /\ e.id = record[r].id
  /\ \A e, f \in Of(r) : e # f => e.at >= f.expires \/ f.at >= e.expires
  /\ record[r].status = "pending" => \A e, f \in Of(r) : e.id = record[r].id => f.order <= e.order

Counted == \A e \in effects : e.id <= submitted /\ e.order <= Cardinality(effects)

IInv ==
  /\ Types /\ Exclusive /\ Counted /\ ReplayIsTheEffect
  /\ \A p \in Handlers : HandlerOK(p)
  /\ \A r \in KeyedRows : RowOK(r)

-----------------------------------------------------------------------------
(* The view of a step.                                                       *)

Writing == {"operate", "reserved", "mutate", "complete"}
\* The rows a handler has deleted, inserted or reserved.
Mine(p) == deleted[p] \cup (IF pc[p] \in Writing THEN {RowOf(p)} ELSE {})

\* A step of p writes rows of its own, and the effect of its request.
Step(p) ==
  /\ \A r \in KeyedRows : r \notin Mine(p) => record'[r] = record[r]
  /\ effects \subseteq effects'
  /\ \A e \in effects' : e \notin effects => pc[p] # "idle" /\ RowOfEffect(e) \in Mine(p) /\ e.id = req[p].id
  /\ clock <= clock' /\ submitted <= submitted' /\ clock' \in Nat /\ submitted' \in Nat
  /\ \A q \in Handlers : q # p =>
       /\ pc'[q] = pc[q] /\ req'[q] = req[q] /\ deleted'[q] = deleted[q]
       /\ \A r \in KeyedRows : q \in rowLock[r] => q \in rowLock'[r]

\* A request in flight names a row.
LEMMA RowIsThere ==
  ASSUME IInv, NEW p \in Handlers, pc[p] # "idle"
  PROVE  req[p] \in RequestRow /\ RowOf(p) \in KeyedRows
BY DEF IInv, HandlerOK, RequestRow, RowOf, KeyedRows

\* A record that is there is a row of the table.
LEMMA SavedIsThere ==
  ASSUME IInv, NEW r \in KeyedRows
  PROVE  record[r].status # "absent" <=> record[r] \in SavedRow
BY DEF IInv, Types, SavedRow, NoRecord

\* The rows of two handlers are apart.
LEMMA Apart ==
  ASSUME IInv, NEW p \in Handlers, NEW q \in Handlers, p # q
  PROVE  Mine(p) \cap Mine(q) = {}
<1> SUFFICES ASSUME NEW r \in Mine(p), r \in Mine(q) PROVE FALSE
  OBVIOUS
<1>1. ASSUME NEW h \in Handlers, r \in Mine(h)
      PROVE  /\ r \in KeyedRows
             /\ \/ h \in rowLock[r] /\ record[r].status # "pending"
                \/ pc[h] # "idle" /\ record[r].status = "pending" /\ record[r].id = req[h].id
  <2>1. CASE r \in deleted[h]
    <3>1. h \in rowLock[r] /\ record[r].status = "done" /\ r \in KeyedRows
      BY <2>1 DEF IInv, HandlerOK, Types
    <3> QED BY <3>1
  <2>2. CASE r \notin deleted[h]
    <3>1. pc[h] \in Writing /\ r = RowOf(h) /\ r \in KeyedRows
      BY <1>1, <2>2, RowIsThere DEF Mine, Writing
    <3>2. CASE pc[h] \in {"operate", "reserved"}
      <4>1. h \in rowLock[r] /\ record[r].status = "absent"
        BY <2>2, <3>1, <3>2 DEF IInv, HandlerOK, Inserted
      <4> QED BY <3>1, <4>1
    <3>3. CASE pc[h] \in {"mutate", "complete"}
      <4>1. record[r] = PendingRecord(req[h])
        BY <3>1, <3>3 DEF IInv, HandlerOK, Pending
      <4> QED BY <3>1, <3>3, <4>1 DEF PendingRecord
    <3> QED BY <3>1, <3>2, <3>3 DEF Writing
  <2> QED BY <2>1, <2>2
<1>2. /\ \A h \in rowLock[r], k \in rowLock[r] : h = k
      /\ pc[p] # "idle" /\ pc[q] # "idle" => req[p].id # req[q].id
  BY <1>1 DEF IInv, Exclusive, Single
<1> QED BY <1>1, <1>2

\* What the others have written stays.
LEMMA OthersOK ==
  ASSUME IInv, NEW p \in Handlers, Step(p), NEW q \in Handlers, q # p
  PROVE  HandlerOK(q)'
<1>1. /\ pc'[q] = pc[q] /\ req'[q] = req[q] /\ deleted'[q] = deleted[q]
      /\ \A r \in KeyedRows : q \in rowLock[r] => q \in rowLock'[r]
      /\ clock <= clock' /\ submitted <= submitted' /\ clock' \in Nat /\ submitted' \in Nat
      /\ clock \in Nat /\ submitted \in Nat
  BY DEF Step, IInv, Types
<1>2. \A r \in Mine(q) : r \in KeyedRows => record'[r] = record[r] /\ Of(r)' = Of(r)
  <2> SUFFICES ASSUME NEW r \in Mine(q), r \in KeyedRows PROVE record'[r] = record[r] /\ Of(r)' = Of(r)
    OBVIOUS
  <2>1. r \notin Mine(p)
    BY Apart
  <2> QED BY <2>1 DEF Step, Of, RowOfEffect
<1>3. RowOf(q)' = RowOf(q)
  BY <1>1 DEF RowOf
<1>4. pc'[q] # "idle" => req'[q] \in RequestRow /\ req'[q].id <= submitted' /\ req'[q].started <= clock'
  <2> SUFFICES ASSUME pc[q] # "idle"
               PROVE req[q] \in RequestRow /\ req[q].id <= submitted' /\ req[q].started <= clock'
    BY <1>1
  <2>1. req[q] \in RequestRow /\ req[q].id <= submitted /\ req[q].started <= clock
    BY DEF IInv, HandlerOK
  <2>2. req[q].id \in Nat /\ req[q].started \in Nat
    BY <2>1 DEF RequestRow
  <2> QED BY <1>1, <2>1, <2>2
<1>5. \A r \in deleted'[q] : q \in rowLock'[r] /\ record'[r].status = "done" /\ record'[r].expires <= clock'
  <2> SUFFICES ASSUME NEW r \in deleted[q]
               PROVE  q \in rowLock'[r] /\ record'[r].status = "done" /\ record'[r].expires <= clock'
    BY <1>1
  <2>1. r \in KeyedRows /\ q \in rowLock[r] /\ record[r].status = "done" /\ record[r].expires <= clock
    BY DEF IInv, HandlerOK, Types
  <2>2. record'[r] = record[r]
    BY <1>2, <2>1 DEF Mine
  <2>3. record[r].expires \in Nat
    BY <2>1, SavedIsThere DEF SavedRow
  <2> QED BY <1>1, <2>1, <2>2, <2>3
<1>6. pc[q] \in Writing => record'[RowOf(q)] = record[RowOf(q)] /\ Of(RowOf(q))' = Of(RowOf(q))
                           /\ RowOf(q) \in KeyedRows
  <2> SUFFICES ASSUME pc[q] \in Writing PROVE record'[RowOf(q)] = record[RowOf(q)] /\ Of(RowOf(q))' = Of(RowOf(q))
                                              /\ RowOf(q) \in KeyedRows
    OBVIOUS
  <2>1. RowOf(q) \in KeyedRows /\ RowOf(q) \in Mine(q)
    BY RowIsThere DEF Writing, Mine
  <2>2. \A r \in Mine(q) : r \in KeyedRows /\ r = RowOf(q)' => Of(r)' = Of(RowOf(q))'
    BY DEF Of
  <2> QED BY <1>2, <1>3, <2>1, <2>2
<1>7. pc'[q] \in {"operate", "reserved"} => Inserted(q)'
  BY <1>1, <1>3, <1>6 DEF IInv, HandlerOK, Inserted, Writing
<1>8. pc'[q] \in {"mutate", "complete"} => Pending(q)'
  BY <1>1, <1>3, <1>6 DEF IInv, HandlerOK, Pending, PendingRecord, Writing
<1>9. pc'[q] \in {"operate", "reserved", "mutate"} => Fresh(q)'
  <2> SUFFICES ASSUME pc[q] \in {"operate", "reserved", "mutate"},
                      NEW e \in Of(RowOf(q))' PROVE e.expires <= clock'
    BY <1>1 DEF Fresh
  <2>1. e \in Of(RowOf(q)) /\ e \in effects
    BY <1>6 DEF Writing, Of
  <2>2. e.expires <= clock /\ e.expires \in Nat
    BY <2>1 DEF IInv, HandlerOK, Fresh, Types, EffectRow
  <2> QED BY <1>1, <2>2
<1>10. pc'[q] \notin {"idle", "complete"} => \A e \in effects' : e.id # req'[q].id
  <2> SUFFICES ASSUME pc[q] \notin {"idle", "complete"}, NEW e \in effects' PROVE e.id # req[q].id
    BY <1>1
  <2>1. CASE e \in effects
    BY <2>1 DEF IInv, HandlerOK
  <2>2. CASE e \notin effects
    BY <2>2 DEF Step, IInv, Exclusive
  <2> QED BY <2>1, <2>2
<1>11. pc'[q] = "complete" => Done(q)'
  <2> SUFFICES ASSUME pc[q] = "complete" PROVE Done(q)'
    BY <1>1
  <2>1. Done(q) /\ Of(RowOf(q))' = Of(RowOf(q))
    BY <1>6 DEF IInv, HandlerOK, Writing
  <2> QED BY <1>1, <2>1 DEF Done
<1> QED BY <1>4, <1>5, <1>7, <1>8, <1>9, <1>10, <1>11 DEF HandlerOK

\* What is under the other keys stays as it is.
LEMMA RowsKept ==
  ASSUME IInv, NEW p \in Handlers, Step(p), NEW r \in KeyedRows, record'[r] = record[r], Of(r)' = Of(r)
  PROVE  RowOK(r)'
<1>1. RowOK(r) /\ clock <= clock' /\ clock' \in Nat /\ clock \in Nat
  BY DEF IInv, Step, Types
<1>2. \A e \in Of(r) : e.expires \in Nat
  BY DEF IInv, Types, Of, EffectRow
<1> QED BY <1>1, <1>2 DEF RowOK

\* A step keeps the invariant if it does for the handler and the rows it is about.
LEMMA StepOK ==
  ASSUME IInv, NEW p \in Handlers, Step(p), HandlerOK(p)',
         Types', Exclusive', Counted', ReplayIsTheEffect',
         \A r \in KeyedRows : r \in Mine(p) => RowOK(r)'
  PROVE  IInv'
<1>1. ASSUME NEW r \in KeyedRows, r \notin Mine(p) PROVE RowOK(r)'
  <2>1. record'[r] = record[r] /\ Of(r)' = Of(r)
    BY <1>1 DEF Step, Of
  <2> QED BY <2>1, RowsKept
<1>2. \A q \in Handlers : HandlerOK(q)'
  BY OthersOK
<1> QED BY <1>1, <1>2 DEF IInv

\* Statements before the commit: no record and no effect changes, only the locks.
Quiet(p) ==
  /\ record' = record /\ effects' = effects /\ clock' = clock
  /\ submitted' \in submitted .. MaxRequests
  /\ \E x \in Places, q \in RequestRow \cup {NoRequest}, d \in SUBSET KeyedRows :
       /\ pc' = [pc EXCEPT ![p] = x] /\ req' = [req EXCEPT ![p] = q]
       /\ deleted' = [deleted EXCEPT ![p] = d]
  /\ rowLock' \in [KeyedRows -> SUBSET Handlers] /\ account' \in [Users -> SUBSET Handlers]
  /\ \A r \in KeyedRows : Single(rowLock'[r])
  /\ \A u \in Users : Single(account'[u])
  /\ \A r \in KeyedRows, q \in Handlers : q # p /\ q \in rowLock[r] => q \in rowLock'[r]
  /\ DOMAIN answer' = Handlers
  /\ \A q \in Handlers : answer'[q] = answer[q] \/ answer'[q].mode # "success"

LEMMA QuietOK ==
  ASSUME IInv, NEW p \in Handlers, Quiet(p), HandlerOK(p)',
         \A q \in Handlers : q # p /\ pc[q] # "idle" /\ pc'[p] # "idle" => req'[p].id # req[q].id
  PROVE  IInv'
<1>1. /\ record' = record /\ effects' = effects /\ clock' = clock
      /\ submitted' \in submitted .. MaxRequests /\ submitted \in Nat /\ clock \in Nat /\ MaxRequests \in Nat
  BY KeyedAssumption DEF Quiet, IInv, Types
<1>2. PICK x \in Places, q \in RequestRow \cup {NoRequest}, d \in SUBSET KeyedRows :
        /\ pc' = [pc EXCEPT ![p] = x] /\ req' = [req EXCEPT ![p] = q]
        /\ deleted' = [deleted EXCEPT ![p] = d]
  BY DEF Quiet
<1>3. /\ pc' \in [Handlers -> Places] /\ req' \in [Handlers -> RequestRow \cup {NoRequest}]
      /\ deleted' \in [Handlers -> SUBSET KeyedRows]
      /\ \A h \in Handlers : h # p => pc'[h] = pc[h] /\ req'[h] = req[h] /\ deleted'[h] = deleted[h]
  BY <1>2 DEF IInv, Types
<1>4. Types'
  BY <1>1, <1>3 DEF Types, IInv, Quiet
<1>5. Step(p)
  BY <1>1, <1>3 DEF Step, Quiet
<1>6. Exclusive'
  <2>1. \A g, h \in Handlers : g # h /\ pc'[g] # "idle" /\ pc'[h] # "idle" => req'[g].id # req'[h].id
    <3> SUFFICES ASSUME NEW g \in Handlers, NEW h \in Handlers, g # h, pc'[g] # "idle", pc'[h] # "idle"
                 PROVE  req'[g].id # req'[h].id
      OBVIOUS
    <3>1. CASE g = p
      BY <1>3, <3>1
    <3>2. CASE h = p
      BY <1>3, <3>2
    <3>3. CASE g # p /\ h # p
      BY <1>3, <3>3 DEF IInv, Exclusive
    <3> QED BY <3>1, <3>2, <3>3
  <2> QED BY <2>1 DEF Exclusive, Quiet
<1>7. Counted'
  <2>1. \A e \in effects : e.id \in Nat
    BY DEF IInv, Types, EffectRow
  <2> QED BY <1>1, <2>1 DEF IInv, Counted
<1>8. ReplayIsTheEffect'
  BY <1>1 DEF IInv, ReplayIsTheEffect, Quiet, SameKey
<1>9. \A r \in KeyedRows : RowOK(r)'
  <2> SUFFICES ASSUME NEW r \in KeyedRows PROVE RowOK(r)'
    OBVIOUS
  <2>1. record'[r] = record[r] /\ Of(r)' = Of(r)
    BY <1>1 DEF Of
  <2> QED BY <1>5, <2>1, RowsKept
<1> QED BY <1>4, <1>5, <1>6, <1>7, <1>8, <1>9, StepOK

-----------------------------------------------------------------------------
(* Statements before the commit.                                             *)

\* After a statement the deleted rows of a transaction are d, and locked; every lock is kept.
Deletes(p, d) ==
  /\ d \in SUBSET KeyedRows /\ deleted' = [deleted EXCEPT ![p] = d]
  /\ rowLock' \in [KeyedRows -> SUBSET Handlers]
  /\ \A r \in KeyedRows : Single(rowLock'[r])
  /\ \A r \in KeyedRows, q \in Handlers : q \in rowLock[r] => q \in rowLock'[r]
  /\ \A r \in d : p \in rowLock'[r] /\ record'[r].status = "done" /\ record'[r].expires <= clock

\* The rows a transaction deletes are its own from then on.
LEMMA DeleteOK ==
  ASSUME IInv, NEW p \in Handlers, NEW rows \in SUBSET KeyedRows, Delete(p, rows), record' = record,
         \A r \in rows : rowLock[r] = {} /\ record[r].status = "done" /\ record[r].expires <= clock
  PROVE  Deletes(p, deleted[p] \cup rows)
<1>1. /\ \A r \in KeyedRows : rowLock'[r] = IF r \in rows THEN {p} ELSE rowLock[r]
      /\ rowLock' \in [KeyedRows -> SUBSET Handlers]
      /\ deleted' = [deleted EXCEPT ![p] = deleted[p] \cup rows] /\ deleted[p] \in SUBSET KeyedRows
  BY DEF Delete, IInv, Types
<1>2. \A r \in KeyedRows : Single(rowLock'[r])
  BY <1>1 DEF IInv, Exclusive, Single
<1>3. \A r \in deleted[p] : p \in rowLock[r] /\ record[r].status = "done" /\ record[r].expires <= clock
  BY DEF IInv, HandlerOK
<1> QED BY <1>1, <1>2, <1>3 DEF Deletes

\* A handler between two statements: nothing of its request or its rows is new.
LEMMA GoesOn ==
  ASSUME IInv, NEW p \in Handlers, pc[p] \in {"lock", "own", "insert"}, req' = req,
         record' = record, effects' = effects, clock' = clock, submitted' = submitted,
         pc'[p] \in {"own", "insert", "read"},
         \A r \in deleted'[p] : p \in rowLock'[r] /\ record'[r].status = "done" /\ record'[r].expires <= clock
  PROVE  HandlerOK(p)'
BY DEF IInv, HandlerOK

\* _acquire_request takes a number nobody has.
LEMMA SubmitOK ==
  ASSUME IInv, NEW p \in Handlers, NEW u \in Users, NEW k \in Keys, NEW h \in Payloads,
         NEW mode \in {"execute", "reserve"}, Submit(p, u, k, h, mode)
  PROVE  IInv'
<1> DEFINE q == [mode |-> mode, user |-> u, key |-> k, hash |-> h,
                 id |-> submitted + 1, started |-> clock, expires |-> clock + TTL]
<1>1. submitted \in Nat /\ clock \in Nat /\ TTL \in Nat /\ MaxRequests \in Nat /\ submitted < MaxRequests
  BY KeyedAssumption DEF IInv, Types, Submit
<1>2. q \in RequestRow /\ q.id = submitted + 1 /\ q.started = clock
  BY <1>1 DEF RequestRow
<1>3. pc[p] = "idle" /\ req' = [req EXCEPT ![p] = q]
  BY DEF Submit
<1> HIDE DEF q
<1>4. req'[p] = q /\ pc'[p] = "lock" /\ deleted'[p] = deleted[p]
  BY <1>3 DEF Submit, IInv, Types
<1>5. Quiet(p)
  <2>1. answer' = [answer EXCEPT ![p] = NoRequest] /\ NoRequest.mode = "none" /\ DOMAIN answer = Handlers
    BY DEF Submit, NoRequest, IInv, Types
  <2>2. /\ pc' = [pc EXCEPT ![p] = "lock"] /\ "lock" \in Places
        /\ deleted' = [deleted EXCEPT ![p] = deleted[p]] /\ deleted[p] \in SUBSET KeyedRows
    BY DEF Submit, Places, IInv, Types
  <2>3. \E x \in Places, y \in RequestRow \cup {NoRequest}, d \in SUBSET KeyedRows :
          /\ pc' = [pc EXCEPT ![p] = x] /\ req' = [req EXCEPT ![p] = y]
          /\ deleted' = [deleted EXCEPT ![p] = d]
    BY <1>2, <1>3, <2>2
  <2>4. DOMAIN answer' = Handlers /\ \A g \in Handlers : answer'[g] = answer[g] \/ answer'[g].mode # "success"
    BY <2>1
  <2>5. /\ UNCHANGED <<clock, record, rowLock, account, effects>>
        /\ submitted' = submitted + 1 /\ submitted' \in submitted .. MaxRequests
    BY <1>1 DEF Submit
  <2>6. /\ rowLock \in [KeyedRows -> SUBSET Handlers] /\ account \in [Users -> SUBSET Handlers]
        /\ \A r \in KeyedRows : Single(rowLock[r])
        /\ \A v \in Users : Single(account[v])
    BY DEF IInv, Types, Exclusive
  <2> QED BY <2>3, <2>4, <2>5, <2>6 DEF Quiet
<1>6. HandlerOK(p)'
  <2>1. \A e \in effects : e.id # submitted + 1
    <3>1. \A e \in effects : e.id <= submitted /\ e.id \in Nat
      BY DEF IInv, Counted, Types, EffectRow
    <3> QED BY <1>1, <3>1
  <2>2. UNCHANGED <<clock, record, rowLock, effects>> /\ submitted' = submitted + 1
    BY DEF Submit
  <2>3. \A r \in deleted[p] : p \in rowLock[r] /\ record[r].status = "done" /\ record[r].expires <= clock
    BY DEF IInv, HandlerOK
  <2> QED BY <1>1, <1>2, <1>4, <2>1, <2>2, <2>3 DEF HandlerOK
<1>7. ASSUME NEW g \in Handlers, g # p, pc[g] # "idle" PROVE req'[p].id # req[g].id
  <2>1. req[g].id <= submitted /\ req[g].id \in Nat
    BY <1>7 DEF IInv, HandlerOK, RequestRow
  <2> QED BY <1>1, <1>2, <1>4, <2>1
<1> QED BY <1>5, <1>6, <1>7, QuietOK

\* A statement that goes on to the next one.
LEMMA StatementOK ==
  ASSUME IInv, NEW p \in Handlers, pc[p] # "idle", NEW x \in Places, pc' = [pc EXCEPT ![p] = x],
         NEW d \in SUBSET KeyedRows, deleted' = [deleted EXCEPT ![p] = d],
         UNCHANGED <<clock, record, req, effects, answer, submitted>>,
         rowLock' \in [KeyedRows -> SUBSET Handlers], account' \in [Users -> SUBSET Handlers],
         \A r \in KeyedRows : Single(rowLock'[r]), \A u \in Users : Single(account'[u]),
         \A r \in KeyedRows, q \in Handlers : q \in rowLock[r] => q \in rowLock'[r],
         HandlerOK(p)'
  PROVE  IInv'
<1>1. submitted' \in submitted .. MaxRequests
  BY KeyedAssumption DEF IInv, Types
<1>2. req' = [req EXCEPT ![p] = req[p]] /\ req[p] \in RequestRow \cup {NoRequest}
  BY DEF IInv, Types
<1>3. \E y \in Places, q \in RequestRow \cup {NoRequest}, e \in SUBSET KeyedRows :
        /\ pc' = [pc EXCEPT ![p] = y] /\ req' = [req EXCEPT ![p] = q]
        /\ deleted' = [deleted EXCEPT ![p] = e]
  BY <1>2
<1>4. Quiet(p)
  BY <1>1, <1>3 DEF Quiet, IInv, Types
<1>5. \A q \in Handlers : q # p /\ pc[q] # "idle" /\ pc'[p] # "idle" => req'[p].id # req[q].id
  BY DEF IInv, Exclusive
<1> QED BY <1>4, <1>5, QuietOK

\* _lock_google_account and prune_idempotency_records.
LEMMA LockAndPruneOK ==
  ASSUME IInv, NEW p \in Handlers, LockAndPrune(p)
  PROVE  IInv'
<1>1. pc[p] = "lock" /\ UNCHANGED <<clock, record, req, effects, answer, submitted>>
      /\ pc' = [pc EXCEPT ![p] = "own"] /\ pc'[p] = "own" /\ "own" \in Places /\ req[p] \in RequestRow
  BY RowIsThere DEF LockAndPrune, IInv, Types, Places
<1>2. account' \in [Users -> SUBSET Handlers] /\ \A u \in Users : Single(account'[u])
  <2>1. req[p].user \in Users /\ account[req[p].user] = {}
        /\ account' = [account EXCEPT ![req[p].user] = account[req[p].user] \cup {p}]
    BY <1>1 DEF LockAndPrune, AccountFree, RequestRow
  <2> QED BY <2>1 DEF IInv, Types, Exclusive, Single
<1>3. PICK d \in SUBSET Prunable(p) : Delete(p, d)
  BY DEF LockAndPrune
<1>4. d \in SUBSET KeyedRows /\ \A r \in d : rowLock[r] = {} /\ record[r].status = "done" /\ record[r].expires <= clock
  <2> SUFFICES ASSUME NEW r \in d
               PROVE  r \in KeyedRows /\ rowLock[r] = {} /\ record[r].status = "done" /\ record[r].expires <= clock
    OBVIOUS
  <2>1. r \in KeyedRows /\ rowLock[r] = {} /\ record[r].status = "done" /\ record[r].expires <= req[p].started
    BY <1>3 DEF Prunable, Completed
  <2>2. record[r].expires \in Nat /\ req[p].started \in Nat /\ req[p].started <= clock /\ clock \in Nat
    BY <1>1, <2>1, SavedIsThere DEF SavedRow, RequestRow, IInv, HandlerOK, Types
  <2> QED BY <2>1, <2>2
<1>5. Deletes(p, deleted[p] \cup d)
  BY <1>1, <1>3, <1>4, DeleteOK
<1>6. deleted'[p] = deleted[p] \cup d
  BY <1>5 DEF Deletes, IInv, Types
<1>7. HandlerOK(p)'
  BY <1>1, <1>5, <1>6, GoesOn DEF Deletes
<1> QED BY <1>1, <1>2, <1>5, <1>7, StatementOK DEF Deletes

\* acquire_idempotency removes the caller's own expired record.
LEMMA DeleteOwnOK ==
  ASSUME IInv, NEW p \in Handlers, DeleteOwn(p)
  PROVE  IInv'
<1>1. pc[p] = "own" /\ UNCHANGED <<clock, record, account, req, effects, answer, submitted>>
      /\ pc' = [pc EXCEPT ![p] = "insert"] /\ pc'[p] = "insert" /\ "insert" \in Places
      /\ RowOf(p) \in KeyedRows
  BY RowIsThere DEF DeleteOwn, IInv, Types, Places
<1>2. account' \in [Users -> SUBSET Handlers] /\ \A u \in Users : Single(account'[u])
  BY <1>1 DEF IInv, Types, Exclusive
<1>3. PICK d : Deletes(p, d)
  <2>1. CASE OwnExpired(p)
    <3>1. /\ Delete(p, {RowOf(p)}) /\ {RowOf(p)} \in SUBSET KeyedRows
          /\ \A r \in {RowOf(p)} : rowLock[r] = {} /\ record[r].status = "done" /\ record[r].expires <= clock
      BY <1>1, <2>1 DEF DeleteOwn, OwnExpired, Completed
    <3> QED BY <1>1, <3>1, DeleteOK
  <2>2. CASE ~OwnExpired(p)
    <3>1. UNCHANGED <<rowLock, deleted>>
      BY <2>2 DEF DeleteOwn
    <3>2. deleted' = [deleted EXCEPT ![p] = deleted[p]] /\ deleted[p] \in SUBSET KeyedRows
      BY <3>1 DEF IInv, Types
    <3>3. \A r \in deleted[p] : p \in rowLock[r] /\ record[r].status = "done" /\ record[r].expires <= clock
      BY DEF IInv, HandlerOK
    <3>4. Deletes(p, deleted[p])
      BY <1>1, <3>1, <3>2, <3>3 DEF Deletes, IInv, Types, Exclusive
    <3> QED BY <3>4
  <2> QED BY <2>1, <2>2
<1>4. deleted'[p] = d
  BY <1>3 DEF Deletes, IInv, Types
<1>5. HandlerOK(p)'
  BY <1>1, <1>3, <1>4, GoesOn DEF Deletes
<1> QED BY <1>1, <1>2, <1>3, <1>5, StatementOK DEF Deletes

\* INSERT ... ON CONFLICT DO NOTHING: without a record in sight, every effect under the
\* key has expired.
LEMMA InsertRecordOK ==
  ASSUME IInv, NEW p \in Handlers, InsertRecord(p)
  PROVE  IInv'
<1> DEFINE x == IF Visible(p) THEN "read" ELSE IF req[p].mode = "execute" THEN "operate" ELSE "reserved"
<1>1. /\ pc[p] = "insert" /\ rowLock[RowOf(p)] \subseteq {p} /\ RowOf(p) \in KeyedRows
      /\ UNCHANGED <<clock, record, account, req, deleted, effects, answer, submitted>>
      /\ pc' = [pc EXCEPT ![p] = x] /\ pc'[p] = x /\ x \in Places
      /\ x \in {"read", "operate", "reserved"} /\ (x = "read" <=> Visible(p))
  BY RowIsThere DEF InsertRecord, IInv, Types, Places
<1>2. account' \in [Users -> SUBSET Handlers] /\ \A u \in Users : Single(account'[u])
  BY <1>1 DEF IInv, Types, Exclusive
<1>3. deleted' = [deleted EXCEPT ![p] = deleted[p]] /\ deleted[p] \in SUBSET KeyedRows
  BY <1>1 DEF IInv, Types
<1>4. /\ rowLock' \in [KeyedRows -> SUBSET Handlers]
      /\ \A r \in KeyedRows : Single(rowLock'[r])
      /\ \A r \in KeyedRows, q \in Handlers : q \in rowLock[r] => q \in rowLock'[r]
      /\ ~Visible(p) => p \in rowLock'[RowOf(p)]
  <2>1. CASE Visible(p)
    BY <2>1 DEF InsertRecord, IInv, Types, Exclusive
  <2>2. CASE ~Visible(p)
    <3>1. rowLock' = [rowLock EXCEPT ![RowOf(p)] = {p}]
      BY <2>2 DEF InsertRecord
    <3> QED BY <1>1, <3>1 DEF IInv, Types, Exclusive, Single
  <2> QED BY <2>1, <2>2
<1> HIDE DEF x
<1>5. HandlerOK(p)'
  <2>1. RowOf(p)' = RowOf(p)
    BY <1>1 DEF RowOf
  <2>2. \A r \in deleted[p] : p \in rowLock'[r] /\ record[r].status = "done" /\ record[r].expires <= clock
    BY <1>3, <1>4 DEF IInv, HandlerOK
  <2>3. ~Visible(p) => Inserted(p)' /\ Fresh(p)'
    <3> SUFFICES ASSUME ~Visible(p) PROVE Inserted(p)' /\ Fresh(p)'
      OBVIOUS
    <3>1. record[RowOf(p)].status # "absent" => RowOf(p) \in deleted[p]
      BY DEF Visible
    <3>2. Inserted(p)'
      BY <1>1, <1>4, <2>1, <3>1 DEF Inserted
    <3>3. ASSUME NEW e \in Of(RowOf(p)) PROVE e.expires <= clock
      <4>1. /\ e.expires <= clock \/ (record[RowOf(p)].status # "absent" /\ e.expires <= record[RowOf(p)].expires)
            /\ e.expires \in Nat /\ clock \in Nat
        BY <1>1, <3>3 DEF IInv, RowOK, Types, Of, EffectRow
      <4>2. CASE record[RowOf(p)].status # "absent" /\ e.expires <= record[RowOf(p)].expires
        <5>1. record[RowOf(p)].expires <= clock /\ record[RowOf(p)].expires \in Nat
          BY <1>1, <2>2, <3>1, <4>2, SavedIsThere DEF SavedRow
        <5> QED BY <4>1, <4>2, <5>1
      <4> QED BY <4>1, <4>2
    <3>4. Fresh(p)'
      <4>1. Of(RowOf(p))' = Of(RowOf(p))
        BY <1>1, <2>1 DEF Of
      <4> QED BY <1>1, <3>3, <4>1 DEF Fresh
    <3> QED BY <3>2, <3>4
  <2>4. req[p] \in RequestRow /\ req[p].id <= submitted /\ req[p].started <= clock
        /\ \A e \in effects : e.id # req[p].id
    BY <1>1 DEF IInv, HandlerOK
  <2>5. pc'[p] \in {"operate", "reserved"} => ~Visible(p)
    BY <1>1
  <2>6. pc'[p] \notin {"mutate", "complete"}
    BY <1>1
  <2> QED BY <1>1, <2>2, <2>3, <2>4, <2>5, <2>6 DEF HandlerOK
<1> QED BY <1>1, <1>2, <1>3, <1>4, <1>5, StatementOK

-----------------------------------------------------------------------------
(* The end of a transaction.                                                 *)

\* It releases what it holds, and nothing else.
LEMMA EndsOK ==
  ASSUME IInv, NEW p \in Handlers, EndTransaction(p)
  PROVE  /\ rowLock' \in [KeyedRows -> SUBSET Handlers] /\ account' \in [Users -> SUBSET Handlers]
         /\ \A r \in KeyedRows : Single(rowLock'[r])
         /\ \A u \in Users : Single(account'[u])
         /\ \A r \in KeyedRows, q \in Handlers : q # p /\ q \in rowLock[r] => q \in rowLock'[r]
         /\ deleted' = [deleted EXCEPT ![p] = {}] /\ {} \in SUBSET KeyedRows /\ deleted'[p] = {}
<1>1. /\ \A r \in KeyedRows : rowLock'[r] = rowLock[r] \ {p}
      /\ \A u \in Users : account'[u] = account[u] \ {p}
      /\ rowLock' \in [KeyedRows -> SUBSET Handlers] /\ account' \in [Users -> SUBSET Handlers]
  BY DEF EndTransaction, IInv, Types
<1>2. deleted' = [deleted EXCEPT ![p] = {}] /\ deleted'[p] = {}
  BY DEF EndTransaction, IInv, Types
<1> QED BY <1>1, <1>2 DEF IInv, Exclusive, Single

\* A handler without a request.
LEMMA IdleOK ==
  ASSUME NEW p \in Handlers, pc'[p] = "idle", deleted'[p] = {}
  PROVE  HandlerOK(p)'
BY DEF HandlerOK

\* A crash, an error, or an aborted circle of waiting transactions: nothing is kept.
LEMMA RollBackOK ==
  ASSUME IInv, NEW p \in Handlers, RollBack(p)
  PROVE  IInv'
<1>1. EndTransaction(p) /\ UNCHANGED <<clock, record, effects, submitted>>
      /\ answer' = [answer EXCEPT ![p] = NoRequest]
      /\ pc' = [pc EXCEPT ![p] = "idle"] /\ "idle" \in Places /\ pc'[p] = "idle"
      /\ req' = [req EXCEPT ![p] = NoRequest]
  BY DEF RollBack, Answered, Places, IInv, Types
<1>2. /\ deleted' = [deleted EXCEPT ![p] = {}] /\ {} \in SUBSET KeyedRows /\ deleted'[p] = {}
      /\ rowLock' \in [KeyedRows -> SUBSET Handlers] /\ account' \in [Users -> SUBSET Handlers]
      /\ \A r \in KeyedRows : Single(rowLock'[r])
      /\ \A u \in Users : Single(account'[u])
      /\ \A r \in KeyedRows, q \in Handlers : q # p /\ q \in rowLock[r] => q \in rowLock'[r]
  BY <1>1, EndsOK
<1>3. \E x \in Places, y \in RequestRow \cup {NoRequest}, d \in SUBSET KeyedRows :
        /\ pc' = [pc EXCEPT ![p] = x] /\ req' = [req EXCEPT ![p] = y]
        /\ deleted' = [deleted EXCEPT ![p] = d]
  BY <1>1, <1>2
<1>4. DOMAIN answer' = Handlers /\ \A g \in Handlers : answer'[g] = answer[g] \/ answer'[g].mode # "success"
  <2>1. NoRequest.mode = "none" /\ DOMAIN answer = Handlers
    BY DEF NoRequest, IInv, Types
  <2> QED BY <1>1, <2>1
<1>5. submitted' \in submitted .. MaxRequests
  BY <1>1, KeyedAssumption DEF IInv, Types
<1>6. Quiet(p)
  BY <1>1, <1>2, <1>3, <1>4, <1>5 DEF Quiet
<1>7. HandlerOK(p)'
  BY <1>1, <1>2, IdleOK
<1> QED BY <1>1, <1>6, <1>7, QuietOK

-----------------------------------------------------------------------------
(* Steps that store something.                                               *)

\* Where such a step leaves its handler, its locks and its answer.
Settles(p, x, y, a) ==
  /\ clock' = clock /\ submitted' = submitted
  /\ pc' = [pc EXCEPT ![p] = x] /\ x \in Places
  /\ req' = [req EXCEPT ![p] = y] /\ (y = req[p] \/ (x = "idle" /\ y = NoRequest))
  /\ \E d \in SUBSET KeyedRows : deleted' = [deleted EXCEPT ![p] = d]
  /\ rowLock' \in [KeyedRows -> SUBSET Handlers] /\ account' \in [Users -> SUBSET Handlers]
  /\ \A r \in KeyedRows : Single(rowLock'[r])
  /\ \A u \in Users : Single(account'[u])
  /\ \A r \in KeyedRows, q \in Handlers : q # p /\ q \in rowLock[r] => q \in rowLock'[r]
  /\ DOMAIN answer' = Handlers /\ \A q \in Handlers : answer'[q] = answer[q] \/ answer'[q] = a
  /\ a.mode = "success" => \E e \in effects' : SameKey(e, a) /\ e.hash = a.hash /\ e.id = a.id

\* What is left to show of such a step: the row it writes, and its handler.
LEMMA SettlesOK ==
  ASSUME IInv, NEW p \in Handlers, pc[p] # "idle", NEW x, NEW y, NEW a, Settles(p, x, y, a),
         record' \in [KeyedRows -> SavedRow \cup {NoRecord}],
         \A r \in KeyedRows : r \notin Mine(p) => record'[r] = record[r],
         effects \subseteq effects', effects' \in SUBSET EffectRow, IsFiniteSet(effects'), Counted',
         \A e \in effects' : e \notin effects => RowOfEffect(e) \in Mine(p) /\ e.id = req[p].id,
         HandlerOK(p)',
         \A r \in KeyedRows : r \in Mine(p) => RowOK(r)'
  PROVE  IInv'
<1>1. PICK d \in SUBSET KeyedRows : deleted' = [deleted EXCEPT ![p] = d]
  BY DEF Settles
<1>2. /\ pc' \in [Handlers -> Places] /\ req' \in [Handlers -> RequestRow \cup {NoRequest}]
      /\ deleted' \in [Handlers -> SUBSET KeyedRows]
      /\ \A h \in Handlers : h # p => pc'[h] = pc[h] /\ req'[h] = req[h] /\ deleted'[h] = deleted[h]
      /\ pc'[p] = x /\ req'[p] = y
  BY <1>1 DEF Settles, IInv, Types
<1>3. clock' = clock /\ submitted' = submitted /\ clock \in Nat /\ submitted \in Nat
  BY DEF Settles, IInv, Types
<1>4. DOMAIN answer' = Handlers
  BY DEF Settles, IInv, Types
<1>5. Types'
  BY <1>2, <1>3, <1>4 DEF Types, IInv, Settles
<1>6. Step(p)
  BY <1>2, <1>3 DEF Step, Settles
<1>7. Exclusive'
  <2>1. \A g, h \in Handlers : g # h /\ pc'[g] # "idle" /\ pc'[h] # "idle" => req'[g].id # req'[h].id
    <3>1. \A h \in Handlers : pc'[h] # "idle" => pc[h] # "idle" /\ req'[h] = req[h]
      BY <1>2 DEF Settles
    <3> QED BY <3>1 DEF IInv, Exclusive
  <2> QED BY <2>1 DEF Exclusive, Settles
<1>8. ReplayIsTheEffect'
  <2> SUFFICES ASSUME NEW h \in Handlers, answer'[h].mode = "success"
               PROVE  \E e \in effects' : SameKey(e, answer'[h]) /\ e.hash = answer'[h].hash /\ e.id = answer'[h].id
    BY DEF ReplayIsTheEffect, SameKey
  <2>1. CASE answer'[h] = answer[h]
    <3>1. \E e \in effects : SameKey(e, answer[h]) /\ e.hash = answer[h].hash /\ e.id = answer[h].id
      BY <2>1 DEF IInv, ReplayIsTheEffect
    <3> QED BY <2>1, <3>1
  <2>2. CASE answer'[h] # answer[h]
    <3>1. answer'[h] = a
      BY <2>2 DEF Settles
    <3> QED BY <2>2, <3>1 DEF Settles
  <2> QED BY <2>1, <2>2
<1> QED BY <1>5, <1>6, <1>7, <1>8, StepOK

\* The transaction ends, and the handler has its answer.
LEMMA AnsweredOK ==
  ASSUME IInv, NEW p \in Handlers, NEW id, EndTransaction(p), Answered(p, Response(p, id)),
         clock' = clock, submitted' = submitted,
         \E e \in effects' : RowOfEffect(e) = RowOf(p) /\ e.hash = req[p].hash /\ e.id = id
  PROVE  /\ Settles(p, "idle", NoRequest, Response(p, id))
         /\ HandlerOK(p)'
<1>1. /\ rowLock' \in [KeyedRows -> SUBSET Handlers] /\ account' \in [Users -> SUBSET Handlers]
      /\ \A r \in KeyedRows : Single(rowLock'[r])
      /\ \A u \in Users : Single(account'[u])
      /\ \A r \in KeyedRows, q \in Handlers : q # p /\ q \in rowLock[r] => q \in rowLock'[r]
      /\ deleted' = [deleted EXCEPT ![p] = {}] /\ {} \in SUBSET KeyedRows /\ deleted'[p] = {}
  BY EndsOK
<1>2. /\ answer' = [answer EXCEPT ![p] = Response(p, id)] /\ pc' = [pc EXCEPT ![p] = "idle"]
      /\ req' = [req EXCEPT ![p] = NoRequest] /\ "idle" \in Places /\ pc'[p] = "idle"
  BY DEF Answered, Places, IInv, Types
<1>3. \E e \in effects' : SameKey(e, Response(p, id)) /\ e.hash = Response(p, id).hash /\ e.id = Response(p, id).id
  BY DEF SameKey, Response, RowOfEffect, RowOf
<1>6. DOMAIN answer' = Handlers /\ \A q \in Handlers : answer'[q] = answer[q] \/ answer'[q] = Response(p, id)
  BY <1>2 DEF IInv, Types
<1>4. Settles(p, "idle", NoRequest, Response(p, id))
  BY <1>1, <1>2, <1>3, <1>6 DEF Settles
<1>5. HandlerOK(p)'
  BY <1>1, <1>2, IdleOK
<1> QED BY <1>4, <1>5

\* Rows a transaction has deleted disappear with its commit; what was done under their
\* keys has expired.
LEMMA EmptiedOK ==
  ASSUME IInv, NEW p \in Handlers, NEW r \in KeyedRows, r \in deleted[p],
         record'[r] = NoRecord, Of(r)' = Of(r), clock' = clock
  PROVE  RowOK(r)'
<1>1. /\ record[r].status = "done" /\ record[r].expires <= clock /\ clock \in Nat
      /\ record[r].expires \in Nat
  BY SavedIsThere DEF IInv, HandlerOK, SavedRow, Types
<1>2. ASSUME NEW e \in Of(r) PROVE e.expires <= clock
  <2>1. e.expires <= clock \/ e.expires <= record[r].expires
    BY <1>2 DEF IInv, RowOK
  <2>2. e.expires \in Nat
    BY <1>2 DEF IInv, Types, Of, EffectRow
  <2> QED BY <1>1, <2>1, <2>2
<1>3. \A e, f \in Of(r) : e # f => e.at >= f.expires \/ f.at >= e.expires
  BY DEF IInv, RowOK
<1>4. record'[r].status = "absent"
  BY DEF NoRecord
<1> QED BY <1>2, <1>3, <1>4 DEF RowOK

\* What a commit leaves in the table.
LEMMA CommitOK ==
  ASSUME IInv, NEW p \in Handlers, NEW own, CommitRows(p, own), DOMAIN own \subseteq {RowOf(p)},
         \A r \in DOMAIN own : own[r] \in SavedRow
  PROVE  /\ record' \in [KeyedRows -> SavedRow \cup {NoRecord}]
         /\ \A r \in KeyedRows : r \in DOMAIN own => record'[r] = own[r]
         /\ \A r \in KeyedRows : r \notin DOMAIN own /\ r \in deleted[p] => record'[r] = NoRecord
         /\ \A r \in KeyedRows : r \notin DOMAIN own /\ r \notin deleted[p] => record'[r] = record[r]
<1>1. ASSUME NEW r \in KeyedRows PROVE record[r] \in SavedRow \cup {NoRecord}
  BY <1>1 DEF IInv, Types
<1> QED BY <1>1 DEF CommitRows

\* The row of p is not written again: what p sees of a completed record is an effect
\* with its answer.
LEMMA ReplayOK ==
  ASSUME IInv, NEW p \in Handlers, pc[p] = "read", Visible(p), Matches(p), Completed(RowOf(p)),
         CommitRows(p, NoRow), EndTransaction(p), Answered(p, Response(p, record[RowOf(p)].id)),
         UNCHANGED <<clock, effects, submitted>>
  PROVE  IInv'
<1>1. RowOf(p) \in KeyedRows /\ req[p] \in RequestRow
  BY RowIsThere
<1>2. \E e \in effects' : RowOfEffect(e) = RowOf(p) /\ e.hash = req[p].hash /\ e.id = record[RowOf(p)].id
  BY <1>1 DEF IInv, RowOK, Of, Matches, Completed
<1>3. Settles(p, "idle", NoRequest, Response(p, record[RowOf(p)].id)) /\ HandlerOK(p)'
  BY <1>2, AnsweredOK
<1>4. DOMAIN NoRow = {}
  BY DEF NoRow
<1>5. /\ record' \in [KeyedRows -> SavedRow \cup {NoRecord}]
      /\ \A r \in KeyedRows : r \in deleted[p] => record'[r] = NoRecord
      /\ \A r \in KeyedRows : r \notin deleted[p] => record'[r] = record[r]
  BY <1>4, CommitOK
<1>6. \A r \in KeyedRows : r \in Mine(p) => r \in deleted[p]
  BY DEF Mine, Writing
<1>7. \A r \in KeyedRows : r \in Mine(p) => RowOK(r)'
  <2> SUFFICES ASSUME NEW r \in KeyedRows, r \in Mine(p) PROVE RowOK(r)'
    OBVIOUS
  <2>1. Of(r)' = Of(r)
    BY DEF Of
  <2> QED BY <1>5, <1>6, <2>1, EmptiedOK
<1>8. \A r \in KeyedRows : r \notin Mine(p) => record'[r] = record[r]
  BY <1>5 DEF Mine
<1>9. effects' \in SUBSET EffectRow /\ IsFiniteSet(effects') /\ Counted'
  BY DEF IInv, Types, Counted
<1> QED BY <1>3, <1>5, <1>7, <1>8, <1>9, SettlesOK

\* A mutation adds one effect, under the key of its request.
LEMMA NewEffect ==
  ASSUME IInv, NEW p \in Handlers, pc[p] \in {"operate", "mutate"}, NEW e, e = EffectOf(req[p]),
         effects' = effects \cup {e}, submitted' = submitted
  PROVE  /\ effects' \in SUBSET EffectRow /\ IsFiniteSet(effects') /\ Counted'
         /\ e.id = req[p].id /\ e.hash = req[p].hash /\ e.at = clock /\ e.expires = req[p].expires
         /\ e.expires \in Nat /\ RowOfEffect(e) = RowOf(p) /\ \A f \in effects : f.order <= e.order
         /\ \A r \in KeyedRows : Of(r)' = IF r = RowOf(p) THEN Of(r) \cup {e} ELSE Of(r)
<1>1. req[p] \in RequestRow /\ req[p].id <= submitted /\ \A f \in effects : f.id # req[p].id
  BY DEF IInv, HandlerOK
<1>2. Cardinality(effects) \in Nat /\ IsFiniteSet(effects) /\ clock \in Nat
  BY FS_CardinalityType DEF IInv, Types
<1>3. /\ e.id = req[p].id /\ e.hash = req[p].hash /\ e.at = clock /\ e.expires = req[p].expires
      /\ e.order = Cardinality(effects) + 1 /\ RowOfEffect(e) = RowOf(p)
  BY DEF EffectOf, RowOfEffect, RowOf
<1>4. e \in EffectRow /\ e.expires \in Nat
  BY <1>1, <1>2 DEF EffectOf, EffectRow, RequestRow
<1>5. e \notin effects
  BY <1>1, <1>3
<1>6. IsFiniteSet(effects') /\ Cardinality(effects') = Cardinality(effects) + 1
  BY <1>2, <1>5, FS_AddElement
<1>7. \A f \in effects : f.id <= submitted /\ f.order <= Cardinality(effects) /\ f.order \in Nat
  BY DEF IInv, Counted, Types, EffectRow
<1>8. Counted'
  BY <1>1, <1>2, <1>3, <1>6, <1>7 DEF Counted
<1>9. \A f \in effects : f.order <= e.order
  BY <1>2, <1>3, <1>7
<1>10. \A r \in KeyedRows : Of(r)' = IF r = RowOf(p) THEN Of(r) \cup {e} ELSE Of(r)
  BY <1>3 DEF Of
<1> QED BY <1>3, <1>4, <1>6, <1>8, <1>9, <1>10 DEF IInv, Types

\* execute_idempotency: the mutation and its completed record commit together, and
\* everything else under the key has expired.
LEMMA ExecuteOK ==
  ASSUME IInv, NEW p \in Handlers, pc[p] = "operate", effects' = effects \cup {EffectOf(req[p])},
         CommitRows(p, Own(p, DoneRecord(req[p]))), EndTransaction(p),
         Answered(p, Response(p, req[p].id)), UNCHANGED <<clock, submitted>>
  PROVE  IInv'
<1>1. RowOf(p) \in KeyedRows /\ req[p] \in RequestRow
  BY RowIsThere
<1>2. PICK e : e = EffectOf(req[p])
  OBVIOUS
<1>3. /\ effects' = effects \cup {e} /\ effects' \in SUBSET EffectRow /\ IsFiniteSet(effects') /\ Counted'
      /\ e.id = req[p].id /\ e.hash = req[p].hash /\ e.at = clock /\ e.expires = req[p].expires
      /\ e.expires \in Nat /\ RowOfEffect(e) = RowOf(p)
      /\ \A r \in KeyedRows : Of(r)' = IF r = RowOf(p) THEN Of(r) \cup {e} ELSE Of(r)
  BY <1>2, NewEffect
<1>4. Settles(p, "idle", NoRequest, Response(p, req[p].id)) /\ HandlerOK(p)'
  BY <1>3, AnsweredOK
<1>5. /\ DOMAIN Own(p, DoneRecord(req[p])) = {RowOf(p)}
      /\ Own(p, DoneRecord(req[p]))[RowOf(p)] = DoneRecord(req[p])
      /\ DoneRecord(req[p]) \in SavedRow
  BY <1>1 DEF Own, DoneRecord, SavedRow, RequestRow
<1>6. /\ record' \in [KeyedRows -> SavedRow \cup {NoRecord}]
      /\ record'[RowOf(p)] = DoneRecord(req[p])
      /\ \A r \in KeyedRows : r # RowOf(p) /\ r \in deleted[p] => record'[r] = NoRecord
      /\ \A r \in KeyedRows : r # RowOf(p) /\ r \notin deleted[p] => record'[r] = record[r]
  BY <1>1, <1>5, CommitOK
<1>7. RowOf(p) \in Mine(p) /\ \A r \in Mine(p) : r = RowOf(p) \/ r \in deleted[p]
  BY DEF Mine, Writing
<1>8. \A r \in KeyedRows : r = RowOf(p) => RowOK(r)'
  <2> SUFFICES ASSUME NEW r \in KeyedRows, r = RowOf(p) PROVE RowOK(r)'
    OBVIOUS
  <2>1. Of(r)' = Of(r) \cup {e} /\ \A f \in Of(r) : f.expires <= clock
    BY <1>3 DEF IInv, HandlerOK, Fresh
  <2>2. record'[r].status = "done" /\ record'[r].hash = e.hash /\ record'[r].id = e.id
        /\ record'[r].expires = e.expires /\ clock' = clock
    BY <1>3, <1>6 DEF DoneRecord
  <2>3. \A f, g \in Of(r) : f # g => f.at >= g.expires \/ g.at >= f.expires
    BY DEF IInv, RowOK
  <2>4. \A f \in Of(r)' : f.expires <= clock' \/ (record'[r].status # "absent" /\ f.expires <= record'[r].expires)
    BY <1>3, <2>1, <2>2
  <2>5. \A f, g \in Of(r)' : f # g => f.at >= g.expires \/ g.at >= f.expires
    <3>1. \A f \in Of(r) : e.at >= f.expires
      <4>1. \A f \in Of(r) : f.expires \in Nat /\ clock \in Nat
        BY DEF IInv, Types, Of, EffectRow
      <4> QED BY <1>3, <2>1, <4>1
    <3> QED BY <2>1, <2>3, <3>1
  <2> QED BY <2>1, <2>2, <2>4, <2>5 DEF RowOK
<1>9. \A r \in KeyedRows : r \in Mine(p) => RowOK(r)'
  <2> SUFFICES ASSUME NEW r \in KeyedRows, r \in Mine(p), r # RowOf(p) PROVE RowOK(r)'
    BY <1>8
  <2> QED BY <1>3, <1>6, <1>7, EmptiedOK
<1>10. \A r \in KeyedRows : r \notin Mine(p) => record'[r] = record[r]
  BY <1>6, <1>7 DEF Mine
<1>11. \A f \in effects' : f \notin effects => RowOfEffect(f) \in Mine(p) /\ f.id = req[p].id
  BY <1>3, <1>7
<1> QED BY <1>3, <1>4, <1>6, <1>9, <1>10, <1>11, SettlesOK

\* reserve: the pending record is committed; it is the mutation's to come.
LEMMA ReserveOK ==
  ASSUME IInv, NEW p \in Handlers, Reserve(p)
  PROVE  IInv'
<1>1. /\ RowOf(p) \in KeyedRows /\ req[p] \in RequestRow /\ pc[p] = "reserved"
      /\ CommitRows(p, Own(p, PendingRecord(req[p]))) /\ EndTransaction(p)
      /\ pc' = [pc EXCEPT ![p] = "mutate"] /\ UNCHANGED <<clock, req, effects, answer, submitted>>
  BY RowIsThere DEF Reserve
<1>2. /\ DOMAIN Own(p, PendingRecord(req[p])) = {RowOf(p)}
      /\ Own(p, PendingRecord(req[p]))[RowOf(p)] = PendingRecord(req[p])
      /\ PendingRecord(req[p]) \in SavedRow
  BY <1>1 DEF Own, PendingRecord, SavedRow, RequestRow
<1>3. /\ record' \in [KeyedRows -> SavedRow \cup {NoRecord}]
      /\ record'[RowOf(p)] = PendingRecord(req[p])
      /\ \A r \in KeyedRows : r # RowOf(p) /\ r \in deleted[p] => record'[r] = NoRecord
      /\ \A r \in KeyedRows : r # RowOf(p) /\ r \notin deleted[p] => record'[r] = record[r]
  BY <1>1, <1>2, CommitOK
<1>4. /\ rowLock' \in [KeyedRows -> SUBSET Handlers] /\ account' \in [Users -> SUBSET Handlers]
      /\ \A r \in KeyedRows : Single(rowLock'[r])
      /\ \A u \in Users : Single(account'[u])
      /\ \A r \in KeyedRows, q \in Handlers : q # p /\ q \in rowLock[r] => q \in rowLock'[r]
      /\ deleted' = [deleted EXCEPT ![p] = {}] /\ {} \in SUBSET KeyedRows /\ deleted'[p] = {}
  BY <1>1, EndsOK
<1>5. Settles(p, "mutate", req[p], NoRequest)
  <2>1. req' = [req EXCEPT ![p] = req[p]] /\ "mutate" \in Places /\ NoRequest.mode # "success"
        /\ DOMAIN answer' = Handlers
    BY <1>1 DEF IInv, Types, Places, NoRequest
  <2> QED BY <1>1, <1>4, <2>1 DEF Settles
<1>6. /\ Fresh(p) /\ req[p].id <= submitted /\ req[p].started <= clock
      /\ \A e \in effects : e.id # req[p].id
  BY <1>1 DEF IInv, HandlerOK
<1>7. RowOf(p)' = RowOf(p) /\ pc'[p] = "mutate" /\ \A r : Of(r)' = Of(r)
  BY <1>1 DEF RowOf, Of, IInv, Types
<1>8. HandlerOK(p)'
  <2>1. Pending(p)'
    BY <1>1, <1>3, <1>7 DEF Pending, PendingRecord
  <2>2. Fresh(p)'
    <3>1. Of(RowOf(p))' = Of(RowOf(p))
      BY <1>1, <1>7 DEF Of
    <3> QED BY <1>1, <1>6, <3>1 DEF Fresh
  <2> QED BY <1>1, <1>4, <1>6, <1>7, <2>1, <2>2 DEF HandlerOK
<1>9. RowOf(p) \in Mine(p) /\ \A r \in Mine(p) : r = RowOf(p) \/ r \in deleted[p]
  BY <1>1 DEF Mine, Writing
<1>10. \A r \in KeyedRows : r = RowOf(p) => RowOK(r)'
  <2> SUFFICES ASSUME NEW r \in KeyedRows, r = RowOf(p) PROVE RowOK(r)'
    OBVIOUS
  <2>1. \A f \in Of(r) : f.expires <= clock /\ f.id # req[p].id
    BY <1>6 DEF Fresh, Of
  <2>2. record'[r].status = "pending" /\ record'[r].id = req[p].id /\ clock' = clock /\ Of(r)' = Of(r)
    BY <1>1, <1>3, <1>7 DEF PendingRecord
  <2>3. \A f, g \in Of(r) : f # g => f.at >= g.expires \/ g.at >= f.expires
    BY DEF IInv, RowOK
  <2> QED BY <2>1, <2>2, <2>3 DEF RowOK
<1>11. \A r \in KeyedRows : r \in Mine(p) => RowOK(r)'
  <2> SUFFICES ASSUME NEW r \in KeyedRows, r \in Mine(p), r # RowOf(p) PROVE RowOK(r)'
    BY <1>10
  <2> QED BY <1>1, <1>3, <1>7, <1>9, EmptiedOK
<1>12. \A r \in KeyedRows : r \notin Mine(p) => record'[r] = record[r]
  BY <1>3, <1>9 DEF Mine
<1>13. effects' = effects /\ effects' \in SUBSET EffectRow /\ IsFiniteSet(effects') /\ Counted'
  BY <1>1 DEF IInv, Types, Counted
<1> QED BY <1>1, <1>3, <1>5, <1>8, <1>11, <1>12, <1>13, SettlesOK

\* Neither of the reserver's two steps touches a lock.
LEMMA KeepsLocks ==
  ASSUME IInv, NEW p \in Handlers, NEW x \in Places, NEW y, NEW a,
         pc' = [pc EXCEPT ![p] = x], req' = [req EXCEPT ![p] = y],
         y = req[p] \/ (x = "idle" /\ y = NoRequest),
         UNCHANGED <<clock, submitted, rowLock, account, deleted>>,
         answer' = answer \/ answer' = [answer EXCEPT ![p] = a],
         a.mode = "success" => \E e \in effects' : SameKey(e, a) /\ e.hash = a.hash /\ e.id = a.id
  PROVE  Settles(p, x, y, a)
<1>1. deleted' = [deleted EXCEPT ![p] = deleted[p]] /\ deleted[p] \in SUBSET KeyedRows
  BY DEF IInv, Types
<1>2. /\ rowLock' \in [KeyedRows -> SUBSET Handlers] /\ account' \in [Users -> SUBSET Handlers]
      /\ \A r \in KeyedRows : Single(rowLock'[r])
      /\ \A u \in Users : Single(account'[u])
  BY DEF IInv, Types, Exclusive
<1>3. DOMAIN answer' = Handlers /\ \A q \in Handlers : answer'[q] = answer[q] \/ answer'[q] = a
  BY DEF IInv, Types
<1> QED BY <1>1, <1>2, <1>3 DEF Settles

\* The reserver's mutation: its record is pending, so nobody else has run the key.
LEMMA MutateOK ==
  ASSUME IInv, NEW p \in Handlers, Mutate(p)
  PROVE  IInv'
<1>1. /\ RowOf(p) \in KeyedRows /\ req[p] \in RequestRow /\ pc[p] = "mutate"
      /\ effects' = effects \cup {EffectOf(req[p])} /\ pc' = [pc EXCEPT ![p] = "complete"]
      /\ UNCHANGED <<clock, record, rowLock, account, req, deleted, answer, submitted>>
  BY RowIsThere DEF Mutate
<1>2. PICK e : e = EffectOf(req[p])
  OBVIOUS
<1>3. /\ effects' = effects \cup {e} /\ effects' \in SUBSET EffectRow /\ IsFiniteSet(effects') /\ Counted'
      /\ e.id = req[p].id /\ e.hash = req[p].hash /\ e.at = clock /\ e.expires = req[p].expires
      /\ e.expires \in Nat /\ RowOfEffect(e) = RowOf(p) /\ \A f \in effects : f.order <= e.order
      /\ \A r \in KeyedRows : Of(r)' = IF r = RowOf(p) THEN Of(r) \cup {e} ELSE Of(r)
  BY <1>1, <1>2, NewEffect
<1>4. Settles(p, "complete", req[p], NoRequest)
  <2>1. req' = [req EXCEPT ![p] = req[p]] /\ "complete" \in Places /\ NoRequest.mode # "success"
    BY <1>1 DEF IInv, Types, Places, NoRequest
  <2> QED BY <1>1, <2>1, KeepsLocks
<1>5. /\ record[RowOf(p)] = PendingRecord(req[p]) /\ Fresh(p)
      /\ req[p].id <= submitted /\ req[p].started <= clock
      /\ \A f \in effects : f.id # req[p].id
      /\ \A r \in deleted[p] : p \in rowLock[r] /\ record[r].status = "done" /\ record[r].expires <= clock
  BY <1>1 DEF IInv, HandlerOK, Pending
<1>6. RowOf(p)' = RowOf(p) /\ pc'[p] = "complete" /\ req'[p] = req[p]
  BY <1>1 DEF RowOf, IInv, Types
<1>7. HandlerOK(p)'
  <2>1. Pending(p)'
    BY <1>1, <1>5, <1>6 DEF Pending, PendingRecord
  <2>2. Done(p)'
    BY <1>3, <1>6 DEF Done, Of
  <2> QED BY <1>1, <1>5, <1>6, <2>1, <2>2 DEF HandlerOK
<1>8. \A r \in KeyedRows : r = RowOf(p) => RowOK(r)'
  <2> SUFFICES ASSUME NEW r \in KeyedRows, r = RowOf(p) PROVE RowOK(r)'
    OBVIOUS
  <2>1. Of(r)' = Of(r) \cup {e} /\ \A f \in Of(r) : f.expires <= clock /\ f.id # e.id /\ f.order <= e.order
    BY <1>3, <1>5 DEF Fresh, Of
  <2>2. record'[r].status = "pending" /\ record'[r].id = e.id /\ record'[r].expires = e.expires /\ clock' = clock
    BY <1>1, <1>3, <1>5 DEF PendingRecord
  <2>3. \A f, g \in Of(r) : f # g => f.at >= g.expires \/ g.at >= f.expires
    BY DEF IInv, RowOK
  <2>4. \A f \in Of(r)' : f.expires <= clock' \/ (record'[r].status # "absent" /\ f.expires <= record'[r].expires)
    BY <1>3, <2>1, <2>2
  <2>5. \A f, g \in Of(r)' : f # g => f.at >= g.expires \/ g.at >= f.expires
    <3>1. \A f \in Of(r) : e.at >= f.expires
      <4>1. \A f \in Of(r) : f.expires \in Nat /\ clock \in Nat
        BY DEF IInv, Types, Of, EffectRow
      <4> QED BY <1>3, <2>1, <4>1
    <3> QED BY <2>1, <2>3, <3>1
  <2>6. \A f, g \in Of(r)' : f.id = record'[r].id => g.order <= f.order
    <3>1. e.order \in Nat /\ e \in effects'
      BY <1>3 DEF EffectRow
    <3> QED BY <2>1, <2>2, <3>1
  <2> QED BY <2>2, <2>4, <2>5, <2>6 DEF RowOK
<1>9. \A r \in KeyedRows : r \in Mine(p) => RowOK(r)'
  <2> SUFFICES ASSUME NEW r \in KeyedRows, r # RowOf(p) PROVE RowOK(r)'
    BY <1>8
  <2>1. Of(r)' = Of(r) /\ record'[r] = record[r] /\ clock' = clock
    BY <1>1, <1>3
  <2> QED BY <2>1 DEF IInv, RowOK
<1>10. \A f \in effects' : f \notin effects => RowOfEffect(f) \in Mine(p) /\ f.id = req[p].id
  BY <1>1, <1>3 DEF Mine, Writing
<1> QED BY <1>1, <1>3, <1>4, <1>7, <1>9, <1>10, SettlesOK DEF IInv, Types

\* complete: the pending record is still its own, and so is the effect.
LEMMA CompleteOK ==
  ASSUME IInv, NEW p \in Handlers, Complete(p)
  PROVE  IInv'
<1>1. /\ RowOf(p) \in KeyedRows /\ req[p] \in RequestRow /\ pc[p] = "complete"
      /\ record[RowOf(p)] = PendingRecord(req[p]) /\ Done(p)
      /\ UNCHANGED <<clock, rowLock, account, deleted, effects, submitted>>
  BY RowIsThere DEF Complete, IInv, HandlerOK, Pending
<1>2. /\ record[RowOf(p)].status = "pending" /\ record[RowOf(p)].hash = req[p].hash
      /\ record[RowOf(p)].id = req[p].id /\ record[RowOf(p)] \in SavedRow
  BY <1>1, SavedIsThere DEF PendingRecord
<1>3. /\ record' = [record EXCEPT ![RowOf(p)].status = "done", ![RowOf(p)].id = req[p].id]
      /\ Answered(p, Response(p, req[p].id))
  BY <1>1, <1>2 DEF Complete, Matches
<1>4. /\ answer' = [answer EXCEPT ![p] = Response(p, req[p].id)] /\ pc' = [pc EXCEPT ![p] = "idle"]
      /\ req' = [req EXCEPT ![p] = NoRequest] /\ "idle" \in Places /\ pc'[p] = "idle"
  BY <1>3 DEF Answered, Places, IInv, Types
<1>5. PICK row \in SavedRow : /\ record' = [record EXCEPT ![RowOf(p)] = row]
                              /\ row.status = "done" /\ row.id = req[p].id
                              /\ row.hash = req[p].hash /\ row.expires = record[RowOf(p)].expires
  <2> DEFINE new == [record[RowOf(p)] EXCEPT !.status = "done", !.id = req[p].id]
  <2>1. record' = [record EXCEPT ![RowOf(p)] = new]
    BY <1>1, <1>3 DEF IInv, Types
  <2>2. /\ new \in SavedRow /\ new.status = "done" /\ new.id = req[p].id
        /\ new.hash = req[p].hash /\ new.expires = record[RowOf(p)].expires
    BY <1>1, <1>2 DEF SavedRow, RequestRow
  <2> HIDE DEF new
  <2> QED BY <2>1, <2>2
<1>6. /\ record' \in [KeyedRows -> SavedRow \cup {NoRecord}] /\ record'[RowOf(p)] = row
      /\ \A r \in KeyedRows : r # RowOf(p) => record'[r] = record[r]
  BY <1>1, <1>5 DEF IInv, Types
<1>7. PICK e \in effects : RowOfEffect(e) = RowOf(p) /\ e.hash = req[p].hash /\ e.id = req[p].id
  BY <1>1 DEF Done, Of
<1>8. Settles(p, "idle", NoRequest, Response(p, req[p].id))
  <2>1. SameKey(e, Response(p, req[p].id)) /\ e.hash = Response(p, req[p].id).hash
        /\ e.id = Response(p, req[p].id).id /\ e \in effects'
    BY <1>1, <1>7 DEF SameKey, Response, RowOfEffect, RowOf
  <2> QED BY <1>1, <1>4, <2>1, KeepsLocks
<1>9. HandlerOK(p)'
  <2>1. \A r \in deleted[p] : p \in rowLock[r] /\ record[r].status = "done" /\ record[r].expires <= clock
                              /\ r \in KeyedRows
    BY DEF IInv, HandlerOK, Types
  <2>2. \A r \in deleted[p] : record'[r] = record[r]
    BY <1>2, <1>6, <2>1
  <2> QED BY <1>1, <1>4, <2>1, <2>2 DEF HandlerOK
<1>10. \A r \in KeyedRows : r = RowOf(p) => RowOK(r)'
  <2> SUFFICES ASSUME NEW r \in KeyedRows, r = RowOf(p) PROVE RowOK(r)'
    OBVIOUS
  <2>1. Of(r)' = Of(r) /\ e \in Of(r) /\ clock' = clock
    BY <1>1, <1>7 DEF Of
  <2>2. record'[r].status = "done" /\ record'[r].hash = e.hash /\ record'[r].id = e.id
        /\ record'[r].expires = record[r].expires
    BY <1>5, <1>6, <1>7
  <2>3. /\ \A f \in Of(r) : f.expires <= clock \/ f.expires <= record[r].expires
        /\ \A f, g \in Of(r) : f # g => f.at >= g.expires \/ g.at >= f.expires
    BY DEF IInv, RowOK
  <2> QED BY <2>1, <2>2, <2>3 DEF RowOK
<1>11. \A r \in KeyedRows : r \in Mine(p) => RowOK(r)'
  <2> SUFFICES ASSUME NEW r \in KeyedRows, r # RowOf(p) PROVE RowOK(r)'
    BY <1>10
  <2>1. Of(r)' = Of(r) /\ record'[r] = record[r] /\ clock' = clock
    BY <1>1, <1>6 DEF Of
  <2> QED BY <2>1 DEF IInv, RowOK
<1>12. \A r \in KeyedRows : r \notin Mine(p) => record'[r] = record[r]
  BY <1>1, <1>6 DEF Mine, Writing
<1>13. effects' = effects /\ effects' \in SUBSET EffectRow /\ IsFiniteSet(effects') /\ Counted'
  BY <1>1 DEF IInv, Types, Counted
<1> QED BY <1>1, <1>6, <1>8, <1>9, <1>11, <1>12, <1>13, SettlesOK

-----------------------------------------------------------------------------
(* Induction.                                                                *)

\* Time passes: what has expired stays so.
LEMMA TickOK ==
  ASSUME IInv, KeyedTick
  PROVE  IInv'
<1>1. /\ clock' \in 0 .. MaxTime /\ clock <= clock' /\ clock \in Nat /\ clock' \in Nat
      /\ UNCHANGED <<record, rowLock, account, pc, req, deleted, effects, answer, submitted>>
  BY KeyedAssumption DEF KeyedTick, IInv, Types
<1>2. Types' /\ Exclusive' /\ Counted' /\ ReplayIsTheEffect'
  BY <1>1 DEF IInv, Types, Exclusive, Counted, ReplayIsTheEffect, SameKey
<1>3. ASSUME NEW r \in KeyedRows PROVE RowOK(r)'
  <2>1. Of(r)' = Of(r) /\ record'[r] = record[r] /\ \A e \in Of(r) : e.expires \in Nat
    BY <1>1 DEF Of, IInv, Types, EffectRow
  <2>2. RowOK(r)
    BY DEF IInv
  <2> QED BY <1>1, <2>1, <2>2 DEF RowOK
<1>4. ASSUME NEW p \in Handlers PROVE HandlerOK(p)'
  <2>1. HandlerOK(p) /\ RowOf(p)' = RowOf(p) /\ Of(RowOf(p))' = Of(RowOf(p))
    BY <1>1 DEF IInv, RowOf, Of
  <2>2. pc[p] # "idle" => req[p].started <= clock'
    <3>1. pc[p] # "idle" => req[p].started <= clock /\ req[p].started \in Nat
      BY <2>1 DEF HandlerOK, RequestRow
    <3> QED BY <1>1, <3>1
  <2>3. \A r \in deleted[p] : record[r].expires <= clock'
    <3>1. \A r \in deleted[p] : record[r].expires <= clock /\ record[r].expires \in Nat
      <4> SUFFICES ASSUME NEW r \in deleted[p] PROVE record[r].expires <= clock /\ record[r].expires \in Nat
        OBVIOUS
      <4>1. r \in KeyedRows /\ record[r].status = "done" /\ record[r].expires <= clock
        BY <2>1 DEF HandlerOK, IInv, Types
      <4> QED BY <4>1, SavedIsThere DEF SavedRow
    <3> QED BY <1>1, <3>1
  <2>4. Fresh(p) => Fresh(p)'
    <3>1. \A e \in Of(RowOf(p)) : e.expires \in Nat
      BY DEF Of, IInv, Types, EffectRow
    <3> QED BY <1>1, <2>1, <3>1 DEF Fresh
  <2>5. (Inserted(p) => Inserted(p)') /\ (Pending(p) => Pending(p)') /\ (Done(p) => Done(p)')
    BY <1>1, <2>1 DEF Inserted, Pending, PendingRecord, Done
  <2> QED BY <1>1, <2>1, <2>2, <2>3, <2>4, <2>5 DEF HandlerOK
<1> QED BY <1>2, <1>3, <1>4 DEF IInv

\* Every action keeps the invariant.
LEMMA NextOK == IInv /\ [KeyedNext]_keyedVars => IInv'
<1> SUFFICES ASSUME IInv, [KeyedNext]_keyedVars PROVE IInv'
  OBVIOUS
<1>1. ASSUME NEW p \in Handlers, NEW u \in Users, NEW k \in Keys, NEW h \in Payloads,
             NEW mode \in {"execute", "reserve"}, Submit(p, u, k, h, mode)
      PROVE  IInv'
  BY <1>1, SubmitOK
<1>2. ASSUME NEW p \in Handlers, LockAndPrune(p) PROVE IInv'
  BY <1>2, LockAndPruneOK
<1>3. ASSUME NEW p \in Handlers, DeleteOwn(p) PROVE IInv'
  BY <1>3, DeleteOwnOK
<1>4. ASSUME NEW p \in Handlers, InsertRecord(p) PROVE IInv'
  BY <1>4, InsertRecordOK
<1>5. ASSUME NEW p \in Handlers, ReadRecord(p) PROVE IInv'
  BY <1>5, RollBackOK, ReplayOK DEF ReadRecord
<1>6. ASSUME NEW p \in Handlers, Execute(p) PROVE IInv'
  BY <1>6, RollBackOK, ExecuteOK DEF Execute
<1>7. ASSUME NEW p \in Handlers, Reserve(p) PROVE IInv'
  BY <1>7, ReserveOK
<1>8. ASSUME NEW p \in Handlers, Mutate(p) PROVE IInv'
  BY <1>8, MutateOK
<1>9. ASSUME NEW p \in Handlers, Complete(p) PROVE IInv'
  BY <1>9, CompleteOK
<1>10. ASSUME NEW p \in Handlers, DeadlockDetected(p) \/ Crash(p) PROVE IInv'
  BY <1>10, RollBackOK DEF DeadlockDetected, Crash
<1>11. CASE KeyedTick
  BY <1>11, TickOK
<1>12. CASE UNCHANGED keyedVars
  <2>1. \A r : Of(r)' = Of(r)
    BY <1>12 DEF keyedVars, Of
  <2>2. \A p \in Handlers : HandlerOK(p)' = HandlerOK(p)
    BY <1>12 DEF keyedVars, HandlerOK, Inserted, Pending, PendingRecord, Fresh, Done, Of, RowOf
  <2>3. \A r \in KeyedRows : RowOK(r)' = RowOK(r)
    BY <1>12, <2>1 DEF keyedVars, RowOK
  <2> QED BY <1>12, <2>2, <2>3 DEF keyedVars, IInv, Types, Exclusive, Counted, ReplayIsTheEffect, SameKey
<1> QED BY <1>1, <1>2, <1>3, <1>4, <1>5, <1>6, <1>7, <1>8, <1>9, <1>10, <1>11, <1>12
        DEF KeyedNext, HandlerStep

\* Records of earlier requests have one effect each, made at the start.
LEMMA InitOK == KeyedInit => IInv
<1> SUFFICES ASSUME KeyedInit PROVE IInv
  OBVIOUS
<1>1. /\ clock = 0 /\ submitted = 0
      /\ rowLock = [r \in KeyedRows |-> {}] /\ account = [u \in Users |-> {}]
      /\ pc = [p \in Handlers |-> "idle"] /\ req = [p \in Handlers |-> NoRequest]
      /\ deleted = [p \in Handlers |-> {}] /\ answer = [p \in Handlers |-> NoRequest]
  BY DEF KeyedInit
<1> DEFINE first(r, h) == [user |-> r[1], key |-> r[2], hash |-> h, id |-> 0, at |-> 0, order |-> 0,
                           expires |-> TTL, mode |-> "execute"]
<1>2. PICK rows \in SUBSET KeyedRows, h \in Payloads :
        /\ record = [r \in KeyedRows |-> IF r \in rows THEN DoneRecord(Earlier(r, h)) ELSE NoRecord]
        /\ effects = {first(r, h) : r \in rows}
  BY DEF KeyedInit
<1>3. TTL \in Nat /\ MaxTime \in Nat /\ MaxRequests \in Nat
  BY KeyedAssumption
<1>4. ASSUME NEW r \in rows
      PROVE  /\ first(r, h) \in EffectRow /\ RowOfEffect(first(r, h)) = r /\ first(r, h).hash = h
             /\ first(r, h).id = 0 /\ first(r, h).order = 0 /\ first(r, h).expires = TTL
  BY <1>3, <1>4 DEF EffectRow, RowOfEffect, KeyedRows
<1> HIDE DEF first
<1>5. \A r \in KeyedRows : /\ r \in rows => /\ record[r] \in SavedRow /\ record[r].status = "done"
                                            /\ record[r].hash = h /\ record[r].id = 0 /\ record[r].expires = TTL
                           /\ r \notin rows => record[r] = NoRecord
  BY <1>2, <1>3 DEF DoneRecord, Earlier, SavedRow
<1>6. IsFiniteSet(effects)
  <2>1. IsFiniteSet(KeyedRows)
    BY KeyedAssumption, FS_Product DEF KeyedRows
  <2>2. IsFiniteSet(rows)
    BY <2>1, FS_Subset
  <2>3. [r \in rows |-> first(r, h)] \in Surjection(rows, effects)
    BY <1>2 DEF Surjection
  <2> QED BY <2>2, <2>3, FS_Surjection
<1>7. Types
  <2>1. record \in [KeyedRows -> SavedRow \cup {NoRecord}]
    BY <1>2, <1>5
  <2>2. effects \in SUBSET EffectRow
    BY <1>2, <1>4
  <2> QED BY <1>1, <1>3, <1>6, <2>1, <2>2 DEF Types, Places
<1>8. Exclusive /\ ReplayIsTheEffect
  BY <1>1 DEF Exclusive, Single, ReplayIsTheEffect, NoRequest
<1>9. Counted
  <2>1. Cardinality(effects) \in Nat
    BY <1>6, FS_CardinalityType
  <2> QED BY <1>1, <1>2, <1>4, <2>1 DEF Counted
<1>10. \A p \in Handlers : HandlerOK(p)
  BY <1>1 DEF HandlerOK
<1>11. ASSUME NEW r \in KeyedRows PROVE RowOK(r)
  <2>1. \A e \in Of(r) : r \in rows /\ e = first(r, h)
    BY <1>2, <1>4 DEF Of
  <2>2. r \in rows => first(r, h) \in Of(r)
    BY <1>2, <1>4 DEF Of
  <2>3. CASE r \in rows
    <3>1. /\ record[r].status = "done" /\ record[r].hash = h /\ record[r].id = 0 /\ record[r].expires = TTL
          /\ first(r, h).hash = h /\ first(r, h).id = 0 /\ first(r, h).expires = TTL
      BY <1>4, <1>5, <2>3
    <3> QED BY <1>3, <2>1, <2>2, <2>3, <3>1 DEF RowOK
  <2>4. CASE r \notin rows
    <3>1. record[r].status = "absent" /\ Of(r) = {}
      BY <1>5, <2>1, <2>4 DEF NoRecord
    <3> QED BY <3>1 DEF RowOK
  <2> QED BY <2>3, <2>4
<1> QED BY <1>7, <1>8, <1>9, <1>10, <1>11 DEF IInv

-----------------------------------------------------------------------------
(* The theorem.                                                              *)

\* The invariant says what was promised.
LEMMA Promised == IInv => KeyedOnce
<1> SUFFICES ASSUME IInv PROVE KeyedOnce
  OBVIOUS
<1>1. ASSUME NEW S \in SUBSET Handlers, Single(S) PROVE Cardinality(S) <= 1
  <2>1. CASE S = {}
    BY <2>1, FS_EmptySet
  <2>2. CASE S # {}
    <3>1. PICK p \in S : S = {p}
      BY <1>1, <2>2 DEF Single
    <3> QED BY <3>1, FS_Singleton
  <2> QED BY <2>1, <2>2
<1>2. KeyedTypeOK
  <2>1. \A r \in KeyedRows : record[r].status \in {"absent", "pending", "done"}
    BY SavedIsThere DEF SavedRow, IInv
  <2>2. \A r \in KeyedRows : rowLock[r] \subseteq Handlers /\ Cardinality(rowLock[r]) <= 1
    BY <1>1 DEF IInv, Types, Exclusive
  <2>3. \A u \in Users : account[u] \subseteq Handlers /\ Cardinality(account[u]) <= 1
    BY <1>1 DEF IInv, Types, Exclusive
  <2> QED BY <2>1, <2>2, <2>3 DEF KeyedTypeOK, IInv, Types, Places
<1>3. ASSUME NEW e \in effects PROVE <<e.user, e.key>> \in KeyedRows /\ e \in Of(<<e.user, e.key>>)
  BY <1>3 DEF IInv, Types, EffectRow, KeyedRows, Of, RowOfEffect
<1>4. ASSUME NEW e \in effects, NEW f \in effects, SameKey(e, f) PROVE f \in Of(<<e.user, e.key>>)
  BY <1>4 DEF SameKey, Of, RowOfEffect
<1>5. OneEffectPerLife
  BY <1>3, <1>4 DEF OneEffectPerLife, IInv, RowOK
<1>6. AmbiguousNeverRepeated
  BY <1>3, <1>4 DEF AmbiguousNeverRepeated, IInv, RowOK
<1> QED BY <1>2, <1>5, <1>6 DEF KeyedOnce, IInv

\* A key takes effect once in the life of its record, whatever crashes, retries and
\* prunes come between, and a replay is the answer of that mutation
\* (acquire_idempotency, prune_idempotency_records, execute_idempotency).
THEOREM KeysTakeEffectOnce == KeyedSpec => []KeyedOnce
<1>1. KeyedInit => IInv
  BY InitOK
<1>2. IInv /\ [KeyedNext]_keyedVars => IInv'
  BY NextOK
<1>3. IInv => KeyedOnce
  BY Promised
<1> QED BY <1>1, <1>2, <1>3, PTL DEF KeyedSpec
=============================================================================
