--------------------------- MODULE KeyedRequests ----------------------------
(***************************************************************************)
(* Writes that carry an Idempotency-Key (api/idempotency.py,               *)
(* persistence/idempotency.py and the store's three idempotency methods).  *)
(*                                                                         *)
(* A keyed write runs as one transaction: lock the account, remove expired *)
(* records of anybody, remove the caller's own expired record, insert a    *)
(* record, run the operation, complete the record.  The reserve/complete   *)
(* pair of the same API instead commits the record first and completes it  *)
(* in a second transaction, with the mutation in between.                  *)
(*                                                                         *)
(* The transaction runs statement by statement: rows deleted by one are    *)
(* locked until it ends and stay visible to the others; a statement on a   *)
(* locked row waits.  A handler may stop at any step; its open transaction *)
(* is rolled back.  The clock counts units of which TTL make the 24 hours. *)
(***************************************************************************)
EXTENDS Integers, FiniteSets

CONSTANTS Users, Keys, Payloads,   \* a key stands for (method, path, key)
          Handlers,                \* requests in flight at once
          TTL, PruneLimit,         \* record life; rows one prune removes (1000 in the code)
          MaxTime, MaxRequests     \* bounds of the instance

ASSUME KeyedAssumption ==
  /\ TTL \in Nat \ {0} /\ PruneLimit \in Nat \ {0}
  /\ MaxTime \in Nat /\ MaxRequests \in Nat
  /\ IsFiniteSet(Users) /\ IsFiniteSet(Keys)   \* the rows of a database

VARIABLES
  clock,     \* the wall clock (database and handlers agree)
  record,    \* record[r]: the committed idempotency record of row r
  rowLock,   \* rowLock[r]: the handler whose open transaction locked row r, or {}
  account,   \* account[u]: the handler holding the account's row lock, or {}
  pc, req,   \* where a handler is, and the request it serves
  deleted,   \* deleted[p]: rows p's open transaction has deleted
  effects,   \* the mutations committed so far
  answer,    \* answer[p]: what p's last request was told
  submitted  \* requests made, for MaxRequests

keyedVars == <<clock, record, rowLock, account, pc, req, deleted, effects, answer, submitted>>

KeyedRows == Users \X Keys

NoRecord == [status |-> "absent"]
Completed(r) == record[r].status = "done"

\* The response of a request is told apart by the request's number.
PendingRecord(q) == [status |-> "pending", hash |-> q.hash, expires |-> q.expires, id |-> q.id]
DoneRecord(q)    == [status |-> "done", hash |-> q.hash, expires |-> q.expires, id |-> q.id]

NoRequest == [mode |-> "none"]
RowOf(p)  == <<req[p].user, req[p].key>>

\* A mutation made under a key by request q, at the current time.
EffectOf(q) == [user |-> q.user, key |-> q.key, hash |-> q.hash, id |-> q.id, at |-> clock,
                order |-> Cardinality(effects) + 1, expires |-> q.expires, mode |-> q.mode]

\* Earlier requests may have completed records of some rows.
Earlier(r, h) == [mode |-> "execute", user |-> r[1], key |-> r[2], hash |-> h, id |-> 0, started |-> 0, expires |-> TTL]

KeyedInit ==
  /\ clock = 0 /\ submitted = 0
  /\ \E rows \in SUBSET KeyedRows, h \in Payloads :
       /\ record = [r \in KeyedRows |-> IF r \in rows THEN DoneRecord(Earlier(r, h)) ELSE NoRecord]
       /\ effects = {[user |-> r[1], key |-> r[2], hash |-> h, id |-> 0, at |-> 0, order |-> 0,
                      expires |-> TTL, mode |-> "execute"] : r \in rows}
  /\ rowLock = [r \in KeyedRows |-> {}]
  /\ account = [u \in Users |-> {}]
  /\ pc = [p \in Handlers |-> "idle"]
  /\ req = [p \in Handlers |-> NoRequest]
  /\ deleted = [p \in Handlers |-> {}]
  /\ answer = [p \in Handlers |-> NoRequest]

-----------------------------------------------------------------------------
\* _acquire_request: the expiry is taken from the clock before the transaction;
\* the transaction's own current_timestamp is that same moment.
Submit(p, u, k, h, mode) ==
  /\ pc[p] = "idle" /\ submitted < MaxRequests
  /\ submitted' = submitted + 1
  /\ req' = [req EXCEPT ![p] = [mode |-> mode, user |-> u, key |-> k, hash |-> h,
                                id |-> submitted + 1, started |-> clock, expires |-> clock + TTL]]
  /\ answer' = [answer EXCEPT ![p] = NoRequest]
  /\ pc' = [pc EXCEPT ![p] = "lock"]
  /\ UNCHANGED <<clock, record, rowLock, account, deleted, effects>>

\* Rows a prune may take: completed, expired at the transaction's start, not locked.
Prunable(p) == {r \in KeyedRows : /\ Completed(r) /\ record[r].expires <= req[p].started
                                  /\ rowLock[r] = {}}

\* The first `limit` of a set of rows by expiry (the order of equals is free).
OldestRows(rows, d) ==
  /\ d \subseteq rows
  /\ \/ d = rows /\ Cardinality(rows) <= PruneLimit
     \/ /\ Cardinality(d) = PruneLimit
        /\ \A r \in d, s \in rows \ d : record[r].expires <= record[s].expires

Delete(p, rows) ==
  /\ rowLock' = [r \in KeyedRows |-> IF r \in rows THEN {p} ELSE rowLock[r]]
  /\ deleted' = [deleted EXCEPT ![p] = @ \cup rows]

AccountFree(p) == account[req[p].user] = {}

\* _lock_google_account (SELECT ... FOR UPDATE on the account row), then
\* prune_idempotency_records (FOR UPDATE SKIP LOCKED).  One step: the account lock
\* concerns this account's transactions only, the prune everybody's records.
LockAndPrune(p) ==
  /\ pc[p] = "lock" /\ AccountFree(p)
  /\ account' = [account EXCEPT ![req[p].user] = @ \cup {p}]
  /\ \E d \in SUBSET Prunable(p) : OldestRows(Prunable(p), d) /\ Delete(p, d)
  /\ pc' = [pc EXCEPT ![p] = "own"]
  /\ UNCHANGED <<clock, record, req, effects, answer, submitted>>

\* What p's transaction sees of its own row.
Visible(p) == record[RowOf(p)].status # "absent" /\ RowOf(p) \notin deleted[p]

\* Mutant: the own record is removed whether completed or not.
OwnExpiredIncomplete(p) == Visible(p) /\ record[RowOf(p)].expires <= clock

\* The caller's own record, if completed and expired by now, goes too; unlike the
\* prune, this DELETE waits for a lock somebody else holds.
OwnExpired(p) == Visible(p) /\ Completed(RowOf(p)) /\ record[RowOf(p)].expires <= clock

DeleteOwn(p) ==
  /\ pc[p] = "own"
  /\ IF OwnExpired(p) THEN rowLock[RowOf(p)] = {} /\ Delete(p, {RowOf(p)})
                      ELSE UNCHANGED <<rowLock, deleted>>
  /\ pc' = [pc EXCEPT ![p] = "insert"]
  /\ UNCHANGED <<clock, record, account, req, effects, answer, submitted>>

\* INSERT ... ON CONFLICT DO NOTHING: waits while another transaction is
\* deleting the row, conflicts with a live one.
InsertRecord(p) ==
  /\ pc[p] = "insert"
  /\ rowLock[RowOf(p)] \subseteq {p}
  /\ IF Visible(p)
       THEN pc' = [pc EXCEPT ![p] = "read"] /\ UNCHANGED rowLock
       ELSE /\ pc' = [pc EXCEPT ![p] = IF req[p].mode = "execute" THEN "operate" ELSE "reserved"]
            /\ rowLock' = [rowLock EXCEPT ![RowOf(p)] = {p}]
  /\ UNCHANGED <<clock, record, account, req, deleted, effects, answer, submitted>>

\* The end of p's transaction: every lock it holds is released.
EndTransaction(p) ==
  /\ rowLock' = [r \in KeyedRows |-> rowLock[r] \ {p}]
  /\ account' = [u \in Users |-> account[u] \ {p}]
  /\ deleted' = [deleted EXCEPT ![p] = {}]

\* Deleted rows disappear when the transaction commits; `own` then holds the
\* caller's row.
CommitRows(p, own) ==
  record' = [r \in KeyedRows |-> IF r \in DOMAIN own THEN own[r]
                                 ELSE IF r \in deleted[p] THEN NoRecord ELSE record[r]]
NoRow == [r \in {} |-> NoRecord]
Own(p, rec) == [r \in {RowOf(p)} |-> rec]

Answered(p, response) ==
  /\ answer' = [answer EXCEPT ![p] = response]
  /\ pc' = [pc EXCEPT ![p] = "idle"]
  /\ req' = [req EXCEPT ![p] = NoRequest]
Response(p, id) == [mode |-> "success", user |-> req[p].user, key |-> req[p].key, hash |-> req[p].hash, id |-> id]

\* The transaction ends without a commit: an exception leaves it and the caller
\* gets an error, or the connection is lost.  Everything it did is rolled back.
RollBack(p) ==
  /\ EndTransaction(p) /\ Answered(p, NoRequest)
  /\ UNCHANGED <<clock, record, effects, submitted>>

\* The row that stopped the insert is read FOR UPDATE: it may be gone by now
\* (.one() raises), hold another payload, be incomplete, or be replayed.
Matches(p) == record[RowOf(p)].hash = req[p].hash

ReadRecord(p) ==
  /\ pc[p] = "read" /\ rowLock[RowOf(p)] \subseteq {p}
  /\ \/ ~Visible(p) /\ RollBack(p)                                        \* NoResultFound
     \/ Visible(p) /\ ~Matches(p) /\ RollBack(p)                          \* IdempotencyConflictError
     \/ Visible(p) /\ Matches(p) /\ ~Completed(RowOf(p)) /\ RollBack(p)   \* IdempotencyInProgressError
     \/ /\ Visible(p) /\ Matches(p) /\ Completed(RowOf(p))
        /\ CommitRows(p, NoRow) /\ EndTransaction(p)
        /\ Answered(p, Response(p, record[RowOf(p)].id))
        /\ UNCHANGED <<clock, effects, submitted>>

\* execute_idempotency: operation, completion and commit are one transaction;
\* the operation may also raise (a stale version, a missing record).
Execute(p) ==
  /\ pc[p] = "operate"
  /\ \/ /\ effects' = effects \cup {EffectOf(req[p])}
        /\ CommitRows(p, Own(p, DoneRecord(req[p])))
        /\ EndTransaction(p) /\ Answered(p, Response(p, req[p].id))
        /\ UNCHANGED <<clock, submitted>>
     \/ RollBack(p)

\* reserve: the transaction of acquire_idempotency commits the pending record.
Reserve(p) ==
  /\ pc[p] = "reserved"
  /\ CommitRows(p, Own(p, PendingRecord(req[p]))) /\ EndTransaction(p)
  /\ pc' = [pc EXCEPT ![p] = "mutate"]
  /\ UNCHANGED <<clock, req, effects, answer, submitted>>

\* The reserver's mutation, in its own transaction.
Mutate(p) ==
  /\ pc[p] = "mutate"
  /\ effects' = effects \cup {EffectOf(req[p])}
  /\ pc' = [pc EXCEPT ![p] = "complete"]
  /\ UNCHANGED <<clock, record, rowLock, account, req, deleted, answer, submitted>>

\* complete: UPDATE of the record with this key and hash; no row is an error.
Complete(p) ==
  /\ pc[p] = "complete"
  /\ IF record[RowOf(p)].status # "absent" /\ Matches(p)
       THEN /\ record' = [record EXCEPT ![RowOf(p)].status = "done", ![RowOf(p)].id = req[p].id]
            /\ Answered(p, Response(p, req[p].id))
       ELSE record' = record /\ Answered(p, NoRequest)
  /\ UNCHANGED <<clock, rowLock, account, deleted, effects, submitted>>

-----------------------------------------------------------------------------
\* The process or its connection is lost: the open transaction is rolled back,
\* what was committed stays, and the caller learns nothing.
Crash(p) == pc[p] # "idle" /\ RollBack(p)

\* The handler whose lock a statement of p waits for.
Blocker(p) ==
  CASE pc[p] = "lock" -> account[req[p].user]
    [] pc[p] = "own" /\ OwnExpired(p) -> rowLock[RowOf(p)] \ {p}
    [] pc[p] \in {"insert", "read"} -> rowLock[RowOf(p)] \ {p}
    [] OTHER -> {}

\* Mutant: only a transaction that waits for itself is aborted.
DeadlockUnseen(p) == p \in Blocker(p) /\ RollBack(p)

\* PostgreSQL aborts a transaction that waits in a circle.
DeadlockDetected(p) ==
  /\ \E circle \in SUBSET Handlers :
       /\ p \in circle
       /\ \A q \in circle : \E b \in Blocker(q) : b \in circle
  /\ RollBack(p)

KeyedTick == clock < MaxTime /\ clock' = clock + 1
             /\ UNCHANGED <<record, rowLock, account, pc, req, deleted, effects, answer, submitted>>

HandlerStep(p) ==
  \/ LockAndPrune(p) \/ DeleteOwn(p) \/ InsertRecord(p) \/ ReadRecord(p)
  \/ Execute(p) \/ Reserve(p) \/ Mutate(p) \/ Complete(p) \/ DeadlockDetected(p)

KeyedNext ==
  \/ \E p \in Handlers, u \in Users, k \in Keys, h \in Payloads, mode \in {"execute", "reserve"} :
       Submit(p, u, k, h, mode)
  \/ \E p \in Handlers : HandlerStep(p) \/ Crash(p)
  \/ KeyedTick

KeyedFairness == \A p \in Handlers : WF_keyedVars(HandlerStep(p))

KeyedSpec == KeyedInit /\ [][KeyedNext]_keyedVars /\ KeyedFairness

-----------------------------------------------------------------------------
\* The variables have their values, and no row of a record or of an account is locked
\* by two handlers (idempotency.py).
KeyedTypeOK ==
  /\ clock \in 0 .. MaxTime /\ submitted \in 0 .. MaxRequests
  /\ \A r \in KeyedRows : /\ record[r].status \in {"absent", "pending", "done"}
                          /\ rowLock[r] \subseteq Handlers /\ Cardinality(rowLock[r]) <= 1
  /\ \A u \in Users : account[u] \subseteq Handlers /\ Cardinality(account[u]) <= 1
  /\ pc \in [Handlers -> {"idle", "lock", "own", "insert", "read", "operate", "reserved", "mutate", "complete"}]
  /\ deleted \in [Handlers -> SUBSET KeyedRows]

SameKey(e, f) == e.user = f.user /\ e.key = f.key

\* A key takes effect at most once in the life of its record: a second mutation
\* under the same key happens only after the first one's record expired
\* ("replays the first same-payload response for 24 hours"), whatever the
\* interleaving of retries, prunes of other accounts and crashes.
OneEffectPerLife ==
  \A e, f \in effects :
    e # f /\ SameKey(e, f) => e.at >= f.expires \/ f.at >= e.expires

\* An incomplete record is never overtaken (the comment in
\* prune_idempotency_records): once a reserver committed its mutation and
\* stopped before completing the record, expiry does not let the key run again.
AmbiguousNeverRepeated ==
  \A e \in effects :
    /\ e.mode = "reserve"
    /\ record[<<e.user, e.key>>].status = "pending"
    /\ record[<<e.user, e.key>>].id = e.id
    => \A f \in effects : SameKey(e, f) => f.order <= e.order

\* A replayed answer is the answer of a committed mutation of the same caller,
\* key and payload, never of another payload sent under that key.
ReplayIsTheEffect ==
  \A p \in Handlers :
    answer[p].mode = "success" =>
      \E e \in effects : /\ SameKey(e, answer[p]) /\ e.hash = answer[p].hash
                         /\ e.id = answer[p].id

\* Every request is answered, also when two transactions wait for each other's
\* records: the deadlock is broken and nobody waits forever.
RequestsAnswered == \A p \in Handlers : pc[p] = "lock" ~> pc[p] = "idle"

\* A key takes effect once: at most one mutation in the life of its record, none
\* beside an ambiguous one, and every replay is the answer of that mutation
\* (acquire_idempotency, prune_idempotency_records).
KeyedOnce == KeyedTypeOK /\ OneEffectPerLife /\ AmbiguousNeverRepeated /\ ReplayIsTheEffect
=============================================================================
