---------------------------- MODULE AccountProofs ---------------------------
(***************************************************************************)
(* What an account asks the API for: its quotas, its weekly plan, its      *)
(* resume imports and its chat answers, for every number of accounts,      *)
(* callers, tabs, steps, imports and calls of the model.                   *)
(*                                                                         *)
(* Quotas: scopes are charged one by one, a scope's row and what its       *)
(* windows have granted agree (ScopeOK), a row never goes back to an       *)
(* earlier window, and later windows have granted nothing yet.             *)
(*                                                                         *)
(* Weekly plan: versions count the writes (Counted), so a tab that is      *)
(* shown the current version has been shown the last write.  A save mixes  *)
(* two reads with the version of a third; the plan it read has at least    *)
(* that version, so when the version is still the current one it read the  *)
(* current plan (Reads).                                                   *)
(*                                                                         *)
(* Resume import: a slot file is locked by the one import that is in it    *)
(* (SlotsOK), and the counters of an import are the results that were      *)
(* sent, until every paragraph is reported (CountsOK).                     *)
(*                                                                         *)
(* Chat: the calls of a round are those that wait and those that have an   *)
(* output, taken once out of the budget (CallsInv).                        *)
(***************************************************************************)
EXTENDS Quotas, WeeklyPlan, ResumeImport, Chat, FiniteSetTheorems, TLAPS

-----------------------------------------------------------------------------
(* The quotas.                                                               *)

Windows == 0 .. MaxNow

\* A scope's row against its grants: the row counts what its window granted, chat
\* also the refused call that capped it, and no later window has granted anything.
ScopeOK(s, row, g) ==
  /\ row \in [window: Windows \cup {-1}, count: 0 .. Limit[s] + 1]
  /\ g \in [Windows -> 0 .. Limit[s]]
  /\ \A w \in Windows : w > row.window => g[w] = 0
  /\ row.window >= 0 => g[row.window] = IF row.count <= Limit[s] THEN row.count ELSE Limit[s]
  /\ s # "chat" => row.count <= Limit[s]

ScopesOK == \A a \in QuotaAccounts, s \in Scopes : ScopeOK(s, counter[a][s], granted[a][s])

\* A statement under way asks for a window that has begun.
CallKinds == {"chat", "request", "compute"}
CallsOK ==
  call \in [Callers -> {Idle} \cup [kind: CallKinds, account: QuotaAccounts, at: 0 .. now]]

\* A refusal tells when the window of the row that refused is over.
RefusalOK(r) == r # NoRefusal => /\ r.scope \in Scopes /\ r.window \in Windows \cup {-1} /\ r.retryAt \in Nat
                                 /\ (r.window + 1) * WindowLen(r.scope) <= r.retryAt
RefusalsOK == \A c \in Callers : RefusalOK(refusal[c])

CounterRow == [window: Windows \cup {-1}, count: Nat]
ShapeOK ==
  /\ now \in Windows /\ DOMAIN refusal = Callers
  /\ counter \in [QuotaAccounts -> [Scopes -> CounterRow]]
  /\ granted \in [QuotaAccounts -> [Scopes -> [Windows -> Nat]]]

QuotaInv == ShapeOK /\ ScopesOK /\ CallsOK /\ RefusalsOK

-----------------------------------------------------------------------------
(* Windows.                                                                  *)

\* Windows have a length, and a scope a limit.
LEMMA LengthsOK ==
  ASSUME NEW s \in Scopes
  PROVE  WindowLen(s) \in Nat \ {0} /\ Limit[s] \in Nat \ {0}
BY QuotasAssumption DEF WindowLen, Scopes

\* The window of an instant is one of the instance, and an instant past the end of a
\* window is in a later one.
LEMMA BucketsOK ==
  ASSUME NEW s \in Scopes, NEW t \in Nat
  PROVE  /\ Bucket(s, t) \in 0 .. t
         /\ \A k \in Nat : k * WindowLen(s) <= t => k <= Bucket(s, t)
<1>1. WindowLen(s) \in Nat \ {0}
  BY LengthsOK
<1> QED BY <1>1 DEF Bucket

\* Retry-After is at least what is left of the window, rounded up.
LEMMA RetryAfterOK ==
  ASSUME NEW s \in Scopes, NEW row \in CounterRow, now \in Nat
  PROVE  /\ RetryAfter(s, row) \in Nat
         /\ (row.window + 1) * WindowLen(s) <= now + RetryAfter(s, row)
<1>1. WindowLen(s) \in Nat /\ row.window + 1 \in Nat
  BY LengthsOK, QuotasAssumption DEF Windows, CounterRow
<1>2. PICK left \in Int : left = (row.window + 1) * WindowLen(s) - now
  BY <1>1
<1>3. 2 * ((left + 1) \div 2) >= left /\ (left + 1) \div 2 \in Int
  OBVIOUS
<1> QED BY <1>1, <1>2, <1>3 DEF RetryAfter

-----------------------------------------------------------------------------
(* One scope.                                                                *)

\* reserve_budget in a window that has room: one more is granted there.
LEMMA ReservedOK ==
  ASSUME NEW s \in Scopes, NEW row, NEW g, ScopeOK(s, row, g), NEW b \in Windows,
         HasRoom(row, b, Limit[s])
  PROVE  LET new == Reserved(row, b) IN
         new.window \in Windows /\ ScopeOK(s, new, [g EXCEPT ![new.window] = @ + 1])
<1> DEFINE new == Reserved(row, b)
<1>0. Limit[s] \in Nat \ {0}
  BY LengthsOK
<1>1. /\ row \in [window: Windows \cup {-1}, count: 0 .. Limit[s] + 1] /\ g \in [Windows -> 0 .. Limit[s]]
      /\ \A w \in Windows : w > row.window => g[w] = 0
      /\ row.window >= 0 => g[row.window] = IF row.count <= Limit[s] THEN row.count ELSE Limit[s]
      /\ s # "chat" => row.count <= Limit[s]
  BY DEF ScopeOK
<1>2. CASE row.window < b
  <2>1. new = [window |-> b, count |-> 1] /\ g[b] = 0
    BY <1>1, <1>2 DEF Reserved, Later, Windows
  <2> QED BY <1>0, <1>1, <1>2, <2>1 DEF ScopeOK, Windows
<1>3. CASE ~(row.window < b)
  <2>1. row.count < Limit[s] /\ row.window \in Windows
    BY <1>1, <1>3 DEF HasRoom, Windows
  <2>2. new = [window |-> row.window, count |-> row.count + 1] /\ g[row.window] = row.count
    BY <1>0, <1>1, <1>3, <2>1 DEF Reserved, Later, Windows
  <2> QED BY <1>0, <1>1, <2>1, <2>2 DEF ScopeOK, Windows
<1> QED BY <1>2, <1>3

\* consume: a call within the limit is granted, one beyond it counted once.
LEMMA ConsumedOK ==
  ASSUME NEW row, NEW g, ScopeOK("chat", row, g), NEW b \in Windows
  PROVE  LET new == Consumed(row, b, Limit["chat"]) IN
         /\ new.window \in Windows
         /\ ScopeOK("chat", new, IF new.count <= Limit["chat"] THEN [g EXCEPT ![new.window] = @ + 1] ELSE g)
<1> DEFINE L == Limit["chat"]
           new == Consumed(row, b, L)
<1>0. L \in Nat \ {0} /\ "chat" \in Scopes
  BY LengthsOK DEF Scopes
<1>1. /\ row \in [window: Windows \cup {-1}, count: 0 .. L + 1] /\ g \in [Windows -> 0 .. L]
      /\ \A w \in Windows : w > row.window => g[w] = 0
      /\ row.window >= 0 => g[row.window] = IF row.count <= L THEN row.count ELSE L
  BY DEF ScopeOK
<1> HIDE DEF L
<1>2. CASE row.window < b
  <2>1. new = [window |-> b, count |-> 1] /\ g[b] = 0
    BY <1>1, <1>2 DEF Consumed, Later, Windows
  <2> QED BY <1>0, <1>1, <1>2, <2>1 DEF ScopeOK, Windows, L
<1>3. CASE ~(row.window < b) /\ row.count < L
  <2>1. /\ row.window \in Windows
        /\ new = [window |-> row.window, count |-> row.count + 1] /\ g[row.window] = row.count
    BY <1>0, <1>1, <1>3 DEF Consumed, Later, Windows
  <2> QED BY <1>0, <1>1, <1>3, <2>1 DEF ScopeOK, Windows, L
<1>4. CASE ~(row.window < b) /\ ~(row.count < L)
  <2>1. /\ row.window \in Windows
        /\ new = [window |-> row.window, count |-> L + 1] /\ g[row.window] = L
    BY <1>0, <1>1, <1>4 DEF Consumed, Later, Windows
  <2> QED BY <1>0, <1>1, <1>4, <2>1 DEF ScopeOK, Windows, L
<1> QED BY <1>2, <1>3, <1>4

-----------------------------------------------------------------------------
(* The actions.                                                              *)

\* A refused caller is told an instant past the window that refused it.
LEMMA RefuseOK ==
  ASSUME QuotaInv, NEW c \in Callers, NEW s \in Scopes, NEW row \in CounterRow, Refuse(c, s, row)
  PROVE  RefusalsOK' /\ DOMAIN refusal' = Callers
<1>1. now \in Nat /\ DOMAIN refusal = Callers
  BY DEF QuotaInv, ShapeOK, Windows
<1>2. PICK at \in Nat : /\ at = now + RetryAfter(s, row)
                        /\ (row.window + 1) * WindowLen(s) <= at
  BY <1>1, RetryAfterOK
<1>3. refusal' = [refusal EXCEPT ![c] = [scope |-> s, window |-> row.window, retryAt |-> at]]
  BY <1>2 DEF Refuse
<1>4. RefusalOK([scope |-> s, window |-> row.window, retryAt |-> at])
  BY <1>2 DEF RefusalOK, CounterRow
<1> QED BY <1>1, <1>3, <1>4 DEF QuotaInv, RefusalsOK

\* A caller whose statement has ended.
LEMMA EndedOK ==
  ASSUME QuotaInv, NEW c \in Callers, call' = [call EXCEPT ![c] = Idle], now' = now
  PROVE  CallsOK'
BY DEF QuotaInv, CallsOK

\* A statement under way asks for windows of the instance.
LEMMA AskedOK ==
  ASSUME QuotaInv, NEW c \in Callers, call[c].kind \in CallKinds
  PROVE  /\ call[c].account \in QuotaAccounts /\ call[c].at \in 0 .. now
         /\ \A s \in Scopes : Bucket(s, call[c].at) \in Windows /\ Bucket(s, now) \in Windows
<1>1. call[c] # Idle
  BY DEF Idle, CallKinds
<1>2. call[c].account \in QuotaAccounts /\ call[c].at \in 0 .. now /\ now \in Windows
  BY <1>1 DEF QuotaInv, CallsOK, ShapeOK
<1>3. now \in Nat /\ call[c].at \in Nat /\ MaxNow \in Nat
  BY <1>2, QuotasAssumption DEF Windows
<1>4. \A s \in Scopes : Bucket(s, call[c].at) \in 0 .. call[c].at /\ Bucket(s, now) \in 0 .. now
  BY <1>3, BucketsOK
<1> QED BY <1>2, <1>3, <1>4 DEF Windows

\* Scopes that agree with their grants after a step, charged or left alone.
LEMMA ChargedOK ==
  ASSUME QuotaInv, CallsOK', RefusalsOK', DOMAIN refusal' = Callers, now' = now,
         counter' \in [QuotaAccounts -> [Scopes -> CounterRow]],
         granted' \in [QuotaAccounts -> [Scopes -> [Windows -> Nat]]],
         \A a \in QuotaAccounts, s \in Scopes :
           \/ counter'[a][s] = counter[a][s] /\ granted'[a][s] = granted[a][s]
           \/ ScopeOK(s, counter'[a][s], granted'[a][s])
  PROVE  QuotaInv'
<1>1. \A a \in QuotaAccounts, s \in Scopes : ScopeOK(s, counter'[a][s], granted'[a][s])
  BY DEF QuotaInv, ScopesOK
<1> QED BY <1>1 DEF QuotaInv, ShapeOK, ScopesOK

\* PostgresAccountRateLimiter.consume.
LEMMA ConsumeOK == ASSUME QuotaInv, NEW c \in Callers, Consume(c) PROVE QuotaInv'
<1> DEFINE L == Limit["chat"]
<1>1. PICK a \in QuotaAccounts, b \in Windows : a = call[c].account /\ b = Bucket("chat", call[c].at)
  BY AskedOK DEF Consume, Scopes, CallKinds
<1>2. PICK row : row = Consumed(counter[a]["chat"], b, L)
  OBVIOUS
<1>3. PICK g : g = IF row.count <= L THEN [granted[a]["chat"] EXCEPT ![row.window] = @ + 1] ELSE granted[a]["chat"]
  OBVIOUS
<1>4. ScopeOK("chat", counter[a]["chat"], granted[a]["chat"])
  BY DEF QuotaInv, ScopesOK, Scopes
<1>5. row.window \in Windows /\ ScopeOK("chat", row, g)
  BY <1>2, <1>3, <1>4, ConsumedOK
<1>6. row \in CounterRow /\ "chat" \in Scopes
  BY <1>5, LengthsOK DEF ScopeOK, CounterRow, Scopes
<1>7. /\ counter' = [counter EXCEPT ![a]["chat"] = row]
      /\ \/ /\ row.count <= L /\ UNCHANGED refusal
            /\ granted' = [granted EXCEPT ![a] = Charge(a, "chat", row)]
         \/ ~(row.count <= L) /\ Refuse(c, "chat", row) /\ UNCHANGED granted
      /\ call' = [call EXCEPT ![c] = Idle] /\ now' = now
  BY <1>1, <1>2 DEF Consume
<1>8. RefusalsOK' /\ DOMAIN refusal' = Callers
  BY <1>6, <1>7, RefuseOK DEF QuotaInv, RefusalsOK, ShapeOK
<1>9. CallsOK'
  BY <1>7, EndedOK
<1>10. g \in [Windows -> Nat]
  BY <1>5, <1>6, LengthsOK DEF ScopeOK
<1>11. /\ counter' \in [QuotaAccounts -> [Scopes -> CounterRow]]
       /\ granted' \in [QuotaAccounts -> [Scopes -> [Windows -> Nat]]]
       /\ counter'[a]["chat"] = row /\ granted'[a]["chat"] = g
       /\ \A x \in QuotaAccounts, s \in Scopes :
            x # a \/ s # "chat" => counter'[x][s] = counter[x][s] /\ granted'[x][s] = granted[x][s]
  <2>1. counter \in [QuotaAccounts -> [Scopes -> CounterRow]] /\ granted \in [QuotaAccounts -> [Scopes -> [Windows -> Nat]]]
    BY DEF QuotaInv, ShapeOK
  <2>2. /\ granted' \in [QuotaAccounts -> [Scopes -> [Windows -> Nat]]] /\ granted'[a]["chat"] = g
        /\ \A x \in QuotaAccounts, s \in Scopes : x # a \/ s # "chat" => granted'[x][s] = granted[x][s]
    <3>1. CASE row.count <= L
      <4>1. granted' = [granted EXCEPT ![a] = [granted[a] EXCEPT !["chat"] = g]]
        BY <1>3, <1>7, <3>1 DEF Charge
      <4> QED BY <1>6, <1>10, <2>1, <4>1
    <3>2. CASE ~(row.count <= L)
      BY <1>3, <1>7, <2>1, <3>2
    <3> QED BY <3>1, <3>2
  <2>3. /\ counter' \in [QuotaAccounts -> [Scopes -> CounterRow]] /\ counter'[a]["chat"] = row
        /\ \A x \in QuotaAccounts, s \in Scopes : x # a \/ s # "chat" => counter'[x][s] = counter[x][s]
    BY <1>6, <1>7, <2>1
  <2> QED BY <2>2, <2>3
<1> HIDE DEF L
<1> QED BY <1>5, <1>7, <1>8, <1>9, <1>11, ChargedOK

\* reserve_request.
LEMMA ReserveRequestOK == ASSUME QuotaInv, NEW c \in Callers, ReserveRequest(c) PROVE QuotaInv'
<1>1. PICK a \in QuotaAccounts, b \in Windows : a = call[c].account /\ b = Bucket("request", call[c].at)
  BY AskedOK DEF ReserveRequest, Scopes, CallKinds
<1>2. PICK old \in CounterRow : old = counter[a]["request"]
  BY DEF QuotaInv, ShapeOK, Scopes
<1>3. /\ \/ /\ HasRoom(old, b, Limit["request"]) /\ UNCHANGED refusal
            /\ counter' = [counter EXCEPT ![a]["request"] = Reserved(old, b)]
            /\ granted' = [granted EXCEPT ![a] = Charge(a, "request", Reserved(old, b))]
         \/ Refuse(c, "request", old) /\ UNCHANGED <<counter, granted>>
      /\ call' = [call EXCEPT ![c] = Idle] /\ now' = now
  BY <1>1, <1>2 DEF ReserveRequest
<1>4. RefusalsOK' /\ DOMAIN refusal' = Callers
  BY <1>3, RefuseOK DEF QuotaInv, RefusalsOK, ShapeOK, Scopes
<1>5. CallsOK'
  BY <1>3, EndedOK
<1>6. CASE UNCHANGED <<counter, granted>>
  BY <1>3, <1>4, <1>5, <1>6, ChargedOK DEF QuotaInv, ShapeOK
<1>7. CASE /\ HasRoom(old, b, Limit["request"])
           /\ counter' = [counter EXCEPT ![a]["request"] = Reserved(old, b)]
           /\ granted' = [granted EXCEPT ![a] = Charge(a, "request", Reserved(old, b))]
  <2>1. PICK row : row = Reserved(old, b)
    OBVIOUS
  <2>2. PICK g : g = [granted[a]["request"] EXCEPT ![row.window] = @ + 1]
    OBVIOUS
  <2>3. ScopeOK("request", old, granted[a]["request"]) /\ "request" \in Scopes
    BY <1>2 DEF QuotaInv, ScopesOK, Scopes
  <2>4. row.window \in Windows /\ ScopeOK("request", row, g)
    BY <1>7, <2>1, <2>2, <2>3, ReservedOK
  <2>5. row \in CounterRow /\ g \in [Windows -> Nat]
    BY <2>3, <2>4, LengthsOK DEF ScopeOK, CounterRow
  <2>6. /\ counter' \in [QuotaAccounts -> [Scopes -> CounterRow]]
        /\ granted' \in [QuotaAccounts -> [Scopes -> [Windows -> Nat]]]
         /\ counter'[a]["request"] = row /\ granted'[a]["request"] = g
        /\ \A x \in QuotaAccounts, s \in Scopes :
             x # a \/ s # "request" => counter'[x][s] = counter[x][s] /\ granted'[x][s] = granted[x][s]
    BY <1>7, <2>1, <2>2, <2>3, <2>4, <2>5 DEF QuotaInv, ShapeOK, Charge
  <2> QED BY <1>3, <1>4, <1>5, <2>4, <2>6, ChargedOK
<1> QED BY <1>3, <1>6, <1>7

\* reserve_execution: both budgets are charged, or neither is.
LEMMA ReserveExecutionOK == ASSUME QuotaInv, NEW c \in Callers, ReserveExecution(c) PROVE QuotaInv'
<1>1. PICK a \in QuotaAccounts, hb \in Windows, mb \in Windows :
         a = call[c].account /\ hb = Bucket("computeHour", call[c].at) /\ mb = Bucket("computeMinute", now)
  BY AskedOK DEF ReserveExecution, Scopes, CallKinds
<1>2. PICK hour \in CounterRow, min \in CounterRow :
         hour = counter[a]["computeHour"] /\ min = counter[a]["computeMinute"]
  BY DEF QuotaInv, ShapeOK, Scopes
<1>3. PICK h, m : h = Reserved(hour, hb) /\ m = Reserved(min, mb)
  OBVIOUS
<1>4. /\ \/ /\ HasRoom(hour, hb, Limit["computeHour"]) /\ HasRoom(min, mb, Limit["computeMinute"])
            /\ counter' = [counter EXCEPT ![a]["computeHour"] = h, ![a]["computeMinute"] = m]
            /\ granted' = [granted EXCEPT ![a]["computeHour"][h.window] = @ + 1,
                                          ![a]["computeMinute"][m.window] = @ + 1]
            /\ UNCHANGED refusal
         \/ Refuse(c, "computeHour", hour) /\ UNCHANGED <<counter, granted>>
         \/ Refuse(c, "computeMinute", min) /\ UNCHANGED <<counter, granted>>
      /\ call' = [call EXCEPT ![c] = Idle] /\ now' = now
  BY <1>1, <1>2, <1>3 DEF ReserveExecution
<1>5. RefusalsOK' /\ DOMAIN refusal' = Callers
  BY <1>4, RefuseOK DEF QuotaInv, RefusalsOK, ShapeOK, Scopes
<1>6. CallsOK'
  BY <1>4, EndedOK
<1>7. counter \in [QuotaAccounts -> [Scopes -> CounterRow]] /\ granted \in [QuotaAccounts -> [Scopes -> [Windows -> Nat]]]
  BY DEF QuotaInv, ShapeOK
<1>8. CASE UNCHANGED <<counter, granted>>
  BY <1>4, <1>5, <1>6, <1>7, <1>8, ChargedOK
<1>9. CASE /\ HasRoom(hour, hb, Limit["computeHour"]) /\ HasRoom(min, mb, Limit["computeMinute"])
           /\ counter' = [counter EXCEPT ![a]["computeHour"] = h, ![a]["computeMinute"] = m]
           /\ granted' = [granted EXCEPT ![a]["computeHour"][h.window] = @ + 1,
                                         ![a]["computeMinute"][m.window] = @ + 1]
  <2>1. PICK g : g = [granted[a]["computeHour"] EXCEPT ![h.window] = @ + 1]
    OBVIOUS
  <2>2. PICK f : f = [granted[a]["computeMinute"] EXCEPT ![m.window] = @ + 1]
    OBVIOUS
  <2>3. /\ "computeHour" \in Scopes /\ "computeMinute" \in Scopes
        /\ ScopeOK("computeHour", hour, granted[a]["computeHour"])
        /\ ScopeOK("computeMinute", min, granted[a]["computeMinute"])
    BY <1>2 DEF QuotaInv, ScopesOK, Scopes
  <2>4. h.window \in Windows /\ ScopeOK("computeHour", h, g)
    BY <1>3, <1>9, <2>1, <2>3, ReservedOK
  <2>5. m.window \in Windows /\ ScopeOK("computeMinute", m, f)
    BY <1>3, <1>9, <2>2, <2>3, ReservedOK
  <2>6. h \in CounterRow /\ g \in [Windows -> Nat] /\ m \in CounterRow /\ f \in [Windows -> Nat]
    BY <2>3, <2>4, <2>5, LengthsOK DEF ScopeOK, CounterRow
  <2>7. /\ counter' \in [QuotaAccounts -> [Scopes -> CounterRow]]
        /\ counter'[a]["computeHour"] = h /\ counter'[a]["computeMinute"] = m
        /\ \A x \in QuotaAccounts, s \in Scopes :
             x # a \/ s \notin {"computeHour", "computeMinute"} => counter'[x][s] = counter[x][s]
    BY <1>7, <1>9, <2>3, <2>6
  <2>8. granted' = [granted EXCEPT ![a]["computeHour"] = g, ![a]["computeMinute"] = f]
    BY <1>7, <1>9, <2>1, <2>2, <2>3
  <2>9. /\ granted' \in [QuotaAccounts -> [Scopes -> [Windows -> Nat]]]
        /\ granted'[a]["computeHour"] = g /\ granted'[a]["computeMinute"] = f
        /\ \A x \in QuotaAccounts, s \in Scopes :
             x # a \/ s \notin {"computeHour", "computeMinute"} => granted'[x][s] = granted[x][s]
    BY <1>7, <2>3, <2>6, <2>8
  <2>10. ASSUME NEW x \in QuotaAccounts, NEW s \in Scopes
         PROVE  \/ counter'[x][s] = counter[x][s] /\ granted'[x][s] = granted[x][s]
                \/ ScopeOK(s, counter'[x][s], granted'[x][s])
    <3>1. CASE x = a /\ s = "computeHour"
      BY <2>4, <2>7, <2>9, <3>1
    <3>2. CASE x = a /\ s = "computeMinute"
      BY <2>5, <2>7, <2>9, <3>2
    <3>3. CASE x # a \/ s \notin {"computeHour", "computeMinute"}
      BY <2>7, <2>9, <3>3
    <3> QED BY <3>1, <3>2, <3>3
  <2> QED BY <1>4, <1>5, <1>6, <2>7, <2>9, <2>10, ChargedOK
<1> QED BY <1>4, <1>8, <1>9

\* The other steps charge nothing.
LEMMA UnchargedOK ==
  ASSUME QuotaInv, UNCHANGED <<counter, granted>>, now' \in Windows, CallsOK', RefusalsOK', DOMAIN refusal' = Callers
  PROVE  QuotaInv'
BY DEF QuotaInv, ShapeOK, ScopesOK

\* Every action keeps the invariant.
LEMMA QuotaNextOK == QuotaInv /\ [QuotaNext]_quotaVars => QuotaInv'
<1> SUFFICES ASSUME QuotaInv, [QuotaNext]_quotaVars PROVE QuotaInv'
  OBVIOUS
<1>0. now \in Windows /\ DOMAIN refusal = Callers /\ RefusalsOK /\ CallsOK /\ now \in Nat
  BY DEF QuotaInv, ShapeOK, Windows
<1>1. ASSUME NEW c \in Callers, NEW a \in QuotaAccounts, NEW kind \in CallKinds, Start(c, a, kind)
      PROVE  QuotaInv'
  <2>1. [kind |-> kind, account |-> a, at |-> now] \in [kind: CallKinds, account: QuotaAccounts, at: 0 .. now]
    BY <1>0
  <2>2. CallsOK'
    BY <1>0, <1>1, <2>1 DEF Start, CallsOK
  <2>3. RefusalsOK' /\ DOMAIN refusal' = Callers
    BY <1>0, <1>1 DEF Start, RefusalsOK, RefusalOK
  <2> QED BY <1>0, <1>1, <2>2, <2>3, UnchargedOK DEF Start
<1>2. ASSUME NEW c \in Callers, Unavailable(c) PROVE QuotaInv'
  <2>1. CallsOK' /\ RefusalsOK' /\ DOMAIN refusal' = Callers
    BY <1>0, <1>2, EndedOK DEF Unavailable, RefusalsOK
  <2> QED BY <1>0, <1>2, <2>1, UnchargedOK DEF Unavailable
<1>3. CASE QuotaTick
  <2>1. now' \in Windows /\ now <= now'
    BY <1>0, <1>3, QuotasAssumption DEF QuotaTick, Windows
  <2>2. 0 .. now \subseteq 0 .. now'
    BY <1>0, <2>1 DEF Windows
  <2>3. [kind: CallKinds, account: QuotaAccounts, at: 0 .. now]
           \subseteq [kind: CallKinds, account: QuotaAccounts, at: 0 .. now']
    BY <2>2
  <2>4. CallsOK' /\ RefusalsOK' /\ DOMAIN refusal' = Callers
    BY <1>0, <1>3, <2>3 DEF QuotaTick, CallsOK, RefusalsOK
  <2> QED BY <1>3, <2>1, <2>4, UnchargedOK DEF QuotaTick
<1>4. CASE UNCHANGED quotaVars
  <2>1. UNCHANGED <<now, counter, call, granted, refusal>>
    BY <1>4 DEF quotaVars
  <2>2. CallsOK' /\ RefusalsOK' /\ DOMAIN refusal' = Callers
    BY <1>0, <2>1 DEF CallsOK, RefusalsOK
  <2> QED BY <1>0, <2>1, <2>2, UnchargedOK
<1> QED BY <1>1, <1>2, <1>3, <1>4, ConsumeOK, ReserveRequestOK, ReserveExecutionOK
        DEF QuotaNext, QuotaNextOf, CallKinds

\* No window has begun to count.
LEMMA QuotaInitOK == QuotaInit => QuotaInv
<1> SUFFICES ASSUME QuotaInit PROVE QuotaInv
  OBVIOUS
<1>1. /\ [window |-> -1, count |-> 0] \in CounterRow /\ now \in Windows /\ DOMAIN refusal = Callers
      /\ Windows \subseteq Nat /\ 0 \in Windows
  BY QuotasAssumption DEF QuotaInit, CounterRow, Windows
<1>2. ShapeOK /\ CallsOK /\ RefusalsOK
  BY <1>1 DEF QuotaInit, ShapeOK, CallsOK, RefusalsOK, RefusalOK, Windows
<1>3. ASSUME NEW a \in QuotaAccounts, NEW s \in Scopes PROVE ScopeOK(s, counter[a][s], granted[a][s])
  BY <1>1, LengthsOK DEF QuotaInit, ScopeOK, Windows
<1> QED BY <1>2, <1>3 DEF QuotaInv, ScopesOK

-----------------------------------------------------------------------------
(* The theorem.                                                              *)

\* The inductive invariant gives each of the promises.
LEMMA Promises == QuotaInv => QuotasHold
<1> SUFFICES ASSUME QuotaInv PROVE QuotasHold
  OBVIOUS
<1>1. \A a \in QuotaAccounts, s \in Scopes : ScopeOK(s, counter[a][s], granted[a][s]) /\ Limit[s] \in Nat \ {0}
  BY LengthsOK DEF QuotaInv, ScopesOK
<1>2. QuotaTypeOK
  BY <1>1, QuotasAssumption DEF QuotaTypeOK, QuotaInv, ShapeOK, ScopeOK, Windows
<1>3. QuotaPerWindow
  <2> SUFFICES ASSUME NEW a \in QuotaAccounts, NEW s \in Scopes, NEW w \in Windows
               PROVE  granted[a][s][w] <= Limit[s]
    BY DEF QuotaPerWindow, Windows
  <2>1. granted[a][s] \in [Windows -> 0 .. Limit[s]] /\ Limit[s] \in Nat
    BY <1>1 DEF ScopeOK
  <2> QED BY <2>1
<1>4. BudgetSpentIsGranted
  BY <1>1 DEF BudgetSpentIsGranted, ScopeOK
<1>5. RetryAfterSuffices
  <2> SUFFICES ASSUME NEW c \in Callers, refusal[c].scope # "none"
               PROVE  Bucket(refusal[c].scope, refusal[c].retryAt) > refusal[c].window
    BY DEF RetryAfterSuffices
  <2>1. PICK s \in Scopes, w \in Windows \cup {-1}, t \in Nat :
           /\ s = refusal[c].scope /\ w = refusal[c].window /\ t = refusal[c].retryAt
           /\ (w + 1) * WindowLen(s) <= t
    BY DEF QuotaInv, RefusalsOK, RefusalOK, NoRefusal
  <2>2. w + 1 \in Nat /\ Bucket(s, t) \in 0 .. t
    BY <2>1, BucketsOK DEF Windows
  <2>3. w + 1 <= Bucket(s, t)
    BY <2>1, <2>2, BucketsOK
  <2> QED BY <2>1, <2>2, <2>3 DEF Windows
<1> QED BY <1>2, <1>3, <1>4, <1>5 DEF QuotasHold

\* consume and reserve_budget: no window grants more than its limit, a refusal spends
\* nothing, and waiting for Retry-After is enough.
THEOREM QuotasAlwaysHold == QuotaSpec => []QuotasHold
<1>1. QuotaInit => QuotaInv
  BY QuotaInitOK
<1>2. QuotaInv /\ [QuotaNext]_quotaVars => QuotaInv'
  BY QuotaNextOK
<1>3. QuotaInv => QuotasHold
  BY Promises
<1> QED BY <1>1, <1>2, <1>3, PTL DEF QuotaSpec

-----------------------------------------------------------------------------
(* The weekly plan.                                                          *)

PlanRow == [version: Nat, schedules: [PlanSteps -> [state: {"none", "TODO", "COMPLETED"}, by: Nat]]]
TabRow  == [pc: {"closed", "open", "loaded", "built"}, version: Nat, writes: Nat,
            done: SUBSET PlanSteps, existing: PlanRow]

PlanTypeOK ==
  /\ planRow \in PlanRow /\ stepDone \subseteq PlanSteps /\ planClosed \in BOOLEAN
  /\ tab \in [Tabs -> TabRow] /\ writes \in Nat
  /\ lastReset \in [at: Nat, kept: SUBSET PlanSteps]

\* The version counts the writes, in the row and in what a tab is shown; schedules and
\* resets are numbered by writes that happened.
Counted ==
  /\ planRow.version = writes /\ lastReset.at <= writes
  /\ \A s \in PlanSteps : planRow.schedules[s].by <= writes
  /\ \A b \in Tabs : tab[b].version <= writes /\ tab[b].writes = tab[b].version

\* A save has read a plan no older than the one its tab was shown.
Reads ==
  \A b \in Tabs : tab[b].pc = "built" =>
    /\ tab[b].version <= tab[b].existing.version /\ tab[b].existing.version <= planRow.version
    /\ tab[b].existing.version = planRow.version => tab[b].existing = planRow

PlanInv == PlanTypeOK /\ Counted /\ Reads /\ ResetForgets

\* A tab that has been shown the result of write v, and nothing else.
ShownWrite(v) == [Closed EXCEPT !.pc = "open", !.version = v, !.writes = v]

\* A write that is accepted: by a tab that has been shown the last one.
Writes(b, schedules) ==
  /\ planRow.version = tab[b].version /\ tab[b].pc # "closed"
  /\ planRow' = [version |-> writes + 1, schedules |-> schedules]
  /\ writes' = writes + 1
  /\ tab' = [tab EXCEPT ![b] = ShownWrite(writes + 1)]
  /\ stepDone' = stepDone

\* Tab b alone moves, to new; it has been shown a write that happened, and what it has
\* read for a save is the current plan.
TabMoves(b, new) ==
  /\ tab' = [tab EXCEPT ![b] = new] /\ new \in TabRow
  /\ planRow' = planRow /\ writes' = writes /\ lastReset' = lastReset
  /\ stepDone' = stepDone /\ planClosed' = planClosed
  /\ new.version <= writes /\ new.writes = new.version
  /\ new.pc = "built" => new.existing = planRow

-----------------------------------------------------------------------------
\* What a tab is left with.
LEMMA TabRows ==
  /\ NoPlan \in PlanRow /\ Closed \in TabRow
  /\ Closed.pc = "closed" /\ Closed.version = 0 /\ Closed.writes = 0
  /\ \A v \in Nat : /\ ShownWrite(v) \in TabRow /\ ShownWrite(v).pc = "open"
                     /\ ShownWrite(v).version = v /\ ShownWrite(v).writes = v
<1>1. NoPlan \in PlanRow
  BY DEF NoPlan, PlanRow, Unscheduled
<1>2. Closed \in TabRow /\ Closed.pc = "closed" /\ Closed.version = 0 /\ Closed.writes = 0
  BY <1>1 DEF Closed, TabRow
<1>3. ASSUME NEW v \in Nat
      PROVE  /\ ShownWrite(v) \in TabRow /\ ShownWrite(v).pc = "open"
             /\ ShownWrite(v).version = v /\ ShownWrite(v).writes = v
  BY <1>2 DEF ShownWrite, TabRow
<1> QED BY <1>1, <1>2, <1>3

\* A write that keeps completed history keeps the invariant, if what it keeps was
\* complete at the last reset, or shown already.
LEMMA WritesOK ==
  ASSUME PlanInv, NEW b \in Tabs, NEW schedules, Writes(b, schedules), planClosed' \in BOOLEAN,
         schedules \in [PlanSteps -> [state: {"none", "TODO", "COMPLETED"}, by: 0 .. writes + 1]],
         lastReset' \in [at: 0 .. writes + 1, kept: SUBSET PlanSteps],
         \A s \in PlanSteps : schedules[s].by \in 1 .. lastReset'.at - 1 => s \in lastReset'.kept
  PROVE  PlanInv'
<1>1. /\ planRow \in PlanRow /\ stepDone \subseteq PlanSteps /\ tab \in [Tabs -> TabRow] /\ writes \in Nat
      /\ planRow.version = writes
  BY DEF PlanInv, PlanTypeOK, Counted
<1>2. schedules \in [PlanSteps -> [state: {"none", "TODO", "COMPLETED"}, by: Nat]] /\ planRow' \in PlanRow
  BY <1>1 DEF Writes, PlanRow
<1> DEFINE new == ShownWrite(writes + 1)
<1>4. new \in TabRow /\ new.pc = "open" /\ new.version = writes + 1 /\ new.writes = writes + 1
  <2>1. writes + 1 \in Nat
    BY <1>1
  <2> QED BY <2>1, TabRows
<1> HIDE DEF new
<1>5. /\ tab' \in [Tabs -> TabRow] /\ tab'[b] = new
      /\ \A c \in Tabs : c # b => tab'[c] = tab[c]
  BY <1>1, <1>4 DEF Writes, new
<1>6. PlanTypeOK'
  BY <1>1, <1>2, <1>5 DEF PlanTypeOK, Writes
<1>7. Counted'
  <2>1. planRow'.version = writes' /\ lastReset'.at <= writes' /\ writes' = writes + 1
    BY <1>1 DEF Writes
  <2>2. \A s \in PlanSteps : planRow'.schedules[s].by <= writes'
    BY <1>1 DEF Writes
  <2>3. \A c \in Tabs : tab'[c].version <= writes' /\ tab'[c].writes = tab'[c].version
    <3> SUFFICES ASSUME NEW c \in Tabs PROVE tab'[c].version <= writes' /\ tab'[c].writes = tab'[c].version
      OBVIOUS
    <3>1. CASE c = b
      BY <1>1, <1>4, <1>5, <2>1, <3>1
    <3>2. CASE c # b
      <4>1. tab[c].version \in Nat /\ tab[c].version <= writes /\ tab[c].writes = tab[c].version
        BY <1>1 DEF PlanInv, Counted, TabRow
      <4> QED BY <1>1, <1>5, <2>1, <3>2, <4>1
    <3> QED BY <3>1, <3>2
  <2> QED BY <2>1, <2>2, <2>3 DEF Counted
<1>8. Reads'
  <2> SUFFICES ASSUME NEW c \in Tabs, tab'[c].pc = "built"
               PROVE  /\ tab'[c].version <= tab'[c].existing.version
                      /\ tab'[c].existing.version <= planRow'.version
                      /\ tab'[c].existing.version # planRow'.version
    BY DEF Reads
  <2>1. c # b /\ tab'[c] = tab[c]
    BY <1>4, <1>5
  <2>2. /\ tab[c].version <= tab[c].existing.version /\ tab[c].existing.version <= planRow.version
        /\ tab[c].existing.version \in Nat
    BY <1>1, <2>1 DEF PlanInv, Reads, TabRow, PlanRow
  <2>3. planRow'.version = planRow.version + 1
    BY <1>1 DEF Writes
  <2> QED BY <1>1, <2>1, <2>2, <2>3
<1>9. ResetForgets'
  BY DEF ResetForgets, Writes
<1> QED BY <1>6, <1>7, <1>8, <1>9 DEF PlanInv

\* put_weekly_plan: the plan it read is the current one, and every completed step was
\* complete when it read the steps.
LEMMA SavesAre ==
  ASSUME PlanInv, NEW b \in Tabs, SavePlan(b), CanWrite(b), ProgressKept(b)
  PROVE  /\ Writes(b, Preview(b)) /\ lastReset' = lastReset /\ planClosed' = planClosed
         /\ \A s \in PlanSteps : \/ s \notin stepDone /\ Preview(b)[s] = [state |-> "TODO", by |-> writes + 1]
                                 \/ Preview(b)[s] = [state |-> "COMPLETED", by |-> planRow.schedules[s].by]
<1>1. /\ tab[b].pc = "built" /\ planRow.version = tab[b].version
      /\ Written(b, Preview(b)) /\ UNCHANGED <<stepDone, planClosed, lastReset>>
  BY DEF SavePlan, CanWrite
<1>2. planRow \in PlanRow /\ tab \in [Tabs -> TabRow] /\ planRow.version = writes /\ stepDone \subseteq PlanSteps
  BY DEF PlanInv, PlanTypeOK, Counted
<1>3. tab[b].existing = planRow
  <2>1. tab[b].existing.version \in Nat /\ planRow.version \in Nat
    BY <1>2 DEF TabRow, PlanRow
  <2> QED BY <1>1, <2>1 DEF PlanInv, Reads
<1>4. \A s \in PlanSteps : \/ s \notin stepDone /\ Preview(b)[s] = [state |-> "TODO", by |-> writes + 1]
                           \/ Preview(b)[s] = [state |-> "COMPLETED", by |-> planRow.schedules[s].by]
  BY <1>3 DEF ProgressKept, Preview
<1>5. writes \in Nat /\ tab[b].version = writes
  BY <1>1, <1>2 DEF PlanInv, PlanTypeOK
<1>6. Writes(b, Preview(b))
  BY <1>1, <1>2, <1>5 DEF Writes, Written, ShownWrite
<1> QED BY <1>1, <1>4, <1>6

\* delete: the schedules of completed steps stay.
LEMMA ResetsAre ==
  ASSUME PlanInv, NEW b \in Tabs, ResetPlan(b), CanWrite(b)
  PROVE  /\ Writes(b, ResetSchedules) /\ planClosed' = planClosed
         /\ lastReset' = [at |-> writes + 1, kept |-> stepDone]
<1>1. planRow.version = writes /\ writes \in Nat /\ tab[b].version = writes /\ tab[b].pc = "open"
  BY DEF PlanInv, PlanTypeOK, Counted, ResetPlan, CanWrite
<1>2. Writes(b, ResetSchedules)
  BY <1>1 DEF ResetPlan, CanWrite, Written, Writes, ShownWrite
<1> QED BY <1>2 DEF ResetPlan, CanWrite

\* What tabs read, and reload after a refusal.
LEMMA TabsOK ==
  ASSUME PlanInv, NEW b \in Tabs, NEW new, TabMoves(b, new)
  PROVE  PlanInv'
<1>1. /\ tab \in [Tabs -> TabRow] /\ tab' \in [Tabs -> TabRow] /\ tab'[b] = new
      /\ \A c \in Tabs : c # b => tab'[c] = tab[c]
      /\ planRow' = planRow /\ writes' = writes /\ lastReset' = lastReset
      /\ stepDone' = stepDone /\ planClosed' = planClosed
      /\ new.version <= writes /\ new.writes = new.version /\ (new.pc = "built" => new.existing = planRow)
      /\ new \in TabRow
  BY DEF PlanInv, PlanTypeOK, TabMoves
<1>2. PlanTypeOK' /\ ResetForgets'
  BY <1>1 DEF PlanInv, PlanTypeOK, ResetForgets
<1>4. Counted'
  <2>1. ASSUME NEW c \in Tabs PROVE tab'[c].version <= writes /\ tab'[c].writes = tab'[c].version
    <3>1. CASE c = b
      BY <1>1, <3>1
    <3>2. CASE c # b
      BY <1>1, <3>2 DEF PlanInv, Counted
    <3> QED BY <3>1, <3>2
  <2> QED BY <1>1, <2>1 DEF PlanInv, Counted
<1>3. Reads'
  <2> SUFFICES ASSUME NEW c \in Tabs, tab'[c].pc = "built"
               PROVE  /\ tab'[c].version <= tab'[c].existing.version
                      /\ tab'[c].existing.version <= planRow.version
                      /\ tab'[c].existing.version = planRow.version => tab'[c].existing = planRow
    BY <1>1 DEF Reads
  <2>1. CASE c # b
    BY <1>1, <2>1 DEF PlanInv, Reads
  <2>2. CASE c = b
    <3>1. planRow.version = writes /\ writes \in Nat
      BY DEF PlanInv, Counted, PlanTypeOK
    <3>2. new.existing = planRow /\ new.version <= writes
      BY <1>1, <2>2
    <3>3. tab'[b] = new /\ new.version \in Nat
      BY <1>1 DEF TabRow
    <3> QED BY <2>2, <3>1, <3>2, <3>3
  <2> QED BY <2>1, <2>2
<1> QED BY <1>2, <1>3, <1>4 DEF PlanInv

\* Every action keeps the invariant.
LEMMA PlanNextOK == PlanInv /\ [PlanNext]_planVars => PlanInv'
<1> SUFFICES ASSUME PlanInv, [PlanNext]_planVars PROVE PlanInv'
  OBVIOUS
<1>0. /\ planRow \in PlanRow /\ stepDone \subseteq PlanSteps /\ planClosed \in BOOLEAN
      /\ tab \in [Tabs -> TabRow] /\ writes \in Nat /\ lastReset \in [at: Nat, kept: SUBSET PlanSteps]
      /\ planRow.version = writes /\ lastReset.at <= writes
      /\ \A s \in PlanSteps : planRow.schedules[s].by <= writes
      /\ \A b \in Tabs : tab[b].version <= writes /\ tab[b].writes = tab[b].version
  BY DEF PlanInv, PlanTypeOK, Counted
<1>1. ASSUME NEW b \in Tabs, GetPlan(b) PROVE PlanInv'
  <2> DEFINE new == [tab[b] EXCEPT !.pc = "open", !.version = planRow.version, !.writes = writes]
  <2>1. new \in TabRow /\ new.pc = "open" /\ new.version = writes /\ new.writes = writes
    <3>1. tab[b] \in TabRow /\ planRow.version = writes /\ writes \in Nat
      BY <1>0
    <3> QED BY <3>1 DEF TabRow
  <2>2. tab' = [tab EXCEPT ![b] = new]
    BY <1>0, <1>1 DEF GetPlan, TabRow
  <2> HIDE DEF new
  <2>3. UNCHANGED <<planRow, stepDone, planClosed, writes, lastReset>> /\ writes <= writes
    BY <1>0, <1>1 DEF GetPlan
  <2>4. TabMoves(b, new)
    BY <2>1, <2>2, <2>3 DEF TabMoves
  <2> QED BY <2>4, TabsOK
<1>2. ASSUME NEW b \in Tabs, LoadPlan(b) PROVE PlanInv'
  <2> DEFINE new == [tab[b] EXCEPT !.pc = "loaded", !.done = stepDone]
  <2>1. new \in TabRow /\ new.pc = "loaded" /\ new.version = tab[b].version /\ new.writes = tab[b].writes
    BY <1>0 DEF TabRow
  <2>2. tab' = [tab EXCEPT ![b] = new]
    BY <1>0, <1>2 DEF LoadPlan, TabRow
  <2> HIDE DEF new
  <2>3. TabMoves(b, new)
    BY <1>0, <1>2, <2>1, <2>2 DEF LoadPlan, TabMoves
  <2> QED BY <2>3, TabsOK
<1>3. ASSUME NEW b \in Tabs, ReadExisting(b) PROVE PlanInv'
  <2> DEFINE new == [tab[b] EXCEPT !.pc = "built", !.existing = planRow]
  <2>1. new \in TabRow /\ new.version = tab[b].version /\ new.writes = tab[b].writes /\ new.existing = planRow
    BY <1>0 DEF TabRow
  <2>2. tab' = [tab EXCEPT ![b] = new]
    BY <1>0, <1>3 DEF ReadExisting, TabRow
  <2> HIDE DEF new
  <2>3. TabMoves(b, new)
    BY <1>0, <1>3, <2>1, <2>2 DEF ReadExisting, TabMoves
  <2> QED BY <2>3, TabsOK
<1>4. ASSUME NEW b \in Tabs, Refused(b), stepDone' = stepDone, planClosed' = planClosed PROVE PlanInv'
  <2>1. TabMoves(b, Closed)
    BY <1>0, <1>4, TabRows DEF Refused, TabMoves
  <2> QED BY <2>1, TabsOK
<1>5. ASSUME NEW b \in Tabs, SavePlan(b) PROVE PlanInv'
  <2>1. CASE CanWrite(b) /\ ProgressKept(b)
    <3>1. /\ Writes(b, Preview(b)) /\ lastReset' = lastReset /\ planClosed' = planClosed
          /\ \A s \in PlanSteps : \/ Preview(b)[s] = [state |-> "TODO", by |-> writes + 1]
                                  \/ Preview(b)[s] = [state |-> "COMPLETED", by |-> planRow.schedules[s].by]
      BY <1>5, <2>1, SavesAre
    <3>2. \A s \in PlanSteps : planRow.schedules[s].by \in 0 .. writes + 1
      BY <1>0 DEF PlanRow
    <3>3. Preview(b) \in [PlanSteps -> [state: {"none", "TODO", "COMPLETED"}, by: 0 .. writes + 1]]
      <4>1. ASSUME NEW s \in PlanSteps
            PROVE  Preview(b)[s] \in [state: {"none", "TODO", "COMPLETED"}, by: 0 .. writes + 1]
        <5>1. CASE Preview(b)[s] = [state |-> "TODO", by |-> writes + 1]
          BY <1>0, <5>1
        <5>2. CASE Preview(b)[s] = [state |-> "COMPLETED", by |-> planRow.schedules[s].by]
          BY <3>2, <5>2
        <5> QED BY <3>1, <5>1, <5>2
      <4> QED BY <4>1 DEF Preview
    <3>4. \A s \in PlanSteps : Preview(b)[s].by \in 1 .. lastReset'.at - 1 => s \in lastReset'.kept
      <4> SUFFICES ASSUME NEW s \in PlanSteps, Preview(b)[s].by \in 1 .. lastReset.at - 1 PROVE s \in lastReset.kept
        BY <3>1
      <4>1. Preview(b)[s].by = planRow.schedules[s].by
        <5>1. CASE Preview(b)[s] = [state |-> "TODO", by |-> writes + 1]
          <6>1. Preview(b)[s].by = writes + 1 /\ lastReset.at \in Nat
            BY <1>0, <5>1
          <6>2. writes + 1 <= lastReset.at - 1
            BY <6>1
          <6> QED BY <1>0, <6>1, <6>2
        <5>2. CASE Preview(b)[s] = [state |-> "COMPLETED", by |-> planRow.schedules[s].by]
          BY <5>2
        <5> QED BY <3>1, <5>1, <5>2
      <4> QED BY <4>1 DEF PlanInv, ResetForgets
    <3>5. lastReset' \in [at: 0 .. writes + 1, kept: SUBSET PlanSteps] /\ planClosed' \in BOOLEAN
      BY <1>0, <3>1
    <3> QED BY <3>1, <3>3, <3>4, <3>5, WritesOK
  <2>2. CASE ~(CanWrite(b) /\ ProgressKept(b))
    BY <1>4, <1>5, <2>2 DEF SavePlan
  <2> QED BY <2>1, <2>2
<1>6. ASSUME NEW b \in Tabs, ResetPlan(b) PROVE PlanInv'
  <2>1. CASE CanWrite(b)
    <3>1. /\ Writes(b, ResetSchedules) /\ planClosed' = planClosed
          /\ lastReset' = [at |-> writes + 1, kept |-> stepDone]
      BY <1>6, <2>1, ResetsAre
    <3>2. ResetSchedules \in [PlanSteps -> [state: {"none", "TODO", "COMPLETED"}, by: 0 .. writes + 1]]
      BY <1>0 DEF ResetSchedules, PlanRow, Unscheduled
    <3>3. \A s \in PlanSteps : ResetSchedules[s].by \in 1 .. lastReset'.at - 1 => s \in lastReset'.kept
      BY <3>1 DEF ResetSchedules, Unscheduled
    <3>4. lastReset' \in [at: 0 .. writes + 1, kept: SUBSET PlanSteps] /\ planClosed' \in BOOLEAN
      BY <1>0, <3>1
    <3> QED BY <3>1, <3>2, <3>3, <3>4, WritesOK
  <2>2. CASE ~CanWrite(b)
    BY <1>4, <1>6, <2>2 DEF ResetPlan
  <2> QED BY <2>1, <2>2
<1>7. ASSUME NEW s \in PlanSteps, ToggleStep(s) PROVE PlanInv'
  BY <1>0, <1>7 DEF ToggleStep, PlanInv, PlanTypeOK, Counted, Reads, ResetForgets
<1>8. CASE ArchivePlan
  BY <1>8 DEF ArchivePlan, PlanInv, PlanTypeOK, Counted, Reads, ResetForgets
<1>9. CASE UNCHANGED planVars
  BY <1>9 DEF planVars, PlanInv, PlanTypeOK, Counted, Reads, ResetForgets
<1> QED BY <1>1, <1>2, <1>3, <1>5, <1>6, <1>7, <1>8, <1>9 DEF PlanNext

\* There is no plan yet.
LEMMA PlanInitOK == PlanInit => PlanInv
<1> SUFFICES ASSUME PlanInit PROVE PlanInv
  OBVIOUS
<1>1. NoPlan \in PlanRow /\ NoPlan.version = 0 /\ \A s \in PlanSteps : NoPlan.schedules[s].by = 0
  BY DEF NoPlan, PlanRow, Unscheduled
<1>2. Closed \in TabRow /\ Closed.pc = "closed" /\ Closed.version = 0 /\ Closed.writes = 0
  BY <1>1 DEF Closed, TabRow
<1>3. PlanTypeOK
  BY <1>1, <1>2 DEF PlanInit, PlanTypeOK
<1>4. Counted /\ Reads /\ ResetForgets
  BY <1>1, <1>2 DEF PlanInit, Counted, Reads, ResetForgets
<1> QED BY <1>3, <1>4 DEF PlanInv

-----------------------------------------------------------------------------
(* The theorem.                                                              *)

\* A step that writes the plan is that of one tab, which has been shown the last write, and
\* moves no date of a completed step.
LEMMA StepsLoseNothing ==
  ASSUME PlanInv, [PlanNext]_planVars
  PROVE  /\ planRow' # planRow =>
              /\ tab' # tab
              /\ \A c \in Tabs : tab'[c] # tab[c] => tab[c].writes = writes /\ tab[c].pc # "closed"
         /\ \A s \in stepDone \cap stepDone' : Shown(s)' = Shown(s)
<1>0. /\ stepDone \subseteq PlanSteps /\ planRow.version = writes /\ writes \in Nat
      /\ tab \in [Tabs -> TabRow] /\ \A b \in Tabs : tab[b].writes = tab[b].version
  BY DEF PlanInv, PlanTypeOK, Counted
\* The tab that writes is another one afterwards, and the only one that is.
<1>w. ASSUME NEW b \in Tabs, NEW schedules, Writes(b, schedules)
      PROVE  /\ tab' # tab
             /\ \A c \in Tabs : tab'[c] # tab[c] => tab[c].writes = writes /\ tab[c].pc # "closed"
  <2>1. tab[b].writes = writes /\ tab[b].pc # "closed"
    BY <1>0, <1>w DEF Writes
  <2>2. tab'[b] = ShownWrite(writes + 1) /\ \A c \in Tabs \ {b} : tab'[c] = tab[c]
    BY <1>0, <1>w DEF Writes
  <2>3. ShownWrite(writes + 1).writes = writes + 1
    BY DEF ShownWrite, Closed
  <2>4. tab'[b] # tab[b]
    <3>1. tab'[b].writes = writes + 1 /\ writes + 1 # writes
      BY <1>0, <2>2, <2>3
    <3> QED BY <2>1, <3>1
  <2>5. tab' # tab
    BY <2>4
  <2> QED BY <2>1, <2>2, <2>5
<1>1. CASE planRow' = planRow
  BY <1>1 DEF Shown
<1>2. ASSUME NEW b \in Tabs, SavePlan(b), CanWrite(b), ProgressKept(b)
      PROVE  /\ Writes(b, Preview(b))
             /\ \A s \in stepDone : Shown(s)' = Shown(s)
  <2>1. /\ Writes(b, Preview(b))
        /\ \A s \in PlanSteps : \/ s \notin stepDone /\ Preview(b)[s] = [state |-> "TODO", by |-> writes + 1]
                                \/ Preview(b)[s] = [state |-> "COMPLETED", by |-> planRow.schedules[s].by]
    BY <1>2, SavesAre
  <2>2. planRow'.schedules = Preview(b)
    BY <2>1 DEF Writes
  <2>3. ASSUME NEW s \in stepDone PROVE Shown(s)' = Shown(s)
    <3>1. Preview(b)[s] = [state |-> "COMPLETED", by |-> planRow.schedules[s].by]
      BY <1>0, <2>1
    <3> QED BY <2>2, <3>1 DEF Shown
  <2> QED BY <2>1, <2>3
<1>3. ASSUME NEW b \in Tabs, ResetPlan(b), CanWrite(b)
      PROVE  /\ Writes(b, ResetSchedules)
             /\ \A s \in stepDone : Shown(s)' = Shown(s)
  <2>1. Writes(b, ResetSchedules)
    BY <1>3, ResetsAre
  <2> QED BY <1>0, <2>1 DEF Writes, Shown, ResetSchedules
<1>4. \/ planRow' = planRow
      \/ \E b \in Tabs : SavePlan(b) /\ CanWrite(b) /\ ProgressKept(b)
      \/ \E b \in Tabs : ResetPlan(b) /\ CanWrite(b)
  BY DEF PlanNext, planVars, GetPlan, LoadPlan, ReadExisting, SavePlan, ResetPlan, Refused, ToggleStep, ArchivePlan
<1> QED BY <1>w, <1>1, <1>2, <1>3, <1>4

\* upsert and delete: no tab overwrites a write it was not shown, completed history stays,
\* and a reset forgets the rest.
THEOREM NothingIsLost == PlanSpec => NothingLost
<1>1. PlanInit => PlanInv
  BY PlanInitOK
<1>2. PlanInv /\ [PlanNext]_planVars => PlanInv'
  BY PlanNextOK
<1>3. PlanInv => ResetForgets
  BY DEF PlanInv
<1>4. PlanInv /\ [PlanNext]_planVars =>
        [planRow' # planRow =>
           /\ tab' # tab
           /\ \A b \in Tabs : tab'[b] # tab[b] => tab[b].writes = writes /\ tab[b].pc # "closed"]_planVars
  BY StepsLoseNothing
<1>5. PlanInv /\ [PlanNext]_planVars => [\A s \in stepDone \cap stepDone' : Shown(s)' = Shown(s)]_planVars
  BY StepsLoseNothing
<1> QED BY <1>1, <1>2, <1>3, <1>4, <1>5, PTL DEF PlanSpec, NothingLost, CompletedHistoryFixed, WriterSawLastWrite

-----------------------------------------------------------------------------
(* The imports of a resume.                                                  *)

(* The inductive invariant.                                                  *)

\* The states of an import, and those in which it holds a slot.
ImportStates ==
  {"new", "upload", "parse", "match", "leave", "unlock", "scanned", "analyze", "stop", "end", "crashed"}
InSlot(pc) == pc \in {"upload", "parse", "match", "leave", "unlock", "analyze", "stop"}
TaskStates == {"none", "queued", "running", "error", "result", "sent", "sentError", "cancelled"}

SlotType  == slot \in [SlotFiles -> [holder : Imports \cup {Nobody}, owner : ImportAccounts \cup {Nobody}]]
ImpType   == imp \in [Imports -> [pc : ImportStates, account : ImportAccounts \cup {Nobody},
                                  ai : BOOLEAN, then : {"end", "scanned"}]]
ChildType == /\ child \in [Imports -> {"none", "running", "exited"}]
             /\ folder \in [Imports -> {"none", "fresh", "old"}]
TaskType  == task \in [Imports -> [Blocks -> [at : TaskStates, found : 0 .. MaxFound]]]
TallyType == tally \in [Imports -> [completed : Nat, failed : Int, count : Nat, omitted : Int]]
ImportShape == SlotType /\ ImpType /\ ChildType /\ TaskType /\ TallyType

\* A slot file is locked by an import that is in it, an import has at most one, and it is
\* marked with the import's account until the import clears it; no account marks two.
SlotHeld(i)   == slot[i].holder # Nobody => InSlot(imp[slot[i].holder].pc)
SlotMarked(i) == slot[i].holder # Nobody /\ imp[slot[i].holder].pc # "unlock" =>
                   slot[i].owner = imp[slot[i].holder].account /\ slot[i].owner # Nobody
SlotsApart    == \A i, j \in SlotFiles : i # j /\ slot[i].holder # Nobody /\ slot[j].holder # Nobody =>
                   /\ slot[i].holder # slot[j].holder
                   /\ slot[i].owner = slot[j].owner => slot[i].owner = Nobody
HasSlot(r)    == /\ InSlot(imp[r].pc) => \E i \in SlotFiles : slot[i].holder = r
                 /\ InSlot(imp[r].pc) \/ imp[r].pc = "scanned" => imp[r].account # Nobody
SlotsOK == /\ \A i \in SlotFiles : SlotHeld(i) /\ SlotMarked(i)
           /\ SlotsApart
           /\ \A r \in Imports : HasSlot(r)

\* The results that were sent, and those of them that were errors.
Finished(ts) == {b \in Blocks : ts[b].at \in {"sent", "sentError"}}
Extracted(ts) == {b \in Blocks : ts[b].at = "sent"}
Errors(ts)   == {b \in Blocks : ts[b].at = "sentError"}
Live(ts)     == {b \in Blocks : ts[b].at = "running"}

\* The counters of an import against its calls: while it analyses they count what was
\* sent, and after that every paragraph.
Untouched(i, ts, n) ==
  i.pc \in {"new", "upload", "parse", "match", "scanned"} \/ (i.pc \in {"leave", "unlock"} /\ i.then = "scanned") =>
    ts = NoTasks /\ n = ZeroTally
Counting(i, ts, n) ==
  i.pc \in {"analyze", "stop"} =>
    n.completed = Cardinality(Finished(ts)) /\ n.failed = Cardinality(Errors(ts))
Reported(i, ts, n) ==
  i.pc \in {"leave", "unlock"} /\ ts # NoTasks => Cardinality(Extracted(ts)) + n.failed = Cardinality(Blocks)
Bounded(i, ts, n) ==
  /\ n.completed <= Cardinality(Blocks) /\ n.count <= MaxSuggestions
  /\ Cardinality(Live(ts)) <= AiConcurrency
  /\ Live(ts) # {} => i.pc \in {"analyze", "stop"}
CountsOK(i, ts, n) == Untouched(i, ts, n) /\ Counting(i, ts, n) /\ Reported(i, ts, n) /\ Bounded(i, ts, n)

\* A parser and a private folder live only while their import needs them.
ParserOK(r) == /\ child[r] # "none" => imp[r].pc \in {"parse", "crashed"}
               /\ FolderLocked(r) => folder[r] # "none"

ImportInv ==
  /\ ImportShape /\ SlotsOK
  /\ \A r \in Imports : ParserOK(r) /\ CountsOK(imp[r], task[r], tally[r])

-----------------------------------------------------------------------------
(* Counting the calls of one import.                                         *)

\* The calls of an import, and its counters.
Calling == [Blocks -> [at : TaskStates, found : 0 .. MaxFound]]
Counters == [completed : Nat, failed : Int, count : Nat, omitted : Int]

\* The sets that are counted are finite, and what was sent was extracted or is an error.
LEMMA CallsAreCounted ==
  ASSUME ImportConstants, NEW ts \in Calling
  PROVE  /\ IsFiniteSet(Finished(ts)) /\ IsFiniteSet(Extracted(ts)) /\ IsFiniteSet(Errors(ts)) /\ IsFiniteSet(Live(ts))
         /\ Cardinality(Finished(ts)) \in Nat /\ Cardinality(Extracted(ts)) \in Nat
         /\ Cardinality(Errors(ts)) \in Nat /\ Cardinality(Live(ts)) \in Nat /\ Cardinality(Blocks) \in Nat
         /\ Cardinality(Finished(ts)) = Cardinality(Extracted(ts)) + Cardinality(Errors(ts))
         /\ Cardinality(Finished(ts)) <= Cardinality(Blocks)
<1>1. /\ Finished(ts) \subseteq Blocks /\ Extracted(ts) \subseteq Blocks
      /\ Errors(ts) \subseteq Blocks /\ Live(ts) \subseteq Blocks
  BY DEF Finished, Extracted, Errors, Live
<1>2. IsFiniteSet(Blocks)
  BY DEF ImportConstants
<1>3. /\ IsFiniteSet(Finished(ts)) /\ IsFiniteSet(Extracted(ts)) /\ IsFiniteSet(Errors(ts)) /\ IsFiniteSet(Live(ts))
      /\ Cardinality(Finished(ts)) <= Cardinality(Blocks)
  BY <1>1, <1>2, FS_Subset
<1>4. /\ Cardinality(Finished(ts)) \in Nat /\ Cardinality(Extracted(ts)) \in Nat
      /\ Cardinality(Errors(ts)) \in Nat /\ Cardinality(Live(ts)) \in Nat /\ Cardinality(Blocks) \in Nat
  BY <1>2, <1>3, FS_CardinalityType
<1>5. Finished(ts) = Extracted(ts) \cup Errors(ts) /\ Extracted(ts) \cap Errors(ts) = {}
  BY DEF Finished, Extracted, Errors
<1>6. Cardinality({}) = 0
  BY FS_EmptySet
<1>7. Cardinality(Extracted(ts) \cup Errors(ts))
        = Cardinality(Extracted(ts)) + Cardinality(Errors(ts)) - Cardinality(Extracted(ts) \cap Errors(ts))
  BY <1>3, FS_Union
<1>8. Cardinality(Finished(ts)) = Cardinality(Extracted(ts)) + Cardinality(Errors(ts)) - 0
  BY <1>5, <1>6, <1>7
<1> QED BY <1>3, <1>4, <1>8

\* Another outcome of one call that was neither sent nor begins to run.
LEMMA OutcomeKeepsCounts ==
  ASSUME ImportConstants, NEW ts \in Calling, NEW b \in Blocks, NEW x \in [at : TaskStates, found : 0 .. MaxFound],
         ts[b].at \notin {"sent", "sentError"}, x.at \notin {"sent", "sentError", "running"}
  PROVE  /\ Finished([ts EXCEPT ![b] = x]) = Finished(ts) /\ Errors([ts EXCEPT ![b] = x]) = Errors(ts)
         /\ Live([ts EXCEPT ![b] = x]) \subseteq Live(ts)
         /\ Cardinality(Live([ts EXCEPT ![b] = x])) <= Cardinality(Live(ts))
         /\ [ts EXCEPT ![b] = x] \in Calling
<1> DEFINE us == [ts EXCEPT ![b] = x]
<1>1. us \in Calling /\ \A c \in Blocks : us[c] = IF c = b THEN x ELSE ts[c]
  BY DEF Calling
<1> HIDE DEF us
<1>2. Finished(us) = Finished(ts) /\ Errors(us) = Errors(ts) /\ Live(us) \subseteq Live(ts)
  BY <1>1 DEF Finished, Errors, Live
<1>3. Cardinality(Live(us)) <= Cardinality(Live(ts))
  BY <1>2, CallsAreCounted, FS_Subset
<1> QED BY <1>1, <1>2, <1>3 DEF us

\* A call begins.
LEMMA CallIsLive ==
  ASSUME ImportConstants, NEW ts \in Calling, NEW b \in Blocks, ts[b].at = "queued"
  PROVE  /\ [ts EXCEPT ![b].at = "running"] \in Calling
         /\ Finished([ts EXCEPT ![b].at = "running"]) = Finished(ts)
         /\ Errors([ts EXCEPT ![b].at = "running"]) = Errors(ts)
         /\ Cardinality(Live([ts EXCEPT ![b].at = "running"])) = Cardinality(Live(ts)) + 1
<1> DEFINE us == [ts EXCEPT ![b].at = "running"]
<1>1. us \in Calling /\ us[b].at = "running" /\ \A c \in Blocks \ {b} : us[c] = ts[c]
  BY DEF Calling, TaskStates
<1> HIDE DEF us
<1>2. Finished(us) = Finished(ts) /\ Errors(us) = Errors(ts) /\ Live(us) = Live(ts) \cup {b} /\ b \notin Live(ts)
  BY <1>1 DEF Finished, Errors, Live
<1>3. Cardinality(Live(ts) \cup {b}) = Cardinality(Live(ts)) + 1
  BY <1>2, CallsAreCounted, FS_AddElement
<1> QED BY <1>1, <1>2, <1>3 DEF us

\* A result is sent: one more is finished, and one more is an error if it failed.
LEMMA ResultIsSent ==
  ASSUME ImportConstants, NEW ts \in Calling, NEW b \in Blocks, ts[b].at \in {"error", "result"},
         NEW failed \in BOOLEAN
  PROVE  /\ [ts EXCEPT ![b] = Delivered(failed)] \in Calling
         /\ Cardinality(Finished([ts EXCEPT ![b] = Delivered(failed)])) = Cardinality(Finished(ts)) + 1
         /\ Cardinality(Errors([ts EXCEPT ![b] = Delivered(failed)]))
              = Cardinality(Errors(ts)) + IF failed THEN 1 ELSE 0
         /\ Live([ts EXCEPT ![b] = Delivered(failed)]) = Live(ts)
<1> DEFINE us == [ts EXCEPT ![b] = Delivered(failed)]
<1>1. us \in Calling /\ us[b] = Delivered(failed) /\ \A c \in Blocks \ {b} : us[c] = ts[c]
  BY DEF Calling, TaskStates, Delivered, At, ImportConstants
<1> HIDE DEF us
<1>2. us[b].at = IF failed THEN "sentError" ELSE "sent"
  BY <1>1 DEF Delivered, At
<1>3. /\ Finished(us) = Finished(ts) \cup {b} /\ b \notin Finished(ts) /\ Live(us) = Live(ts)
      /\ b \notin Errors(ts) /\ Errors(us) = IF failed THEN Errors(ts) \cup {b} ELSE Errors(ts)
  BY <1>1, <1>2 DEF Finished, Errors, Live
<1>4. Cardinality(Finished(us)) = Cardinality(Finished(ts)) + 1
  BY <1>3, CallsAreCounted, FS_AddElement
<1>5. failed => Cardinality(Errors(us)) = Cardinality(Errors(ts)) + 1
  BY <1>3, CallsAreCounted, FS_AddElement
<1>6. ~failed => Cardinality(Errors(us)) = Cardinality(Errors(ts)) + 0
  BY <1>3, CallsAreCounted
<1> QED BY <1>1, <1>3, <1>4, <1>5, <1>6 DEF us

-----------------------------------------------------------------------------
(* The counters of one import.                                               *)

\* A move between two states that touches neither calls nor counters.
Moves(i, j) ==
  \/ i.pc \in {"new", "upload", "parse", "match", "scanned"} /\ j.pc \notin {"analyze", "stop"}
  \/ i.pc = "leave" /\ j.pc = "unlock" /\ j.then = i.then
  \/ i.pc = "unlock" /\ j.pc = i.then /\ i.then \in {"end", "scanned"}
  \/ i.pc = "analyze" /\ j.pc = "stop"

\* Between two such states the counters stay right.
LEMMA MovesKeepCounts ==
  ASSUME NEW i, NEW j, NEW ts, NEW n, CountsOK(i, ts, n), Moves(i, j)
  PROVE  CountsOK(j, ts, n)
<1>1. CASE i.pc \in {"new", "upload", "parse", "match", "scanned"} /\ j.pc \notin {"analyze", "stop"}
  BY <1>1 DEF CountsOK, Untouched, Counting, Reported, Bounded
<1>2. CASE i.pc = "leave" /\ j.pc = "unlock" /\ j.then = i.then
  BY <1>2 DEF CountsOK, Untouched, Counting, Reported, Bounded
<1>3. CASE i.pc = "unlock" /\ j.pc = i.then /\ i.then \in {"end", "scanned"}
  BY <1>3 DEF CountsOK, Untouched, Counting, Reported, Bounded
<1>4. CASE i.pc = "analyze" /\ j.pc = "stop"
  BY <1>4 DEF CountsOK, Untouched, Counting, Reported, Bounded
<1> QED BY <1>1, <1>2, <1>3, <1>4 DEF Moves

\* Without calls nothing is counted.
LEMMA NoCallsAreCounted ==
  ASSUME ImportConstants
  PROVE  /\ NoTasks \in Calling /\ Live(NoTasks) = {}
         /\ [b \in Blocks |-> At("queued")] \in Calling
         /\ Finished([b \in Blocks |-> At("queued")]) = {} /\ Errors([b \in Blocks |-> At("queued")]) = {}
         /\ Live([b \in Blocks |-> At("queued")]) = {}
         /\ Cardinality({}) = 0
<1>1. Cardinality({}) = 0
  BY FS_EmptySet
<1>2. NoTasks \in Calling /\ [b \in Blocks |-> At("queued")] \in Calling
  BY DEF NoTasks, At, Calling, TaskStates, ImportConstants
<1>3. Live(NoTasks) = {}
  BY DEF NoTasks, At, Live
<1>4. /\ Finished([b \in Blocks |-> At("queued")]) = {} /\ Errors([b \in Blocks |-> At("queued")]) = {}
      /\ Live([b \in Blocks |-> At("queued")]) = {}
  BY DEF Finished, Errors, Live, At
<1> QED BY <1>1, <1>2, <1>3, <1>4

\* An analysis begins with every call queued.
LEMMA AnalysisCountsFromZero ==
  ASSUME ImportConstants, NEW i, NEW j, NEW ts, NEW n, CountsOK(i, ts, n), i.pc = "scanned", j.pc = "analyze"
  PROVE  CountsOK(j, [b \in Blocks |-> At("queued")], n)
<1>1. n = ZeroTally
  BY DEF CountsOK, Untouched
<1>2. n.completed = 0 /\ n.failed = 0 /\ n.count = 0
  BY <1>1 DEF ZeroTally
<1>3. Cardinality(Blocks) \in Nat
  BY FS_CardinalityType DEF ImportConstants
<1> QED BY <1>2, <1>3, NoCallsAreCounted DEF CountsOK, Untouched, Counting, Reported, Bounded, ImportConstants

\* A crash takes the calls with it.
LEMMA CrashStopsCounting ==
  ASSUME ImportConstants, NEW i, NEW j, NEW ts, NEW n, CountsOK(i, ts, n), j.pc = "crashed"
  PROVE  CountsOK(j, NoTasks, n)
BY NoCallsAreCounted DEF CountsOK, Untouched, Counting, Reported, Bounded, ImportConstants

\* A call that was not sent changes its state while the import analyses or stops.
LEMMA CallStepKeepsCounts ==
  ASSUME ImportConstants, NEW i, NEW ts, NEW us, NEW n, CountsOK(i, ts, n), i.pc \in {"analyze", "stop"},
         Finished(us) = Finished(ts), Errors(us) = Errors(ts), Cardinality(Live(us)) <= AiConcurrency
  PROVE  CountsOK(i, us, n)
BY DEF CountsOK, Untouched, Counting, Reported, Bounded

\* A result is counted as it is sent, and no more suggestions than allowed.
LEMMA SentResultIsCounted ==
  ASSUME ImportConstants, NEW i, NEW ts \in Calling, NEW n \in Counters, NEW m \in Counters, NEW b \in Blocks,
         NEW failed \in BOOLEAN, CountsOK(i, ts, n), i.pc = "analyze", ts[b].at \in {"error", "result"},
         m.completed = n.completed + 1, m.failed = n.failed + (IF failed THEN 1 ELSE 0), m.count <= MaxSuggestions
  PROVE  CountsOK(i, [ts EXCEPT ![b] = Delivered(failed)], m)
<1> DEFINE us == [ts EXCEPT ![b] = Delivered(failed)]
<1>1. /\ us \in Calling
      /\ Cardinality(Finished(us)) = Cardinality(Finished(ts)) + 1
      /\ Cardinality(Errors(us)) = Cardinality(Errors(ts)) + IF failed THEN 1 ELSE 0
      /\ Live(us) = Live(ts)
  BY ResultIsSent
<1> HIDE DEF us
<1>2. Cardinality(Finished(us)) <= Cardinality(Blocks)
  BY <1>1, CallsAreCounted
<1>3. n.completed = Cardinality(Finished(ts)) /\ n.failed = Cardinality(Errors(ts))
  BY DEF CountsOK, Counting
<1>4. Cardinality(Live(us)) <= AiConcurrency
  BY <1>1 DEF CountsOK, Bounded
<1>5. CountsOK(i, us, m)
  BY <1>1, <1>2, <1>3, <1>4 DEF CountsOK, Untouched, Counting, Reported, Bounded
<1> QED BY <1>5 DEF us

\* When every call is closed, each paragraph without a result is reported failed.
LEMMA EndReportsTheRest ==
  ASSUME ImportConstants, NEW i, NEW j, NEW ts \in Calling, NEW n \in Counters, NEW m \in Counters,
         CountsOK(i, ts, n), i.pc = "stop", j.pc = "leave", j.then = "end", Live(ts) = {},
         m.completed = n.completed, m.count = n.count, m.failed = n.failed + Cardinality(Blocks) - n.completed
  PROVE  CountsOK(j, ts, m)
<1>1. n.completed = Cardinality(Finished(ts)) /\ n.failed = Cardinality(Errors(ts))
  BY DEF CountsOK, Counting
<1>2. Cardinality(Extracted(ts)) + m.failed = Cardinality(Blocks)
  BY <1>1, CallsAreCounted
<1> QED BY <1>2 DEF CountsOK, Untouched, Counting, Reported, Bounded

-----------------------------------------------------------------------------
(* Steps of one import.                                                      *)

\* What a step of import r leaves alone: the other imports.
OthersStay(r) ==
  \A q \in Imports \ {r} : /\ imp'[q] = imp[q] /\ task'[q] = task[q] /\ tally'[q] = tally[q]
                           /\ child'[q] = child[q] /\ folder'[q] = folder[q]

\* It is enough to look at the import that moves, once the slots are in order.
LEMMA StepOfOne ==
  ASSUME ImportInv, ImportShape', SlotsOK', NEW r \in Imports, OthersStay(r),
         ParserOK(r)', CountsOK(imp[r], task[r], tally[r])'
  PROVE  ImportInv'
<1>1. ASSUME NEW q \in Imports \ {r}
      PROVE  ParserOK(q)' /\ CountsOK(imp[q], task[q], tally[q])'
  <2>1. /\ imp'[q] = imp[q] /\ task'[q] = task[q] /\ tally'[q] = tally[q]
        /\ child'[q] = child[q] /\ folder'[q] = folder[q]
    BY DEF OthersStay
  <2>2. ParserOK(q) /\ CountsOK(imp[q], task[q], tally[q])
    BY DEF ImportInv
  <2> QED BY <2>1, <2>2 DEF ParserOK, FolderLocked
<1> QED BY <1>1 DEF ImportInv

\* The slots stay in order while no slot file changes and nobody enters or leaves one.
LEMMA SlotsKept ==
  ASSUME ImportInv, UNCHANGED slot, ImportShape', NEW r \in Imports, OthersStay(r),
         InSlot(imp'[r].pc) <=> InSlot(imp[r].pc), (imp'[r].pc = "unlock") <=> (imp[r].pc = "unlock"),
         imp'[r].account = imp[r].account, imp'[r].pc = "scanned" => imp[r].account # Nobody
  PROVE  SlotsOK'
<1>1. \A q \in Imports : /\ InSlot(imp'[q].pc) <=> InSlot(imp[q].pc)
                         /\ (imp'[q].pc = "unlock") <=> (imp[q].pc = "unlock")
                         /\ imp'[q].account = imp[q].account
                         /\ imp'[q].pc = "scanned" => imp[q].account # Nobody
  BY DEF OthersStay, ImportInv, SlotsOK, HasSlot
<1>2. \A i \in SlotFiles : slot[i].holder \in Imports \cup {Nobody}
  BY DEF ImportInv, ImportShape, SlotType
<1>3. SlotsOK
  BY DEF ImportInv
<1>4. \A i \in SlotFiles : SlotHeld(i)' /\ SlotMarked(i)'
  BY <1>1, <1>2, <1>3 DEF SlotsOK, SlotHeld, SlotMarked
<1>5. SlotsApart'
  BY <1>3 DEF SlotsOK, SlotsApart
<1>6. \A q \in Imports : HasSlot(q)'
  BY <1>1, <1>3 DEF SlotsOK, HasSlot
<1> QED BY <1>4, <1>5, <1>6 DEF SlotsOK

\* An import that takes a free slot, which it marks with its account.
LEMMA SlotTaken ==
  ASSUME ImportConstants, ImportInv, ImportShape', NEW r \in Imports, OthersStay(r), NEW a \in ImportAccounts,
         TakeSlot(r, a), ~InSlot(imp[r].pc), InSlot(imp'[r].pc), imp'[r].pc # "unlock", imp'[r].account = a
  PROVE  SlotsOK'
<1>1. PICK k \in SlotFiles : slot[k].holder = Nobody /\ slot' = [slot EXCEPT ![k] = [holder |-> r, owner |-> a]]
  BY DEF TakeSlot
<1>2. /\ slot'[k].holder = r /\ slot'[k].owner = a
      /\ \A i \in SlotFiles \ {k} : slot'[i] = slot[i]
  BY <1>1 DEF ImportInv, ImportShape, SlotType
<1>3. SlotsOK /\ r # Nobody /\ a # Nobody /\ (\A i \in SlotFiles : slot[i].holder # Nobody => slot[i].owner # a)
  BY DEF ImportInv, ImportConstants, TakeSlot, OwnerRunning
<1>4. \A i \in SlotFiles : slot[i].holder # r /\ slot[i].holder \in Imports \cup {Nobody}
  BY <1>3 DEF SlotsOK, SlotHeld, ImportInv, ImportShape, SlotType
<1>5. \A q \in Imports \ {r} : imp'[q] = imp[q]
  BY DEF OthersStay
<1>6. \A i \in SlotFiles : SlotHeld(i)' /\ SlotMarked(i)'
  <2>1. SlotHeld(k)' /\ SlotMarked(k)'
    BY <1>2, <1>3 DEF SlotHeld, SlotMarked
  <2>2. ASSUME NEW i \in SlotFiles \ {k} PROVE SlotHeld(i)' /\ SlotMarked(i)'
    <3>1. slot'[i] = slot[i] /\ (slot[i].holder # Nobody => imp'[slot[i].holder] = imp[slot[i].holder])
      BY <1>2, <1>4, <1>5
    <3>2. SlotHeld(i) /\ SlotMarked(i)
      BY <1>3 DEF SlotsOK
    <3> QED BY <3>1, <3>2 DEF SlotHeld, SlotMarked
  <2> QED BY <2>1, <2>2
<1>7. SlotsApart'
  BY <1>2, <1>3, <1>4 DEF SlotsOK, SlotsApart
<1>8. \A q \in Imports : HasSlot(q)'
  <2>1. HasSlot(r)'
    BY <1>2, <1>3 DEF HasSlot
  <2>2. ASSUME NEW q \in Imports \ {r} PROVE HasSlot(q)'
    <3>1. HasSlot(q)
      BY <1>3 DEF SlotsOK
    <3>2. \A i \in SlotFiles : slot[i].holder = q => slot'[i].holder = q
      BY <1>1, <1>2, <1>3, <2>2 DEF ImportConstants
    <3> QED BY <3>1, <3>2, <1>5 DEF HasSlot
  <2> QED BY <2>1, <2>2
<1> QED BY <1>6, <1>7, <1>8 DEF SlotsOK

\* An import whose slot files are all let go.
LEMMA SlotsLeft ==
  ASSUME ImportConstants, ImportInv, ImportShape', NEW r \in Imports, OthersStay(r), ~InSlot(imp'[r].pc),
         imp'[r].pc = "scanned" => imp'[r].account # Nobody,
         slot' = [i \in SlotFiles |-> IF i \in MySlots(r) THEN [slot[i] EXCEPT !.holder = Nobody] ELSE slot[i]]
  PROVE  SlotsOK'
<1>1. SlotsOK /\ r # Nobody
  BY DEF ImportInv, ImportConstants
<1>2. \A i \in SlotFiles : IF slot[i].holder = r THEN slot'[i].holder = Nobody /\ slot'[i].owner = slot[i].owner
                           ELSE slot'[i] = slot[i]
  BY DEF MySlots, ImportInv, ImportShape, SlotType
<1>3. \A q \in Imports \ {r} : imp'[q] = imp[q]
  BY DEF OthersStay
<1>4. \A i \in SlotFiles : slot[i].holder \in Imports \cup {Nobody}
  BY DEF ImportInv, ImportShape, SlotType
<1>5. ASSUME NEW i \in SlotFiles PROVE SlotHeld(i)' /\ SlotMarked(i)'
  <2>1. SlotHeld(i) /\ SlotMarked(i)
    BY <1>1 DEF SlotsOK
  <2>2. CASE slot[i].holder \in {r, Nobody}
    BY <2>2, <1>2 DEF SlotHeld, SlotMarked
  <2>3. CASE slot[i].holder \notin {r, Nobody}
    BY <2>1, <2>3, <1>2, <1>3, <1>4 DEF SlotHeld, SlotMarked
  <2> QED BY <2>2, <2>3
<1>6. SlotsApart'
  BY <1>1, <1>2 DEF SlotsOK, SlotsApart
<1>7. \A q \in Imports : HasSlot(q)'
  <2>1. HasSlot(r)'
    BY DEF HasSlot
  <2>2. ASSUME NEW q \in Imports \ {r} PROVE HasSlot(q)'
    <3>1. HasSlot(q)
      BY <1>1 DEF SlotsOK
    <3>2. \A i \in SlotFiles : slot[i].holder = q => slot'[i].holder = q
      BY <1>2, <2>2
    <3> QED BY <3>1, <3>2, <1>3 DEF HasSlot
  <2> QED BY <2>1, <2>2
<1> QED BY <1>5, <1>6, <1>7 DEF SlotsOK

\* Going to another state, or into the finally of the slot.
LEMMA Goes ==
  ASSUME ImpType, NEW r \in Imports, NEW pc \in ImportStates, Goto(r, pc)
  PROVE  /\ ImpType' /\ imp'[r].pc = pc /\ imp'[r].account = imp[r].account /\ imp'[r].then = imp[r].then
         /\ \A q \in Imports \ {r} : imp'[q] = imp[q]
BY DEF ImpType, Goto

\* And into the finally of the slot, to go on from there.
LEMMA Leaves ==
  ASSUME ImpType, NEW r \in Imports, NEW then \in {"end", "scanned"}, Leave(r, then)
  PROVE  /\ ImpType' /\ imp'[r].pc = "leave" /\ imp'[r].account = imp[r].account /\ imp'[r].then = then
         /\ \A q \in Imports \ {r} : imp'[q] = imp[q]
BY DEF ImpType, Leave, ImportStates

\* A scan begins, with a slot or without.
LEMMA StartScanOK ==
  ASSUME ImportConstants, ImportInv, NEW r \in Imports, NEW a \in ImportAccounts, NEW ai \in BOOLEAN,
         StartScan(r, a, ai)
  PROVE  ImportInv'
<1>1. imp[r].pc = "new" /\ child' = child /\ task' = task /\ tally' = tally /\ ImportShape
  BY DEF StartScan, ImportInv
<1>2. CountsOK(imp[r], task[r], tally[r]) /\ ParserOK(r)
  BY DEF ImportInv
<1>3. CASE /\ TakeSlot(r, a)
           /\ imp' = [imp EXCEPT ![r] = [pc |-> "upload", account |-> a, ai |-> ai, then |-> "end"]]
           /\ folder' = [folder EXCEPT ![r] = "fresh"]
  <2>1. /\ ImpType' /\ imp'[r].pc = "upload" /\ imp'[r].account = a
        /\ \A q \in Imports \ {r} : imp'[q] = imp[q]
    BY <1>1, <1>3 DEF ImportShape, ImpType, ImportStates
  <2>2. ChildType' /\ folder'[r] = "fresh" /\ \A q \in Imports \ {r} : folder'[q] = folder[q]
    BY <1>1, <1>3 DEF ImportShape, ChildType
  <2>3. SlotType'
    BY <1>1, <1>3 DEF TakeSlot, ImportShape, SlotType
  <2>4. ImportShape' /\ OthersStay(r)
    BY <1>1, <2>1, <2>2, <2>3 DEF ImportShape, TaskType, TallyType, OthersStay
  <2>5. SlotsOK'
    BY <1>1, <1>3, <2>1, <2>4, SlotTaken DEF InSlot
  <2>6. ParserOK(r)'
    BY <1>1, <1>2, <2>1, <2>2 DEF ParserOK
  <2>7. Moves(imp[r], imp'[r])
    BY <1>1, <2>1 DEF Moves
  <2>8. CountsOK(imp[r], task[r], tally[r])'
    BY <1>1, <1>2, <2>7, MovesKeepCounts
  <2> QED BY <2>4, <2>5, <2>6, <2>8, StepOfOne
<1>4. CASE Goto(r, "end") /\ UNCHANGED <<slot, folder>>
  <2>1. /\ ImpType' /\ imp'[r].pc = "end" /\ imp'[r].account = imp[r].account
        /\ \A q \in Imports \ {r} : imp'[q] = imp[q]
    BY <1>1, <1>4, Goes DEF ImportShape, ImportStates
  <2>2. ImportShape' /\ OthersStay(r)
    BY <1>1, <1>4, <2>1 DEF ImportShape, SlotType, ChildType, TaskType, TallyType, OthersStay
  <2>3. SlotsOK'
    BY <1>1, <1>4, <2>1, <2>2, SlotsKept DEF InSlot
  <2>4. ParserOK(r)'
    BY <1>1, <1>2, <1>4, <2>1 DEF ParserOK, FolderLocked
  <2>5. Moves(imp[r], imp'[r])
    BY <1>1, <2>1 DEF Moves
  <2>6. CountsOK(imp[r], task[r], tally[r])'
    BY <1>1, <1>2, <2>5, MovesKeepCounts
  <2> QED BY <2>2, <2>3, <2>4, <2>6, StepOfOne
<1> QED BY <1>3, <1>4 DEF StartScan

ScanStates == {"upload", "parse", "match"}

\* Upload, parse and match: the scan goes on or is left, with or without a parser and a folder.
LEMMA ScanStepOK ==
  ASSUME ImportConstants, ImportInv, NEW r \in Imports, UNCHANGED <<slot, task, tally>>, ChildType',
         \A q \in Imports \ {r} : child'[q] = child[q] /\ folder'[q] = folder[q],
         imp[r].pc \in ScanStates,
         (\E pc \in {"parse", "match"} : Goto(r, pc)) \/ (\E then \in {"end", "scanned"} : Leave(r, then)),
         ParserOK(r)'
  PROVE  ImportInv'
<1>1. /\ ImpType' /\ imp'[r].pc \in {"parse", "match", "leave"} /\ imp'[r].account = imp[r].account
      /\ \A q \in Imports \ {r} : imp'[q] = imp[q]
  <2>1. ImpType
    BY DEF ImportInv, ImportShape
  <2>2. CASE \E pc \in {"parse", "match"} : Goto(r, pc)
    <3>1. PICK pc \in {"parse", "match"} : Goto(r, pc)
      BY <2>2
    <3> QED BY <2>1, <3>1, Goes DEF ImportStates
  <2>3. CASE \E then \in {"end", "scanned"} : Leave(r, then)
    <3>1. PICK then \in {"end", "scanned"} : Leave(r, then)
      BY <2>3
    <3> QED BY <2>1, <3>1, Leaves
  <2> QED BY <2>2, <2>3
<1>2. ImportShape' /\ OthersStay(r)
  BY <1>1 DEF ImportInv, ImportShape, SlotType, TaskType, TallyType, OthersStay
<1>3. SlotsOK'
  BY <1>1, <1>2, SlotsKept DEF InSlot, ScanStates
<1>4. Moves(imp[r], imp'[r])
  BY <1>1 DEF Moves, ScanStates
<1>5. CountsOK(imp[r], task[r], tally[r])
  BY DEF ImportInv
<1>6. CountsOK(imp[r], task[r], tally[r])'
  BY <1>4, <1>5, MovesKeepCounts
<1> QED BY <1>2, <1>3, <1>6, StepOfOne

\* The file is written and its parser starts, or the scan is refused.
LEMMA UploadOK == ASSUME ImportConstants, ImportInv, NEW r \in Imports, Upload(r) PROVE ImportInv'
<1>1. imp[r].pc = "upload" /\ UNCHANGED <<slot, task, tally>> /\ ParserOK(r) /\ ChildType
  BY DEF Upload, ImportInv, ImportShape
<1>2. CASE Goto(r, "parse") /\ child' = [child EXCEPT ![r] = "running"] /\ UNCHANGED folder
  <2>1. ChildType' /\ \A q \in Imports \ {r} : child'[q] = child[q] /\ folder'[q] = folder[q]
    BY <1>1, <1>2 DEF ChildType
  <2>2. imp'[r].pc = "parse"
    BY <1>2, Goes DEF ImportInv, ImportShape, ImportStates
  <2>3. ParserOK(r)'
    BY <1>1, <1>2, <2>2 DEF ParserOK, FolderLocked
  <2> QED BY <1>1, <1>2, <2>1, <2>3, ScanStepOK DEF ScanStates
<1>3. CASE Leave(r, "end") /\ folder' = [folder EXCEPT ![r] = "none"] /\ UNCHANGED child
  <2>1. ChildType' /\ \A q \in Imports \ {r} : child'[q] = child[q] /\ folder'[q] = folder[q]
    BY <1>1, <1>3 DEF ChildType
  <2>2. imp'[r].pc = "leave"
    BY <1>3, Leaves DEF ImportInv, ImportShape
  <2>3. ParserOK(r)'
    BY <1>1, <1>3, <2>2 DEF ParserOK, FolderLocked
  <2> QED BY <1>1, <1>3, <2>1, <2>3, ScanStepOK DEF ScanStates
<1> QED BY <1>2, <1>3 DEF Upload

\* The parser ends or is killed, and its folder stays for the matching.
LEMMA ParseOK == ASSUME ImportConstants, ImportInv, NEW r \in Imports, Parse(r) PROVE ImportInv'
<1>1. /\ imp[r].pc = "parse" /\ UNCHANGED <<slot, task, tally>> /\ ParserOK(r) /\ ChildType
      /\ child' = [child EXCEPT ![r] = "none"]
  BY DEF Parse, ParserAfter, ImportInv, ImportShape
<1>2. CASE Goto(r, "match") /\ UNCHANGED folder
  <2>1. ChildType' /\ child'[r] = "none" /\ \A q \in Imports \ {r} : child'[q] = child[q] /\ folder'[q] = folder[q]
    BY <1>1, <1>2 DEF ChildType
  <2>2. imp'[r].pc = "match"
    BY <1>2, Goes DEF ImportInv, ImportShape, ImportStates
  <2>3. ParserOK(r)'
    BY <1>1, <1>2, <2>1, <2>2 DEF ParserOK, FolderLocked
  <2> QED BY <1>1, <1>2, <2>1, <2>3, ScanStepOK DEF ScanStates
<1>3. CASE Leave(r, "end") /\ folder' = [folder EXCEPT ![r] = "none"]
  <2>1. ChildType' /\ child'[r] = "none" /\ \A q \in Imports \ {r} : child'[q] = child[q] /\ folder'[q] = folder[q]
    BY <1>1, <1>3 DEF ChildType
  <2>2. imp'[r].pc = "leave"
    BY <1>3, Leaves DEF ImportInv, ImportShape
  <2>3. ParserOK(r)'
    BY <2>1, <2>2 DEF ParserOK, FolderLocked
  <2> QED BY <1>1, <1>3, <2>1, <2>3, ScanStepOK DEF ScanStates
<1> QED BY <1>2, <1>3 DEF Parse

\* The private folder goes when the pages are matched, or when they are not.
LEMMA MatchOK == ASSUME ImportConstants, ImportInv, NEW r \in Imports, Match(r) PROVE ImportInv'
<1>1. /\ imp[r].pc = "match" /\ UNCHANGED <<slot, child, task, tally>> /\ ParserOK(r) /\ ChildType
      /\ folder' = [folder EXCEPT ![r] = "none"]
  BY DEF Match, ImportInv, ImportShape
<1>2. PICK then \in {"end", "scanned"} : Leave(r, then)
  BY DEF Match
<1>3. ChildType' /\ \A q \in Imports \ {r} : child'[q] = child[q] /\ folder'[q] = folder[q]
  BY <1>1 DEF ChildType
<1>4. imp'[r].pc = "leave"
  BY <1>2, Leaves DEF ImportInv, ImportShape
<1>5. ParserOK(r)'
  BY <1>1, <1>4 DEF ParserOK, FolderLocked
<1> QED BY <1>1, <1>2, <1>3, <1>5, ScanStepOK DEF ScanStates

\* The parser and the folder of an import change by themselves.
LEMMA LeftoverStepOK ==
  ASSUME ImportConstants, ImportInv, NEW r \in Imports, UNCHANGED <<slot, imp, task, tally>>, ChildType',
         \A q \in Imports \ {r} : child'[q] = child[q] /\ folder'[q] = folder[q], ParserOK(r)'
  PROVE  ImportInv'
<1>1. ImportShape' /\ OthersStay(r)
  BY DEF ImportInv, ImportShape, SlotType, ImpType, TaskType, TallyType, OthersStay
<1>2. imp'[r].pc = "scanned" => imp[r].account # Nobody
  BY DEF ImportInv, SlotsOK, HasSlot
<1>3. SlotsOK'
  BY <1>1, <1>2, SlotsKept
<1>4. CountsOK(imp[r], task[r], tally[r])'
  BY DEF ImportInv
<1> QED BY <1>1, <1>3, <1>4, StepOfOne

\* What a crashed process left behind ends or is swept away by itself.
LEMMA LeftoversOK ==
  ASSUME ImportConstants, ImportInv, NEW r \in Imports, ChildExits(r) \/ ChildAlarm(r) \/ Age(r) \/ Sweep(r)
  PROVE  ImportInv'
<1>1. UNCHANGED <<slot, imp, task, tally>> /\ ChildType /\ ParserOK(r)
  BY DEF ChildExits, ChildAlarm, Age, Sweep, ImportInv, ImportShape
<1>2. ChildType' /\ \A q \in Imports \ {r} : child'[q] = child[q] /\ folder'[q] = folder[q]
  BY <1>1 DEF ChildExits, ChildAlarm, Age, Sweep, ChildType
<1>3. ParserOK(r)'
  BY <1>1 DEF ChildExits, ChildAlarm, Age, Sweep, ChildType, ParserOK, FolderLocked
<1> QED BY <1>1, <1>2, <1>3, LeftoverStepOK

\* The owner is cleared while the slot is still locked.
LEMMA ClearOwnerOK == ASSUME ImportConstants, ImportInv, NEW r \in Imports, ClearOwner(r) PROVE ImportInv'
<1>1. imp[r].pc = "leave" /\ UNCHANGED <<child, folder, task, tally>> /\ SlotsOK /\ ImportShape
  BY DEF ClearOwner, ImportInv
<1>2. /\ ImpType' /\ imp'[r].pc = "unlock" /\ imp'[r].account = imp[r].account /\ imp'[r].then = imp[r].then
      /\ \A q \in Imports \ {r} : imp'[q] = imp[q]
  BY <1>1, Goes DEF ClearOwner, ImportShape, ImportStates
<1>3. /\ SlotType' /\ \A i \in SlotFiles : slot'[i].holder = slot[i].holder
      /\ \A i \in SlotFiles : slot'[i].owner = IF slot[i].holder = r THEN Nobody ELSE slot[i].owner
  BY <1>1 DEF ClearOwner, MySlots, ImportShape, SlotType
<1>4. ImportShape' /\ OthersStay(r)
  BY <1>1, <1>2, <1>3 DEF ImportShape, ChildType, TaskType, TallyType, OthersStay
<1>5. \A i \in SlotFiles : slot[i].holder \in Imports \cup {Nobody}
  BY <1>1 DEF ImportShape, SlotType
<1>6. SlotsOK'
  <2>1. ASSUME NEW i \in SlotFiles PROVE SlotHeld(i)' /\ SlotMarked(i)'
    <3>1. SlotHeld(i) /\ SlotMarked(i)
      BY <1>1 DEF SlotsOK
    <3>2. CASE slot[i].holder = r
      BY <3>2, <1>2, <1>3 DEF SlotHeld, SlotMarked, InSlot
    <3>3. CASE slot[i].holder # r
      BY <3>1, <3>3, <1>2, <1>3, <1>5 DEF SlotHeld, SlotMarked
    <3> QED BY <3>2, <3>3
  <2>2. SlotsApart'
    BY <1>1, <1>3 DEF SlotsOK, SlotsApart
  <2>3. \A q \in Imports : HasSlot(q)'
    BY <1>1, <1>2, <1>3 DEF SlotsOK, HasSlot, InSlot
  <2> QED BY <2>1, <2>2, <2>3 DEF SlotsOK
<1>7. ParserOK(r)'
  BY <1>1, <1>2 DEF ImportInv, ParserOK, FolderLocked
<1>8. CountsOK(imp[r], task[r], tally[r]) /\ Moves(imp[r], imp'[r])
  BY <1>1, <1>2 DEF ImportInv, Moves
<1>9. CountsOK(imp[r], task[r], tally[r])'
  BY <1>1, <1>8, MovesKeepCounts
<1> QED BY <1>4, <1>6, <1>7, <1>9, StepOfOne

\* The lock goes last.
LEMMA UnlockOK == ASSUME ImportConstants, ImportInv, NEW r \in Imports, Unlock(r) PROVE ImportInv'
<1>1. imp[r].pc = "unlock" /\ UNCHANGED <<child, folder, task, tally>> /\ SlotsOK /\ ImportShape
  BY DEF Unlock, ImportInv
<1>2. imp[r].then \in {"end", "scanned"}
  BY <1>1 DEF ImportShape, ImpType
<1>3. /\ ImpType' /\ imp'[r].pc = imp[r].then /\ imp'[r].account = imp[r].account
      /\ \A q \in Imports \ {r} : imp'[q] = imp[q]
  BY <1>1, <1>2, Goes DEF Unlock, ImportShape, ImportStates
<1>4. SlotType'
  BY <1>1 DEF Unlock, MySlots, ImportShape, SlotType
<1>5. ImportShape' /\ OthersStay(r)
  BY <1>1, <1>3, <1>4 DEF ImportShape, ChildType, TaskType, TallyType, OthersStay
<1>6. imp[r].account # Nobody
  BY <1>1 DEF SlotsOK, HasSlot, InSlot
<1>7. SlotsOK'
  BY <1>2, <1>3, <1>5, <1>6, SlotsLeft DEF Unlock, InSlot
<1>8. ParserOK(r)'
  BY <1>1, <1>2, <1>3 DEF ImportInv, ParserOK, FolderLocked
<1>9. CountsOK(imp[r], task[r], tally[r]) /\ Moves(imp[r], imp'[r])
  BY <1>1, <1>2, <1>3 DEF ImportInv, Moves
<1>10. CountsOK(imp[r], task[r], tally[r])'
  BY <1>1, <1>9, MovesKeepCounts
<1> QED BY <1>5, <1>7, <1>8, <1>10, StepOfOne

\* The web worker dies, in any state.
LEMMA WorkerDiesOK == ASSUME ImportConstants, ImportInv, NEW r \in Imports, WorkerDies(r) PROVE ImportInv'
<1>1. UNCHANGED <<child, folder, tally>> /\ ImportShape /\ task' = [task EXCEPT ![r] = NoTasks]
  BY DEF WorkerDies, ImportInv
<1>2. /\ ImpType' /\ imp'[r].pc = "crashed" /\ \A q \in Imports \ {r} : imp'[q] = imp[q]
  BY <1>1, Goes DEF WorkerDies, ImportShape, ImportStates
<1>3. /\ TaskType' /\ task'[r] = NoTasks /\ \A q \in Imports \ {r} : task'[q] = task[q]
  BY <1>1, NoCallsAreCounted DEF ImportShape, TaskType, Calling
<1>4. SlotType'
  BY <1>1 DEF WorkerDies, MySlots, ImportShape, SlotType
<1>5. ImportShape' /\ OthersStay(r)
  BY <1>1, <1>2, <1>3, <1>4 DEF ImportShape, ChildType, TallyType, OthersStay
<1>6. SlotsOK'
  BY <1>2, <1>5, SlotsLeft DEF WorkerDies, InSlot
<1>7. ParserOK(r)'
  BY <1>1, <1>2 DEF ParserOK, FolderLocked
<1>8. CountsOK(imp[r], task[r], tally[r])'
  BY <1>1, <1>2, <1>3, CrashStopsCounting DEF ImportInv
<1> QED BY <1>5, <1>6, <1>7, <1>8, StepOfOne

\* The analysis takes a slot again, or the import ends.
LEMMA StartAnalysisOK == ASSUME ImportConstants, ImportInv, NEW r \in Imports, StartAnalysis(r) PROVE ImportInv'
<1>1. imp[r].pc = "scanned" /\ UNCHANGED <<child, folder, tally>> /\ SlotsOK /\ ImportShape
  BY DEF StartAnalysis, ImportInv
<1>2. imp[r].account \in ImportAccounts
  BY <1>1 DEF SlotsOK, HasSlot, ImportShape, ImpType
<1>3. CountsOK(imp[r], task[r], tally[r]) /\ ParserOK(r)
  BY DEF ImportInv
<1>4. CASE /\ TakeSlot(r, imp[r].account) /\ Goto(r, "analyze")
           /\ task' = [task EXCEPT ![r] = [b \in Blocks |-> At("queued")]]
  <2>1. /\ ImpType' /\ imp'[r].pc = "analyze" /\ imp'[r].account = imp[r].account
        /\ \A q \in Imports \ {r} : imp'[q] = imp[q]
    BY <1>1, <1>4, Goes DEF ImportShape, ImportStates
  <2>2. /\ TaskType' /\ task'[r] = [b \in Blocks |-> At("queued")] /\ \A q \in Imports \ {r} : task'[q] = task[q]
    BY <1>1, <1>4, NoCallsAreCounted DEF ImportShape, TaskType, Calling
  <2>3. SlotType'
    BY <1>1, <1>2, <1>4 DEF TakeSlot, ImportShape, SlotType
  <2>4. ImportShape' /\ OthersStay(r)
    BY <1>1, <2>1, <2>2, <2>3 DEF ImportShape, ChildType, TallyType, OthersStay
  <2>5. SlotsOK'
    BY <1>1, <1>2, <1>4, <2>1, <2>4, SlotTaken DEF InSlot
  <2>6. ParserOK(r)'
    BY <1>1, <1>3, <2>1 DEF ParserOK, FolderLocked
  <2>7. CountsOK(imp[r], task[r], tally[r])'
    BY <1>1, <1>3, <2>1, <2>2, AnalysisCountsFromZero
  <2> QED BY <2>4, <2>5, <2>6, <2>7, StepOfOne
<1>5. CASE Goto(r, "end") /\ UNCHANGED <<slot, task>>
  <2>1. /\ ImpType' /\ imp'[r].pc = "end" /\ imp'[r].account = imp[r].account
        /\ \A q \in Imports \ {r} : imp'[q] = imp[q]
    BY <1>1, <1>5, Goes DEF ImportShape, ImportStates
  <2>2. ImportShape' /\ OthersStay(r)
    BY <1>1, <1>5, <2>1 DEF ImportShape, SlotType, ChildType, TaskType, TallyType, OthersStay
  <2>3. SlotsOK'
    BY <1>1, <1>5, <2>1, <2>2, SlotsKept DEF InSlot
  <2>4. ParserOK(r)'
    BY <1>1, <1>3, <2>1 DEF ParserOK, FolderLocked
  <2>5. CountsOK(imp[r], task[r], tally[r])'
    BY <1>1, <1>3, <1>5, <2>1, MovesKeepCounts DEF Moves
  <2> QED BY <2>2, <2>3, <2>4, <2>5, StepOfOne
<1> QED BY <1>4, <1>5 DEF StartAnalysis

-----------------------------------------------------------------------------
(* Steps of the analysis.                                                    *)

\* A step of one model call, with the counters it moves.
LEMMA CallStepOK ==
  ASSUME ImportConstants, ImportInv, NEW r \in Imports, UNCHANGED <<slot, imp, child, folder>>,
         imp[r].pc \in {"analyze", "stop"}, TaskType', TallyType',
         \A q \in Imports \ {r} : task'[q] = task[q] /\ tally'[q] = tally[q],
         CountsOK(imp[r], task'[r], tally'[r])
  PROVE  ImportInv'
<1>1. ImportShape' /\ OthersStay(r)
  BY DEF ImportInv, ImportShape, SlotType, ImpType, ChildType, OthersStay
<1>2. SlotsOK'
  BY <1>1, SlotsKept
<1>3. ParserOK(r)'
  BY DEF ImportInv, ParserOK, FolderLocked
<1> QED BY <1>1, <1>2, <1>3, StepOfOne

\* A call begins while fewer than AiConcurrency run.
LEMMA CallModelOK ==
  ASSUME ImportConstants, ImportInv, NEW r \in Imports, NEW b \in Blocks, CallModel(r, b)
  PROVE  ImportInv'
<1>1. /\ imp[r].pc = "analyze" /\ task[r][b].at = "queued" /\ Cardinality(Live(task[r])) < AiConcurrency
      /\ task' = [task EXCEPT ![r][b].at = "running"] /\ UNCHANGED <<slot, imp, child, folder, tally>>
  BY DEF CallModel, MayCall, Asked, Live
<1>2. task[r] \in Calling /\ TaskType /\ TallyType /\ CountsOK(imp[r], task[r], tally[r])
  BY DEF ImportInv, ImportShape, TaskType, Calling
<1> DEFINE us == [task[r] EXCEPT ![b].at = "running"]
<1>3. /\ us \in Calling /\ Finished(us) = Finished(task[r]) /\ Errors(us) = Errors(task[r])
      /\ Cardinality(Live(us)) = Cardinality(Live(task[r])) + 1
  BY <1>1, <1>2, CallIsLive
<1>4. task'[r] = us /\ task' = [task EXCEPT ![r] = us]
  BY <1>1, <1>2 DEF TaskType
<1> HIDE DEF us
<1>5. TaskType' /\ \A q \in Imports \ {r} : task'[q] = task[q]
  BY <1>2, <1>3, <1>4 DEF TaskType, Calling
<1>6. Cardinality(Live(us)) <= AiConcurrency
  BY <1>1, <1>2, <1>3, CallsAreCounted DEF ImportConstants
<1>7. CountsOK(imp[r], us, tally[r])
  BY <1>1, <1>2, <1>3, <1>6, CallStepKeepsCounts
<1> QED BY <1>1, <1>2, <1>4, <1>5, <1>7, CallStepOK DEF TallyType

\* Another outcome of a call that was not sent.
LEMMA OutcomeOK ==
  ASSUME ImportConstants, ImportInv, NEW r \in Imports, NEW b \in Blocks,
         NEW x \in [at : TaskStates, found : 0 .. MaxFound],
         task[r][b].at \notin {"sent", "sentError"}, x.at \notin {"sent", "sentError", "running"},
         imp[r].pc \in {"analyze", "stop"},
         task' = [task EXCEPT ![r][b] = x], UNCHANGED <<slot, imp, child, folder, tally>>
  PROVE  ImportInv'
<1>1. task[r] \in Calling /\ TaskType /\ TallyType /\ CountsOK(imp[r], task[r], tally[r])
  BY DEF ImportInv, ImportShape, TaskType, Calling
<1> DEFINE us == [task[r] EXCEPT ![b] = x]
<1>2. /\ Finished(us) = Finished(task[r]) /\ Errors(us) = Errors(task[r])
      /\ Cardinality(Live(us)) <= Cardinality(Live(task[r])) /\ us \in Calling
  BY <1>1, OutcomeKeepsCounts
<1>3. task'[r] = us /\ task' = [task EXCEPT ![r] = us]
  BY <1>1 DEF TaskType
<1> HIDE DEF us
<1>4. TaskType' /\ \A q \in Imports \ {r} : task'[q] = task[q]
  BY <1>1, <1>2, <1>3 DEF TaskType, Calling
<1>5. Cardinality(Live(task[r])) <= AiConcurrency
  BY <1>1 DEF CountsOK, Bounded
<1>6. Cardinality(Live(us)) <= AiConcurrency
  BY <1>1, <1>2, <1>5, CallsAreCounted DEF ImportConstants
<1>7. CountsOK(imp[r], us, tally[r])
  BY <1>1, <1>2, <1>6, CallStepKeepsCounts
<1> QED BY <1>1, <1>3, <1>4, <1>7, CallStepOK DEF TallyType

\* A call returns paragraphs or an error, which are not sent yet.
LEMMA ReturnModelOK ==
  ASSUME ImportConstants, ImportInv, NEW r \in Imports, NEW b \in Blocks, NEW x \in Outcomes, ReturnModel(r, b, x)
  PROVE  ImportInv'
<1>1. x \in [at : TaskStates, found : 0 .. MaxFound] /\ x.at \in {"error", "result"}
  BY DEF Outcomes, At, TaskStates, ImportConstants
<1> QED BY <1>1, OutcomeOK DEF ReturnModel

\* A call that is still open is closed when the analysis stops.
LEMMA CloseCallOK ==
  ASSUME ImportConstants, ImportInv, NEW r \in Imports, NEW b \in Blocks, CloseCall(r, b)
  PROVE  ImportInv'
<1>1. At("cancelled") \in [at : TaskStates, found : 0 .. MaxFound] /\ At("cancelled").at = "cancelled"
  BY DEF At, TaskStates, ImportConstants
<1> QED BY <1>1, OutcomeOK DEF CloseCall

\* A finished paragraph is counted, with as many suggestions as there is room for.
LEMMA DeliverOK ==
  ASSUME ImportConstants, ImportInv, NEW r \in Imports, NEW b \in Blocks, Deliver(r, b)
  PROVE  ImportInv'
<1> DEFINE n == task[r][b].found
           failed == task[r][b].at = "error"
           us == [task[r] EXCEPT ![b] = Delivered(failed)]
<1>1. /\ imp[r].pc = "analyze" /\ task[r][b].at \in {"error", "result"} /\ failed \in BOOLEAN
      /\ task' = [task EXCEPT ![r][b] = Delivered(failed)] /\ UNCHANGED <<slot, imp, child, folder>>
  BY DEF Deliver
<1>2. tally' = [tally EXCEPT ![r] = [completed |-> @.completed + 1,
                                    failed |-> @.failed + (IF failed THEN 1 ELSE 0),
                                    count |-> @.count + Admitted(r, n),
                                    omitted |-> @.omitted + n - Admitted(r, n)]]
  BY DEF Deliver
<1>3. task[r] \in Calling /\ TaskType /\ TallyType /\ CountsOK(imp[r], task[r], tally[r]) /\ tally[r] \in Counters
  BY DEF ImportInv, ImportShape, TaskType, TallyType, Calling, Counters
<1>4. n \in 0 .. MaxFound /\ tally[r].count <= MaxSuggestions
  BY <1>3 DEF Calling, CountsOK, Bounded
<1>5. Admitted(r, n) \in Nat /\ tally[r].count + Admitted(r, n) <= MaxSuggestions
  BY <1>3, <1>4 DEF Admitted, ImportConstants, Counters
<1>6. us \in Calling
  BY <1>1, <1>3, ResultIsSent
<1>7. task'[r] = us /\ task' = [task EXCEPT ![r] = us]
  BY <1>1, <1>3 DEF TaskType
<1> HIDE DEF us, failed, n
<1>8. TaskType' /\ \A q \in Imports \ {r} : task'[q] = task[q]
  BY <1>3, <1>6, <1>7 DEF TaskType, Calling
<1> DEFINE m == [completed |-> tally[r].completed + 1, failed |-> tally[r].failed + (IF failed THEN 1 ELSE 0),
                 count |-> tally[r].count + Admitted(r, n), omitted |-> tally[r].omitted + n - Admitted(r, n)]
<1>a. m \in Counters
  BY <1>3, <1>4, <1>5 DEF Counters
<1>b. tally' = [tally EXCEPT ![r] = m]
  BY <1>2, <1>3 DEF TallyType
<1>9. /\ TallyType' /\ tally'[r] \in Counters /\ \A q \in Imports \ {r} : tally'[q] = tally[q]
      /\ tally'[r].completed = tally[r].completed + 1
      /\ tally'[r].failed = tally[r].failed + (IF failed THEN 1 ELSE 0)
      /\ tally'[r].count = tally[r].count + Admitted(r, n)
  <2>1. tally'[r] = m
    BY <1>3, <1>b DEF TallyType
  <2>2. TallyType' /\ \A q \in Imports \ {r} : tally'[q] = tally[q]
    BY <1>3, <1>a, <1>b DEF TallyType, Counters
  <2> QED BY <1>a, <2>1, <2>2
<1>10. CountsOK(imp[r], [task[r] EXCEPT ![b] = Delivered(failed)], tally'[r])
  BY <1>1, <1>3, <1>5, <1>9, SentResultIsCounted
<1>11. CountsOK(imp[r], us, tally'[r])
  BY <1>10 DEF us
<1> QED BY <1>1, <1>7, <1>8, <1>9, <1>11, CallStepOK

\* The analysis stops: nothing is counted any more.
LEMMA StopAnalysisOK == ASSUME ImportConstants, ImportInv, NEW r \in Imports, StopAnalysis(r) PROVE ImportInv'
<1>1. imp[r].pc = "analyze" /\ UNCHANGED <<slot, child, folder, task, tally>> /\ ImportShape
  BY DEF StopAnalysis, ImportInv
<1>2. /\ ImpType' /\ imp'[r].pc = "stop" /\ imp'[r].account = imp[r].account
      /\ \A q \in Imports \ {r} : imp'[q] = imp[q]
  BY <1>1, Goes DEF StopAnalysis, ImportShape, ImportStates
<1>3. ImportShape' /\ OthersStay(r)
  BY <1>1, <1>2 DEF ImportShape, SlotType, ChildType, TaskType, TallyType, OthersStay
<1>4. SlotsOK'
  BY <1>1, <1>2, <1>3, SlotsKept DEF InSlot
<1>5. ParserOK(r)'
  BY <1>1, <1>2 DEF ImportInv, ParserOK, FolderLocked
<1>6. CountsOK(imp[r], task[r], tally[r])'
  BY <1>1, <1>2, MovesKeepCounts DEF ImportInv, Moves
<1> QED BY <1>3, <1>4, <1>5, <1>6, StepOfOne

\* Every paragraph without a result is reported as failed.
LEMMA EndAnalysisOK == ASSUME ImportConstants, ImportInv, NEW r \in Imports, EndAnalysis(r) PROVE ImportInv'
<1>1. /\ imp[r].pc = "stop" /\ UNCHANGED <<slot, child, folder, task>> /\ ImportShape
      /\ tally' = [tally EXCEPT ![r].failed = @ + Cardinality(Blocks) - tally[r].completed]
  BY DEF EndAnalysis, ImportInv
<1>2. /\ ImpType' /\ imp'[r].pc = "leave" /\ imp'[r].account = imp[r].account /\ imp'[r].then = "end"
      /\ \A q \in Imports \ {r} : imp'[q] = imp[q]
  BY <1>1, Leaves DEF EndAnalysis, ImportShape
<1>3. task[r] \in Calling /\ tally[r] \in Counters /\ CountsOK(imp[r], task[r], tally[r]) /\ TallyType
  BY DEF ImportInv, ImportShape, TaskType, TallyType, Calling, Counters
<1>4. Cardinality(Blocks) \in Nat
  BY <1>3, CallsAreCounted
<1>5. /\ TallyType' /\ tally'[r] \in Counters /\ \A q \in Imports \ {r} : tally'[q] = tally[q]
      /\ tally'[r].completed = tally[r].completed /\ tally'[r].count = tally[r].count
      /\ tally'[r].failed = tally[r].failed + Cardinality(Blocks) - tally[r].completed
  BY <1>1, <1>3, <1>4 DEF TallyType, Counters
<1>6. ImportShape' /\ OthersStay(r)
  BY <1>1, <1>2, <1>5 DEF ImportShape, SlotType, ChildType, TaskType, OthersStay
<1>7. SlotsOK'
  BY <1>1, <1>2, <1>6, SlotsKept DEF InSlot
<1>8. ParserOK(r)'
  BY <1>1, <1>2 DEF ImportInv, ParserOK, FolderLocked
<1>9. Live(task[r]) = {}
  BY DEF EndAnalysis, AllClosed, Live
<1>10. CountsOK(imp[r], task[r], tally[r])'
  BY <1>1, <1>2, <1>3, <1>5, <1>9, EndReportsTheRest
<1> QED BY <1>6, <1>7, <1>8, <1>10, StepOfOne

-----------------------------------------------------------------------------
(* The invariant of the specification, and what it says.                     *)

\* No import has begun, no slot is taken and nothing is counted.
LEMMA ImportInitOK == ASSUME ImportConstants, ImportInit PROVE ImportInv
<1>1. NoTasks \in Calling /\ Live(NoTasks) = {} /\ Cardinality({}) = 0 /\ Cardinality(Blocks) \in Nat
  BY NoCallsAreCounted, FS_CardinalityType DEF ImportConstants
<1>2. SlotType /\ ImpType /\ ChildType
  BY DEF ImportInit, SlotType, ImpType, ChildType, ImportStates
<1>3. TaskType /\ TallyType
  BY <1>1 DEF ImportInit, TaskType, TallyType, Calling, ZeroTally
<1>4. SlotsOK
  BY DEF ImportInit, SlotsOK, SlotHeld, SlotMarked, SlotsApart, HasSlot, InSlot
<1>5. ASSUME NEW r \in Imports PROVE ParserOK(r) /\ CountsOK(imp[r], task[r], tally[r])
  <2>1. imp[r].pc = "new" /\ child[r] = "none" /\ task[r] = NoTasks /\ tally[r] = ZeroTally
    BY DEF ImportInit
  <2>2. ParserOK(r)
    BY <2>1 DEF ParserOK, FolderLocked
  <2>3. ZeroTally.completed = 0 /\ ZeroTally.count = 0
    BY DEF ZeroTally
  <2>4. CountsOK(imp[r], task[r], tally[r])
    BY <1>1, <2>1, <2>3 DEF CountsOK, Untouched, Counting, Reported, Bounded, ImportConstants
  <2> QED BY <2>2, <2>4
<1> QED BY <1>2, <1>3, <1>4, <1>5 DEF ImportInv, ImportShape

\* Every step keeps it.
LEMMA ImportNextOK == ASSUME ImportConstants, ImportInv, [ImportNext]_importVars PROVE ImportInv'
<1>1. CASE UNCHANGED importVars
  BY <1>1 DEF importVars, ImportInv, ImportShape, SlotType, ImpType, ChildType, TaskType, TallyType, SlotsOK,
              SlotHeld, SlotMarked, SlotsApart, HasSlot, ParserOK, FolderLocked
<1>2. CASE \E r \in Imports, a \in ImportAccounts, ai \in BOOLEAN : StartScan(r, a, ai)
  BY <1>2, StartScanOK
<1>3. ASSUME NEW r \in Imports, ImportStep(r)
      PROVE  ImportInv'
  BY <1>3, UploadOK, ParseOK, MatchOK, ClearOwnerOK, UnlockOK, StartAnalysisOK, StopAnalysisOK, EndAnalysisOK,
     CloseCallOK DEF ImportStep
<1>4. ASSUME NEW r \in Imports, ChildExits(r) \/ ChildAlarm(r) \/ Age(r) \/ Sweep(r)
      PROVE  ImportInv'
  BY <1>4, LeftoversOK
<1>5. ASSUME NEW r \in Imports, WorkerDies(r)
      PROVE  ImportInv'
  BY <1>5, WorkerDiesOK
<1>6. ASSUME NEW r \in Imports, NEW b \in Blocks,
             CallModel(r, b) \/ Deliver(r, b) \/ \E outcome \in Outcomes : ReturnModel(r, b, outcome)
      PROVE  ImportInv'
  BY <1>6, CallModelOK, DeliverOK, ReturnModelOK
<1> QED BY <1>1, <1>2, <1>3, <1>4, <1>5, <1>6 DEF ImportNext

\* Working imports hold different slot files of different accounts.
LEMMA SlotsRespectedOK == ASSUME ImportConstants, ImportInv PROVE SlotsRespected
<1> DEFINE W == {r \in Imports : Working(r)}
           held == {i \in SlotFiles : slot[i].holder \in W}
           holder == [i \in held |-> slot[i].holder]
<1>1. \A r \in W : InSlot(imp[r].pc) /\ imp[r].pc # "unlock" /\ r # Nobody
  BY DEF Working, InSlot, ImportConstants
<1>2. \A r \in W : \E i \in SlotFiles : slot[i].holder = r
  BY <1>1 DEF ImportInv, SlotsOK, HasSlot
<1>3. holder \in Surjection(held, W)
  BY <1>2 DEF Surjection
<1>4. held \subseteq SlotFiles
  OBVIOUS
<1>5. IsFiniteSet(held) /\ Cardinality(held) <= Cardinality(SlotFiles)
  BY <1>4, FS_Subset DEF ImportConstants
<1>6. IsFiniteSet(W) /\ Cardinality(W) <= Cardinality(held)
  BY <1>3, <1>5, FS_Surjection
<1>7. Cardinality(W) \in Nat /\ Cardinality(held) \in Nat /\ Cardinality(SlotFiles) \in Nat
  BY <1>5, <1>6, FS_CardinalityType DEF ImportConstants
<1>8. Cardinality(W) <= Cardinality(SlotFiles)
  BY <1>5, <1>6, <1>7
<1>9. ASSUME NEW r \in Imports, NEW q \in Imports, r # q, Working(r), Working(q)
      PROVE  imp[r].account # imp[q].account
  <2>1. r \in W /\ q \in W
    BY <1>9
  <2>2. PICK i \in SlotFiles : slot[i].holder = r
    BY <1>2, <2>1
  <2>3. PICK j \in SlotFiles : slot[j].holder = q
    BY <1>2, <2>1
  <2>4. slot[i].owner = imp[r].account /\ slot[j].owner = imp[q].account /\ slot[i].owner # Nobody
    BY <1>1, <2>1, <2>2, <2>3 DEF ImportInv, SlotsOK, SlotMarked
  <2>5. slot[i].owner = slot[j].owner => slot[i].owner = Nobody
    BY <1>1, <1>9, <2>1, <2>2, <2>3 DEF ImportInv, SlotsOK, SlotsApart
  <2> QED BY <2>4, <2>5
<1> QED BY <1>8, <1>9 DEF SlotsRespected

\* The invariant contains what the runs check of imports.
LEMMA ImportInvIsContained == ASSUME ImportConstants, ImportInv PROVE ImportsContained
<1>1. ASSUME NEW r \in Imports
      PROVE  /\ task[r] \in Calling /\ tally[r] \in Counters /\ CountsOK(imp[r], task[r], tally[r]) /\ ParserOK(r)
             /\ Asked(r) = Live(task[r]) /\ {b \in Blocks : task[r][b].at = "sent"} = Extracted(task[r])
  BY DEF ImportInv, ImportShape, TaskType, TallyType, Calling, Counters, Asked, Live, Extracted
<1>2. ImportTypeOK
  <2>1. \A i \in SlotFiles : /\ slot[i].holder \in Imports \cup {Nobody}
                             /\ slot[i].owner \in ImportAccounts \cup {Nobody}
    BY DEF ImportInv, ImportShape, SlotType
  <2>2. \A r \in Imports : child[r] \in {"none", "running", "exited"} /\ folder[r] \in {"none", "fresh", "old"}
    BY DEF ImportInv, ImportShape, ChildType
  <2>3. Cardinality(Blocks) \in Nat
    BY FS_CardinalityType DEF ImportConstants
  <2>4. \A r \in Imports : tally[r].completed \in 0 .. Cardinality(Blocks)
    BY <1>1, <2>3 DEF Counters, CountsOK, Bounded
  <2> QED BY <2>1, <2>2, <2>4 DEF ImportTypeOK
<1>3. NoStrayParser /\ LiveFoldersKept
  BY <1>1 DEF NoStrayParser, LiveFoldersKept, ParserOK
<1>4. CallsWithinSlot
  <2>1. ASSUME NEW r \in Imports
        PROVE  /\ Cardinality(Asked(r)) <= AiConcurrency
               /\ Asked(r) # {} => \E i \in SlotFiles : slot[i].holder = r /\ slot[i].owner = imp[r].account
    <3>1. Cardinality(Asked(r)) <= AiConcurrency /\ (Asked(r) # {} => imp[r].pc \in {"analyze", "stop"})
      BY <1>1 DEF CountsOK, Bounded
    <3>2. r # Nobody
      BY DEF ImportConstants
    <3>3. imp[r].pc \in {"analyze", "stop"} =>
            \E i \in SlotFiles : slot[i].holder = r /\ slot[i].owner = imp[r].account
      BY <3>2 DEF ImportInv, SlotsOK, HasSlot, SlotMarked, InSlot
    <3> QED BY <3>1, <3>3
  <2> QED BY <2>1 DEF CallsWithinSlot
<1>5. StreamAddsUp
  BY <1>1 DEF StreamAddsUp, CountsOK, Reported, Bounded
<1> QED BY <1>2, <1>3, <1>4, <1>5, SlotsRespectedOK DEF ImportsContained

\* Whatever hangs, dies or disconnects: never more imports than slot files and never two of one
\* account, no parser, folder or model call without the import it serves, and counters
\* that account for every paragraph (ResumeImportService).
THEOREM ImportsAreContained == ASSUME ImportConstants PROVE ImportSpec => []ImportsContained
<1>1. ImportInit => ImportInv
  BY ImportInitOK
<1>2. ImportInv /\ [ImportNext]_importVars => ImportInv'
  BY ImportNextOK
<1>3. ImportInv => ImportsContained
  BY ImportInvIsContained
<1> QED BY <1>1, <1>2, <1>3, PTL DEF ImportSpec

-----------------------------------------------------------------------------
(* The calls of an answer: each executed once, within the budget.            *)

\* Before the model asks for anything nothing is used; while its calls are read, those that
\* wait and those with an output are all of them; otherwise each has its output.
CallsInv ==
  /\ reads = [c \in CallIds |-> reads[c]]
  /\ IsFiniteSet(used) /\ Cardinality(used) <= MaxCalls
  /\ stage \in {"selected", "focused", "planning", "reading", "answering", "done", "gone"}
  /\ stage \in {"selected", "focused"} => used = {} /\ outputs = {}
  /\ stage = "reading" => outputs \cup Waiting = used
  /\ stage \notin {"focused", "reading"} => outputs = used /\ Waiting = {}

\* A call that is over waits no more.
LEMMA CallOver ==
  ASSUME CallsInv, NEW c \in CallIds, reads' = [reads EXCEPT ![c] = [at |-> "none"]]
  PROVE  Waiting' = Waiting \ {c} /\ reads' = [d \in CallIds |-> reads'[d]]
<1>1. reads' = [d \in CallIds |-> reads'[d]] /\ reads'[c].at = "none" /\ \A d \in CallIds \ {c} : reads'[d] = reads[d]
  BY DEF CallsInv
<1> QED BY <1>1 DEF Waiting

\* The calls a round starts with.
LEMMA CallsStart ==
  ASSUME NEW batch, StartReads(batch)
  PROVE  /\ reads' = [d \in CallIds |-> reads'[d]]
         /\ \A d \in CallIds : reads'[d] = IF d \in DOMAIN batch THEN batch[d] ELSE [at |-> "none"]
BY DEF StartReads

\* No more calls than are left.
LEMMA TakenCalls ==
  ASSUME NEW s, s \in Seq(Range(s)), NEW n \in Nat
  PROVE  /\ Len(Take(s, n)) \in Nat /\ Len(Take(s, n)) <= n
         /\ \A i \in 1 .. Len(Take(s, n)) : i \in DOMAIN s /\ Take(s, n)[i] = s[i]
<1> DEFINE t == Take(s, n)
           m == IF n < Len(s) THEN n ELSE Len(s)
<1>1. Len(s) \in Nat /\ DOMAIN s = 1 .. Len(s) /\ s \in [1 .. Len(s) -> Range(s)]
  OBVIOUS
<1>2. m \in Nat /\ m <= n /\ m <= Len(s) /\ DOMAIN s \cap (1..n) = 1 .. m
  BY <1>1
<1> HIDE DEF m
<1>3. DOMAIN t = 1 .. m /\ \A i \in 1 .. m : t[i] = s[i]
  BY <1>2 DEF Take
<1>4. t = [i \in 1 .. m |-> s[i]]
  BY <1>2 DEF Take
<1> HIDE DEF t
<1>5. t \in [1 .. m -> Range(s)]
  BY <1>1, <1>2, <1>4
<1>6. Len(t) = m
  BY <1>2, <1>3, <1>5
<1> QED BY <1>1, <1>2, <1>3, <1>6 DEF t

\* A round of calls stays within the budget.
LEMMA BudgetKept ==
  ASSUME ChatConstants, CallsInv, NEW calls \in Batches
  PROVE  LET batch == Affordable(calls)
             ids == {batch[i][1] : i \in 1..Len(batch)}
         IN ids \subseteq CallIds /\ IsFiniteSet(used \cup ids) /\ Cardinality(used \cup ids) <= MaxCalls
<1> DEFINE n == MaxCalls - Cardinality(used)
           batch == Affordable(calls)
           k == Len(batch)
           f == [i \in 1 .. k |-> batch[i][1]]
           ids == {batch[i][1] : i \in 1..Len(batch)}
<1>1. Cardinality(used) \in Nat /\ n \in Nat
  BY FS_CardinalityType DEF CallsInv, ChatConstants
<1>2. k \in Nat /\ k <= n /\ \A i \in 1 .. k : i \in DOMAIN calls /\ batch[i] = calls[i]
  BY <1>1, TakenCalls DEF Affordable, ChatConstants
<1>3. ids \subseteq CallIds
  BY <1>2 DEF ChatConstants
<1>4. f \in Surjection(1 .. k, ids)
  BY DEF Surjection
<1> HIDE DEF n, batch, f
<1>5. IsFiniteSet(1 .. k) /\ Cardinality(1 .. k) = k
  <2> HIDE DEF k
  <2>1. IsFiniteSet(1 .. k) /\ Cardinality(1 .. k) = IF 1 > k THEN 0 ELSE k - 1 + 1
    BY <1>2, FS_Interval
  <2> QED BY <1>2, <2>1
<1> HIDE DEF k, ids
<1>6. IsFiniteSet(ids) /\ Cardinality(ids) <= k
  BY <1>4, <1>5, FS_Surjection
<1>7. IsFiniteSet(used \cup ids) /\ Cardinality(used \cup ids) <= Cardinality(used) + Cardinality(ids)
  <2>1. IsFiniteSet(used) /\ IsFiniteSet(used \cap ids)
    BY <1>6, FS_Subset, FS_Intersection DEF CallsInv
  <2>2. Cardinality(used \cup ids) = Cardinality(used) + Cardinality(ids) - Cardinality(used \cap ids)
        /\ IsFiniteSet(used \cup ids)
    BY <1>6, <2>1, FS_Union
  <2>3. Cardinality(used \cap ids) \in Nat /\ Cardinality(ids) \in Nat
    BY <1>6, <2>1, FS_CardinalityType
  <2> QED BY <1>1, <2>2, <2>3
<1>8. Cardinality(used \cup ids) <= MaxCalls
  <2>1. Cardinality(ids) \in Nat /\ Cardinality(used \cup ids) \in Nat /\ MaxCalls \in Nat
    BY <1>6, <1>7, FS_CardinalityType DEF ChatConstants
  <2> QED BY <1>1, <1>2, <1>6, <1>7, <2>1 DEF n
<1> QED BY <1>3, <1>7, <1>8 DEF ids, batch

\* Nothing is asked for at first.
LEMMA CallsInitOK ==
  ASSUME ChatConstants, ChatInit
  PROVE  CallsInv
<1>1. IsFiniteSet({}) /\ Cardinality({}) = 0
  BY FS_EmptySet
<1>2. Waiting = {} /\ reads = [c \in CallIds |-> reads[c]]
  BY DEF ChatInit, Waiting
<1> QED BY <1>1, <1>2 DEF ChatInit, CallsInv, ChatConstants

\* What no call takes part in.
LEMMA CallsUntouched ==
  ASSUME ChatConstants, CallsInv, UNCHANGED <<reads, used, outputs>>,
         \/ UNCHANGED stage
         \/ /\ stage = "planning" \/ stage = "answering" \/ (stage = "reading" /\ Waiting = {})
            /\ stage' \in {"planning", "answering", "done"}
  PROVE  CallsInv'
<1>1. Waiting' = Waiting
  BY DEF Waiting
<1> QED BY <1>1 DEF CallsInv

\* The automatic reads are no calls of the model.
LEMMA StartFocusedOK ==
  ASSUME ChatConstants, CallsInv, StartFocused
  PROVE  CallsInv'
<1>1. PICK batch : /\ StartReads(batch)
                   /\ \/ stage' = "focused"
                      \/ stage' = "planning" /\ DOMAIN batch = {}
  <2> DEFINE keys == Automatic(graph, focus')
             ids  == CHOOSE f \in [1..Len(keys) -> CallIds] : \A i, j \in 1..Len(keys) : f[i] = f[j] => i = j
             b == [c \in {ids[i] : i \in 1..Len(keys)} |->
                     Call("reading", "focused", keys[CHOOSE i \in 1..Len(keys) : ids[i] = c])]
  <2>1. StartReads(b) /\ stage' = IF keys = <<>> THEN "planning" ELSE "focused"
    BY DEF StartFocused
  <2>2. keys = <<>> => DOMAIN b = {}
    <3> SUFFICES ASSUME keys = <<>> PROVE {ids[i] : i \in 1..Len(keys)} = {}
      OBVIOUS
    <3>1. Len(keys) = 0
      OBVIOUS
    <3>2. 1 .. Len(keys) = {}
      BY <3>1
    <3> QED BY <3>2
  <2> HIDE DEF b, keys
  <2> QED BY <2>1, <2>2
<1>2. used = {} /\ outputs = {} /\ used' = {} /\ outputs' = {}
  BY DEF StartFocused, CallsInv
<1>3. reads' = [c \in CallIds |-> reads'[c]] /\ (DOMAIN batch = {} => Waiting' = {})
  BY <1>1, CallsStart DEF Waiting
<1> QED BY <1>1, <1>2, <1>3 DEF CallsInv

\* The last of the automatic reads leaves none behind.
LEMMA FocusedReadOK ==
  ASSUME ChatConstants, CallsInv, FocusedRead
  PROVE  CallsInv'
<1>1. PICK c \in Reading : /\ reads' = [reads EXCEPT ![c] = [at |-> "none"]]
                           /\ stage' = IF Waiting = {c} THEN "planning" ELSE stage
  BY DEF FocusedRead
<1>2. c \in CallIds /\ stage = "focused" /\ UNCHANGED <<used, outputs>>
  BY <1>1 DEF Reading, FocusedRead
<1>3. Waiting' = Waiting \ {c} /\ reads' = [d \in CallIds |-> reads'[d]]
  BY <1>1, <1>2, CallOver
<1> QED BY <1>1, <1>2, <1>3 DEF CallsInv

\* A round asks for nothing, or takes its calls out of the budget.
LEMMA PlanOK ==
  ASSUME ChatConstants, CallsInv, Plan
  PROVE  CallsInv'
<1> USE DEF CallsInv
<1>1. PICK calls \in Batches :
        \/ stage' = "answering" /\ UNCHANGED <<reads, used>>
        \/ /\ StartReads([c \in {Affordable(calls)[i][1] : i \in 1..Len(Affordable(calls))} |->
                 LET i == CHOOSE k \in 1..Len(Affordable(calls)) : Affordable(calls)[k][1] = c
                 IN Call("queued", Affordable(calls)[i][2], Affordable(calls)[i][3])])
           /\ used' = used \cup {Affordable(calls)[i][1] : i \in 1..Len(Affordable(calls))}
           /\ stage' = "reading"
  BY DEF Plan
<1>2. stage = "planning" /\ UNCHANGED outputs /\ outputs = used /\ Waiting = {}
  BY DEF Plan
<1>3. CASE stage' = "answering" /\ UNCHANGED <<reads, used>>
  BY <1>2, <1>3, CallsUntouched
<1>4. CASE stage' = "reading"
  <2> DEFINE batch == Affordable(calls)
             ids == {batch[i][1] : i \in 1..Len(batch)}
             b == [c \in ids |-> LET i == CHOOSE k \in 1..Len(batch) : batch[k][1] = c
                                 IN Call("queued", batch[i][2], batch[i][3])]
  <2>1. StartReads(b) /\ used' = used \cup ids
    BY <1>1, <1>4
  <2>2. ids \subseteq CallIds /\ IsFiniteSet(used \cup ids) /\ Cardinality(used \cup ids) <= MaxCalls
    BY BudgetKept
  <2>3. DOMAIN b = ids /\ \A c \in ids : b[c].at = "queued"
    BY DEF Call
  <2> HIDE DEF b, ids
  <2>4. reads' = [d \in CallIds |-> reads'[d]]
        /\ \A d \in CallIds : reads'[d] = IF d \in DOMAIN b THEN b[d] ELSE [at |-> "none"]
    BY <2>1, CallsStart
  <2>5. Waiting' = ids
    BY <2>2, <2>3, <2>4 DEF Waiting
  <2> QED BY <1>2, <1>4, <2>1, <2>2, <2>4, <2>5
<1> QED BY <1>1, <1>2, <1>3, <1>4

\* A call that begins still waits.
LEMMA BeginReadOK ==
  ASSUME ChatConstants, CallsInv, BeginRead
  PROVE  CallsInv'
<1>1. PICK c \in Waiting \ Reading : reads' = [reads EXCEPT ![c] = Call("reading", @.name, @.arg)]
  BY DEF BeginRead
<1>2. /\ reads' = [d \in CallIds |-> reads'[d]] /\ reads'[c].at = "reading"
      /\ \A d \in CallIds \ {c} : reads'[d] = reads[d]
  BY <1>1 DEF CallsInv, Waiting, Call
<1>3. Waiting' = Waiting
  BY <1>1, <1>2 DEF Waiting
<1> QED BY <1>2, <1>3 DEF CallsInv, BeginRead

\* A call that ends has its output, whether its read found something or failed.
LEMMA FinishReadOK ==
  ASSUME ChatConstants, CallsInv, FinishRead
  PROVE  CallsInv'
<1>1. PICK c \in Reading : reads' = [reads EXCEPT ![c] = [at |-> "none"]] /\ outputs' = outputs \cup {c}
  BY DEF FinishRead
<1>2. c \in CallIds /\ c \in Waiting /\ stage = "reading" /\ UNCHANGED <<stage, used>>
  BY <1>1 DEF Reading, Waiting, FinishRead
<1>3. Waiting' = Waiting \ {c} /\ reads' = [d \in CallIds |-> reads'[d]]
  BY <1>1, <1>2, CallOver
<1> QED BY <1>1, <1>2, <1>3 DEF CallsInv

\* What an abandoned answer had asked for goes with it.
LEMMA AbandonOK ==
  ASSUME ChatConstants, Abandon
  PROVE  CallsInv'
<1>1. IsFiniteSet({}) /\ Cardinality({}) = 0
  BY FS_EmptySet
<1>2. Waiting' = {} /\ reads' = [c \in CallIds |-> reads'[c]]
  BY DEF Abandon, Waiting
<1> QED BY <1>1, <1>2 DEF Abandon, CallsInv, ChatConstants

\* Every step of the answer.
LEMMA CallsStep ==
  ASSUME ChatConstants, CallsInv, [ChatNext]_chatVars
  PROVE  CallsInv'
<1>1. CASE ReadSelected
  BY <1>1, CallsUntouched DEF ReadSelected
<1>2. CASE StartFocused
  BY <1>2, StartFocusedOK
<1>3. CASE FocusedRead
  BY <1>3, FocusedReadOK
<1>4. CASE Plan
  BY <1>4, PlanOK
<1>5. CASE PlannerFails
  BY <1>5, CallsUntouched DEF PlannerFails
<1>6. CASE BeginRead
  BY <1>6, BeginReadOK
<1>7. CASE FinishRead
  BY <1>7, FinishReadOK
<1>8. CASE EndRound
  <2>1. UNCHANGED <<reads, used, outputs>> /\ stage = "reading" /\ Waiting = {}
        /\ stage' \in {"planning", "answering", "done"}
    BY <1>8 DEF EndRound
  <2> QED BY <2>1, CallsUntouched
<1>9. CASE \E text \in {<<"a">>, <<"b">>, <<"a", "b">>} : Delta(text)
  BY <1>9, CallsUntouched DEF Delta
<1>10. CASE Answer
  <2>1. UNCHANGED <<reads, used, outputs>> /\ stage = "answering" /\ stage' = "done"
    BY <1>10 DEF Answer
  <2> QED BY <2>1, CallsUntouched
<1>11. CASE Abandon
  BY <1>11, AbandonOK
<1>12. CASE UNCHANGED chatVars
  BY <1>12, CallsUntouched DEF chatVars
<1> QED
  BY <1>1, <1>2, <1>3, <1>4, <1>5, <1>6, <1>7, <1>8, <1>9, <1>10, <1>11, <1>12 DEF ChatNext

\* The calls of an answer: whatever the model asks for, a call is taken once out of the
\* budget, and the next round or the answer begins when every accepted call has its output
\* (chat/workspace.py _events).
THEOREM CallsAreSettled ==
  ASSUME ChatConstants
  PROVE  ChatSpec => []CallsSettled
<1>1. ChatInit => CallsInv
  BY CallsInitOK
<1>2. CallsInv /\ [ChatNext]_chatVars => CallsInv'
  BY CallsStep
<1>3. CallsInv => CallsSettled
  BY DEF CallsInv, CallsSettled
<1> QED BY <1>1, <1>2, <1>3, PTL DEF ChatSpec

=============================================================================
