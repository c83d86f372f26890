------------------------------- MODULE Quotas -------------------------------
(***************************************************************************)
(* The account quotas kept in account_rate_limits: the chat quota          *)
(* (persistence/rate_limit.py, shared by chat and resume imports) and the  *)
(* analysis budgets (persistence/compute_budget.py).                       *)
(*                                                                         *)
(* A counter is one reused row per account and scope: the start of its     *)
(* window and a count.  The statement that charges it computes its window  *)
(* from the database clock, then may wait for the row behind other         *)
(* transactions, so it can reach the row after the window has turned.      *)
(* Time counts half seconds; a minute has MinuteLen of them, an hour       *)
(* HourLen.                                                                *)
(***************************************************************************)
EXTENDS Integers

CONSTANTS QuotaAccounts, Callers,       \* accounts, and requests in flight at once
          MinuteLen, HourLen,      \* window lengths, in half seconds
          Limit,                   \* Limit[scope]
          MaxNow                   \* bound of the instance

Scopes == {"chat", "request", "computeHour", "computeMinute"}
WindowLen(scope) == IF scope \in {"chat", "computeMinute"} THEN MinuteLen ELSE HourLen

ASSUME QuotasAssumption ==
  /\ MinuteLen \in Nat \ {0} /\ HourLen \in Nat \ {0} /\ MinuteLen % 2 = 0 /\ HourLen % 2 = 0
  /\ Limit \in [Scopes -> Nat \ {0}] /\ MaxNow \in Nat

VARIABLES
  now,       \* the database clock
  counter,   \* counter[a][s]: [window, count]; window -1: no row yet
  call,      \* call[c]: the statement a caller has started
  granted,   \* granted[a][s][w]: requests allowed and charged to window w (history)
  refusal    \* refusal[c]: the last refusal a caller got, with its retry time

quotaVars == <<now, counter, call, granted, refusal>>

\* date_trunc of the clock: windows are numbered from the epoch.
Bucket(scope, t) == t \div WindowLen(scope)

Idle == [kind |-> "idle"]
NoRefusal == [scope |-> "none"]

QuotaInit ==
  /\ now = 0
  /\ counter = [a \in QuotaAccounts |-> [s \in Scopes |-> [window |-> -1, count |-> 0]]]
  /\ call = [c \in Callers |-> Idle]
  /\ granted = [a \in QuotaAccounts |-> [s \in Scopes |-> [w \in 0 .. MaxNow |-> 0]]]
  /\ refusal = [c \in Callers |-> NoRefusal]

-----------------------------------------------------------------------------
Later(v, w) == IF v < w THEN w ELSE v

\* Mutant: a queued request of an earlier window takes the row back to it.
ConsumedBackwards(row, bucket, limit) ==
  [window |-> bucket,
   count  |-> IF row.window < bucket THEN 1
              ELSE (IF row.count < limit THEN row.count ELSE limit) + 1]

\* PostgresAccountRateLimiter.consume, ON CONFLICT DO UPDATE: a later window starts
\* again at one; otherwise the count grows, and stops one past the limit.
Consumed(row, bucket, limit) ==
  [window |-> Later(row.window, bucket),
   count  |-> IF row.window < bucket THEN 1
              ELSE (IF row.count < limit THEN row.count ELSE limit) + 1]

\* reserve_budget: the update has a WHERE, so a full window is left as it is.
HasRoom(row, bucket, limit)  == row.window < bucket \/ row.count < limit
Reserved(row, bucket) ==
  [window |-> Later(row.window, bucket),
   count  |-> IF row.window < bucket THEN 1 ELSE row.count + 1]

\* max(1, ceil(seconds until the row's window ends)), in half seconds.
RetryAfter(scope, row) ==
  LET left == (row.window + 1) * WindowLen(scope) - now
      secs == (left + 1) \div 2
  IN  2 * (IF secs < 1 THEN 1 ELSE secs)

Refuse(c, scope, row) ==
  refusal' = [refusal EXCEPT ![c] = [scope |-> scope, window |-> row.window, retryAt |-> now + RetryAfter(scope, row)]]
Charge(a, scope, row) == [granted[a] EXCEPT ![scope][row.window] = @ + 1]

-----------------------------------------------------------------------------
\* A caller starts its statement; the window it asks for is fixed here.
Start(c, a, kind) ==
  /\ call[c] = Idle
  /\ call' = [call EXCEPT ![c] = [kind |-> kind, account |-> a, at |-> now]]
  /\ refusal' = [refusal EXCEPT ![c] = NoRefusal]
  /\ UNCHANGED <<now, counter, granted>>

\* consume, once the row is free.  The refused request is counted as well.
Consume(c) ==
  LET a   == call[c].account
      row == Consumed(counter[a]["chat"], Bucket("chat", call[c].at), Limit["chat"])
  IN  /\ call[c].kind = "chat"
      /\ counter' = [counter EXCEPT ![a]["chat"] = row]
      /\ IF row.count <= Limit["chat"]
           THEN granted' = [granted EXCEPT ![a] = Charge(a, "chat", row)] /\ UNCHANGED refusal
           ELSE Refuse(c, "chat", row) /\ UNCHANGED granted
      /\ call' = [call EXCEPT ![c] = Idle]
      /\ UNCHANGED now

\* reserve_request: one hourly unit in the transaction that submits the analysis.
ReserveRequest(c) ==
  LET a   == call[c].account
      old == counter[a]["request"]
      b   == Bucket("request", call[c].at)
  IN  /\ call[c].kind = "request"
      /\ IF HasRoom(old, b, Limit["request"])
           THEN /\ counter' = [counter EXCEPT ![a]["request"] = Reserved(old, b)]
                /\ granted' = [granted EXCEPT ![a] = Charge(a, "request", Reserved(old, b))]
                /\ UNCHANGED refusal
           ELSE Refuse(c, "request", old) /\ UNCHANGED <<counter, granted>>
      /\ call' = [call EXCEPT ![c] = Idle]
      /\ UNCHANGED now

\* reserve_execution: an hourly unit, then a unit of the current minute; a refusal of
\* the second rolls the first back with the claim's savepoint.
ReserveExecution(c) ==
  LET a    == call[c].account
      hour == counter[a]["computeHour"]
      min  == counter[a]["computeMinute"]
      hb   == Bucket("computeHour", call[c].at)
      mb   == Bucket("computeMinute", now)
  IN  /\ call[c].kind = "compute"
      /\ \/ /\ HasRoom(hour, hb, Limit["computeHour"]) /\ HasRoom(min, mb, Limit["computeMinute"])
            /\ counter' = [counter EXCEPT ![a]["computeHour"] = Reserved(hour, hb),
                                          ![a]["computeMinute"] = Reserved(min, mb)]
            /\ granted' = [granted EXCEPT ![a]["computeHour"][Reserved(hour, hb).window] = @ + 1,
                                          ![a]["computeMinute"][Reserved(min, mb).window] = @ + 1]
            /\ UNCHANGED refusal
         \/ /\ ~HasRoom(hour, hb, Limit["computeHour"])
            /\ Refuse(c, "computeHour", hour) /\ UNCHANGED <<counter, granted>>
         \/ /\ HasRoom(hour, hb, Limit["computeHour"]) /\ ~HasRoom(min, mb, Limit["computeMinute"])
            /\ Refuse(c, "computeMinute", min) /\ UNCHANGED <<counter, granted>>
      /\ call' = [call EXCEPT ![c] = Idle]
      /\ UNCHANGED now

\* The database cannot be reached: RateLimitUnavailableError, or the caller's
\* transaction is rolled back.  Nothing is charged and nothing is allowed.
Unavailable(c) ==
  /\ call[c] # Idle
  /\ call' = [call EXCEPT ![c] = Idle]
  /\ UNCHANGED <<now, counter, granted, refusal>>

QuotaTick == now < MaxNow /\ now' = now + 1 /\ UNCHANGED <<counter, call, granted, refusal>>

\* The scopes of different kinds share nothing but the clock.
QuotaNextOf(kinds) ==
  \/ \E c \in Callers, a \in QuotaAccounts, kind \in kinds : Start(c, a, kind)
  \/ \E c \in Callers : Consume(c) \/ ReserveRequest(c) \/ ReserveExecution(c) \/ Unavailable(c)
  \/ QuotaTick

QuotaNext == QuotaNextOf({"chat", "request", "compute"})

QuotaSpec == QuotaInit /\ [][QuotaNext]_quotaVars

-----------------------------------------------------------------------------
\* The variables have their values; a counter passes its limit by the refused call that
\* capped it, and never further (consume).
QuotaTypeOK ==
  /\ now \in 0 .. MaxNow
  /\ \A a \in QuotaAccounts, s \in Scopes : /\ counter[a][s].window \in -1 .. MaxNow
                                       /\ counter[a][s].count \in 0 .. Limit[s] + 1

\* No window of an account ever allows more than its limit, although a statement
\* may reach the row after the window it asked for has ended.
QuotaPerWindow ==
  \A a \in QuotaAccounts, s \in Scopes, w \in 0 .. MaxNow : granted[a][s][w] <= Limit[s]

\* A budget's counter is exactly what was granted in its window: a refusal, of
\* either budget of an execution, spends nothing.
BudgetSpentIsGranted ==
  \A a \in QuotaAccounts, s \in Scopes \ {"chat"} :
    counter[a][s].window >= 0 => counter[a][s].count = granted[a][s][counter[a][s].window]

\* Waiting for as long as a refusal says gets a caller past the window that
\* refused it: Retry-After is never short.
RetryAfterSuffices ==
  \A c \in Callers :
    refusal[c].scope # "none" =>
      Bucket(refusal[c].scope, refusal[c].retryAt) > refusal[c].window

\* The quotas hold: no window grants more than its limit, a refusal spends
\* nothing, and waiting for Retry-After is enough (consume, reserve_compute).
QuotasHold == QuotaTypeOK /\ QuotaPerWindow /\ BudgetSpentIsGranted /\ RetryAfterSuffices
=============================================================================
