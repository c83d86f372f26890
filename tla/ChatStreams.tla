----------------------------- MODULE ChatStreams -----------------------------
(***************************************************************************)
(* Who may talk to the model, and how a chat stream ends: the slots of     *)
(* ChatWorkspaceService.events, the HTTP stream of api/chat.py and the     *)
(* client behind it, the provider's event stream (llm/streaming.py), and   *)
(* the OAuth credentials every provider call needs (llm/client.py,         *)
(* llm/credentials.py), refreshed in place and replaced by an operator.    *)
(*                                                                         *)
(* What a stream gathers is module Chat; here it makes provider calls and  *)
(* ends.  A refresh token is the pair of its login and its generation: the *)
(* provider accepts only the latest generation of a login, and rotates it. *)
(***************************************************************************)
EXTENDS Integers, FiniteSets

CONSTANTS Streams,
          Hosts, HostOf,         \* API processes, and the one that serves a stream
          StreamSlots,           \* four per process
          RefreshEnabled,
          MaxProviderCalls, MaxGeneration, MaxLogin   \* bounds

\* A process has some slots, and serves some of finitely many streams.
StreamsConstants ==
  /\ IsFiniteSet(Streams) /\ HostOf \in [Streams -> Hosts]
  /\ StreamSlots \in Nat /\ MaxLogin \in Nat /\ MaxGeneration \in Nat

VARIABLES
  run,       \* run[s]: [pc, calls, doc]: a stream, its provider calls, the credentials it read
  free,      \* free[h]: slots of a process
  lock,      \* lock[h]: the stream inside credentials(), or Nobody
  store,     \* the stored credentials
  live,      \* live[l]: the generation the provider accepts for a login
  stale,     \* the access tokens <<login, generation>> that expire soon
  lost       \* a rotation was answered or saved by nobody

streamVars == <<run, free, lock, store, live, stale, lost>>

Nobody == "none"
Doc(login, generation) == [login |-> login, generation |-> generation]
Reading == {"new", "waiting"}
Holding == {"working", "locking", "loaded", "asking", "answered", "streaming", "completed"}
Active == Reading \cup Holding

StreamsInit ==
  /\ run = [s \in Streams |-> [pc |-> "new", calls |-> 0, doc |-> Doc(0, 0)]]
  /\ free = [h \in Hosts |-> StreamSlots]
  /\ lock = [h \in Hosts |-> Nobody]
  /\ store = Doc(0, 0)
  /\ live = [l \in 0..MaxLogin |-> 0]
  /\ stale = {} /\ lost = FALSE

GoesTo(s, pc) == run' = [run EXCEPT ![s].pc = pc]
Unlock(s) == [lock EXCEPT ![HostOf[s]] = IF @ = s THEN Nobody ELSE @]

-----------------------------------------------------------------------------
\* stream_chat: the quota and the account's own records come before the stream; a
\* refusal is an ordinary HTTP status.
Open(s) ==
  /\ run[s].pc = "new" /\ (GoesTo(s, "waiting") \/ GoesTo(s, "refused"))
  /\ UNCHANGED <<free, lock, store, live, stale, lost>>

Acquire(s) ==
  /\ run[s].pc = "waiting" /\ free[HostOf[s]] > 0
  /\ GoesTo(s, "working") /\ free' = [free EXCEPT ![HostOf[s]] = @ - 1]
  /\ UNCHANGED <<lock, store, live, stale, lost>>

\* No slot within two seconds.
Busy(s) ==
  /\ run[s].pc = "waiting" /\ free[HostOf[s]] = 0
  /\ GoesTo(s, "ended")
  /\ UNCHANGED <<free, lock, store, live, stale, lost>>

\* The finally of events(): the slot is given back however the stream ends.
Released(s) == free[HostOf[s]] + 1

\* The stream ends with done, with the one error event, or with nothing (the client
\* left, or an exception outside READ_ERRORS).  What is in flight is cancelled.
End(s) ==
  /\ GoesTo(s, "ended")
  /\ free' = [free EXCEPT ![HostOf[s]] = Released(s)]
  /\ lock' = Unlock(s)
  /\ lost' = (lost \/ run[s].pc \in {"asking", "answered"})

Interruptible == Holding

\* The 75 seconds are over, or a read failed.
Fail(s) ==
  /\ run[s].pc \in Interruptible /\ End(s)
  /\ UNCHANGED <<store, live, stale>>

\* The client's disconnect cancels the pending read and closes the iterator.
Leave(s) ==
  /\ run[s].pc \in Active \ {"new"}
  /\ \/ run[s].pc \in Holding /\ End(s)
     \/ /\ run[s].pc = "waiting" /\ GoesTo(s, "ended")
        /\ UNCHANGED <<free, lock, lost>>
  /\ UNCHANGED <<store, live, stale>>

\* A process stops: its streams, slots and lock go with it.
Crash(h) ==
  /\ \E s \in Streams : HostOf[s] = h /\ run[s].pc \in Holding
  /\ run' = [s \in Streams |-> IF HostOf[s] = h /\ run[s].pc \in Active \ {"new"}
                                THEN [run[s] EXCEPT !.pc = "ended"] ELSE run[s]]
  /\ free' = [free EXCEPT ![h] = StreamSlots]
  /\ lock' = [lock EXCEPT ![h] = Nobody]
  /\ lost' = (lost \/ \E s \in Streams : HostOf[s] = h /\ run[s].pc \in {"asking", "answered"})
  /\ UNCHANGED <<store, live, stale>>

-----------------------------------------------------------------------------
\* A provider call begins with credentials(), one caller of a process at a time.
CallProvider(s) ==
  /\ run[s].pc = "working" /\ run[s].calls < MaxProviderCalls
  /\ run' = [run EXCEPT ![s] = [pc |-> "locking", calls |-> @.calls + 1, doc |-> @.doc]]
  /\ UNCHANGED <<free, lock, store, live, stale, lost>>

LockFree(s) == lock[HostOf[s]] = Nobody

Load(s) ==
  /\ run[s].pc = "locking" /\ LockFree(s)
  /\ lock' = [lock EXCEPT ![HostOf[s]] = s]
  /\ run' = [run EXCEPT ![s] = [pc |-> "loaded", calls |-> @.calls, doc |-> store]]
  /\ UNCHANGED <<free, store, live, stale, lost>>

ExpiresSoon(doc) == <<doc.login, doc.generation>> \in stale

\* A token that is good enough is used; one that expires soon is refreshed first, or,
\* with refreshing off, used until it expires.
UseToken(s) ==
  /\ run[s].pc = "loaded" /\ ~(RefreshEnabled /\ ExpiresSoon(run[s].doc))
  /\ GoesTo(s, "streaming") /\ lock' = Unlock(s)
  /\ UNCHANGED <<free, store, live, stale, lost>>

AskRefresh(s) ==
  /\ run[s].pc = "loaded" /\ RefreshEnabled /\ ExpiresSoon(run[s].doc)
  /\ GoesTo(s, "asking")
  /\ UNCHANGED <<free, lock, store, live, stale, lost>>

\* External: the provider rotates the token, or refuses one that was rotated before.
Rotate(s) ==
  /\ run[s].pc = "asking" /\ live[run[s].doc.login] = run[s].doc.generation
  /\ run[s].doc.generation < MaxGeneration
  /\ live' = [live EXCEPT ![run[s].doc.login] = @ + 1]
  /\ run' = [run EXCEPT ![s] = [pc |-> "answered", calls |-> @.calls, doc |-> Doc(@.doc.login, @.doc.generation + 1)]]
  /\ UNCHANGED <<free, lock, store, stale, lost>>

RefuseRefresh(s) ==
  /\ run[s].pc = "asking" /\ live[run[s].doc.login] # run[s].doc.generation
  /\ GoesTo(s, "working") /\ lock' = Unlock(s)
  /\ UNCHANGED <<free, store, live, stale, lost>>

Saved(doc) == doc

\* The refreshed document replaces whatever is stored.
Save(s) ==
  /\ run[s].pc = "answered"
  /\ store' = Saved(run[s].doc)
  /\ GoesTo(s, "streaming") /\ lock' = Unlock(s)
  /\ UNCHANGED <<free, live, stale, lost>>

\* credentials_cli import: an operator stores a login that nobody has used.
Import ==
  /\ \E l \in 1..MaxLogin : /\ live[l] = 0 /\ store.login # l /\ \A s \in Streams : run[s].doc.login # l
                            /\ store' = Doc(l, 0)
  /\ UNCHANGED <<run, free, lock, live, stale, lost>>

\* The access token of a login comes within five minutes of its expiry.
Age ==
  /\ \E l \in 0..MaxLogin : /\ <<l, live[l]>> \notin stale /\ live[l] < MaxGeneration
                            /\ stale' = stale \cup {<<l, live[l]>>}
  /\ UNCHANGED <<run, free, lock, store, live, lost>>

-----------------------------------------------------------------------------
\* response_events: one completion, and nothing after it; the call fails otherwise.
Complete(s) ==
  /\ run[s].pc = "streaming" /\ GoesTo(s, "completed")
  /\ UNCHANGED <<free, lock, store, live, stale, lost>>

\* An event after the completion is a broken stream, like a failure before it.
BrokenStream(s) ==
  /\ run[s].pc \in {"streaming", "completed"} /\ GoesTo(s, "working")
  /\ UNCHANGED <<free, lock, store, live, stale, lost>>

\* The provider closes the stream: the call's result is used, and the last call's is
\* the answer.
Closed(s) ==
  /\ run[s].pc = "completed"
  /\ \/ /\ GoesTo(s, "working") /\ UNCHANGED <<free, lock, lost>>
     \/ End(s)
  /\ UNCHANGED <<store, live, stale>>

StreamStep(s) ==
  \/ Open(s) \/ Acquire(s) \/ Busy(s) \/ Fail(s) \/ Leave(s)
  \/ CallProvider(s) \/ Load(s) \/ UseToken(s) \/ AskRefresh(s) \/ Rotate(s) \/ RefuseRefresh(s) \/ Save(s)
  \/ Complete(s) \/ BrokenStream(s) \/ Closed(s)

StreamsNext == (\E s \in Streams : StreamStep(s)) \/ (\E h \in Hosts : Crash(h)) \/ Import \/ Age
StreamsSpec == StreamsInit /\ [][StreamsNext]_streamVars

-----------------------------------------------------------------------------
\* The slots of a process are its streams at work plus the free ones: no end of a
\* stream, not even a disconnect or an exception, keeps one (events, stream_chat).
SlotsAddUp ==
  \A h \in Hosts : free[h] + Cardinality({s \in Streams : HostOf[s] = h /\ run[s].pc \in Holding}) = StreamSlots

\* Unless a rotation was lost to a crash or an interrupted answer, the stored refresh
\* token is one the provider still accepts, whenever no process is about to save: other
\* processes that refresh the same token neither use up nor overwrite it.
StoredTokenLives ==
  (~lost /\ \A s \in Streams : run[s].pc # "answered") => store.generation = live[store.login]

\* Streams give back their slots, and the login they share stays valid.
StreamsSound == SlotsAddUp /\ StoredTokenLives

\* Every stream ends, whatever the provider, the readers or the other streams do
\* (the deadlines of events and of its waits).
StreamsEnd == \A s \in Streams : <>(run[s].pc \in {"ended", "refused"})
=============================================================================
