---------------------------- MODULE ResumeImport ----------------------------
(***************************************************************************)
(* Resume imports (resume/service.py, api/resume.py, resume/worker.py's    *)
(* main): several web workers share two slots, at most one per account;    *)
(* each import works in a private locked directory, parses in a child      *)
(* process of its own, and may then send the paragraphs to a model, a few  *)
(* at a time.                                                              *)
(*                                                                         *)
(* A slot is a file lock: it is gone when its web worker dies, while the   *)
(* owner written into the file stays.  The timeouts (upload, parse,        *)
(* document, paragraph) may fire at any moment of the wait they bound.     *)
(***************************************************************************)
EXTENDS Integers, FiniteSets

CONSTANTS Imports, ImportAccounts,   \* requests, and accounts making them
          AiImports,                 \* the requests that may ask for the model too
          SlotFiles,                 \* two in the code
          Blocks,                    \* paragraphs of a document
          AiConcurrency, MaxSuggestions, MaxFound   \* MaxFound: suggestions one paragraph yields

VARIABLES
  slot,     \* slot[i]: [holder, owner]; the lock and the text of a slot file
  imp,      \* imp[r]: [pc, account, ai, then] of an import
  child,    \* child[r]: "none", "running" or "exited": the parser process group
  folder,   \* folder[r]: "none", "fresh" or "old" (15 minutes) private directory
  task,     \* task[r][b]: the model call of a paragraph
  tally     \* tally[r]: the counters of the event stream

importVars == <<slot, imp, child, folder, task, tally>>

Nobody == "nobody"
\* The settings of a deployment: files and paragraphs are finitely many.
ImportConstants ==
  /\ IsFiniteSet(SlotFiles) /\ IsFiniteSet(Blocks)
  /\ Nobody \notin Imports \cup ImportAccounts
  /\ AiConcurrency \in Nat /\ MaxSuggestions \in Nat /\ MaxFound \in Nat

At(state) == [at |-> state, found |-> 0]
NoTasks == [b \in Blocks |-> At("none")]
ZeroTally == [completed |-> 0, failed |-> 0, count |-> 0, omitted |-> 0]

ImportInit ==
  /\ slot = [i \in SlotFiles |-> [holder |-> Nobody, owner |-> Nobody]]
  /\ imp = [r \in Imports |-> [pc |-> "new", account |-> Nobody, ai |-> FALSE, then |-> "end"]]
  /\ child = [r \in Imports |-> "none"]
  /\ folder = [r \in Imports |-> "none"]
  /\ task = [r \in Imports |-> NoTasks]
  /\ tally = [r \in Imports |-> ZeroTally]

Goto(r, pc) == imp' = [imp EXCEPT ![r].pc = pc]
MySlots(r)  == {i \in SlotFiles : slot[i].holder = r}

-----------------------------------------------------------------------------
\* Mutant: the other slot's owner is not read.
OwnerRunningNot(a) == a = Nobody

\* slot(): under the registry lock, a locked file with this owner refuses the request,
\* a free file is taken and marked; otherwise the scanner is busy.
OwnerRunning(a) == \E i \in SlotFiles : slot[i].holder # Nobody /\ slot[i].owner = a

TakeSlot(r, a) ==
  /\ ~OwnerRunning(a)
  /\ \E i \in SlotFiles : /\ slot[i].holder = Nobody
                          /\ slot' = [slot EXCEPT ![i] = [holder |-> r, owner |-> a]]
NoSlotFor(a) == OwnerRunning(a) \/ \A i \in SlotFiles : slot[i].holder # Nobody

\* scan and analyze of the API: quota, consent and length are checked before; an
\* import with ai goes on to the model after the scan.
StartScan(r, a, ai) ==
  /\ imp[r].pc = "new" /\ (ai => r \in AiImports)
  /\ \/ /\ TakeSlot(r, a)
        /\ imp' = [imp EXCEPT ![r] = [pc |-> "upload", account |-> a, ai |-> ai, then |-> "end"]]
        /\ folder' = [folder EXCEPT ![r] = "fresh"]
     \/ /\ NoSlotFor(a) /\ Goto(r, "end")
        /\ UNCHANGED <<slot, folder>>
  /\ UNCHANGED <<child, task, tally>>

\* The finally of slot(): the owner is cleared first, then the lock goes.
Leave(r, then) == imp' = [imp EXCEPT ![r].pc = "leave", ![r].then = then]
ClearOwner(r) ==
  /\ imp[r].pc = "leave"
  /\ slot' = [i \in SlotFiles |-> IF i \in MySlots(r) THEN [slot[i] EXCEPT !.owner = Nobody] ELSE slot[i]]
  /\ Goto(r, "unlock")
  /\ UNCHANGED <<child, folder, task, tally>>

Unlock(r) ==
  /\ imp[r].pc = "unlock"
  /\ slot' = [i \in SlotFiles |-> IF i \in MySlots(r) THEN [slot[i] EXCEPT !.holder = Nobody] ELSE slot[i]]
  /\ Goto(r, imp[r].then)
  /\ UNCHANGED <<child, folder, task, tally>>

\* The upload ends: complete, or too large, empty, too slow, or disconnected.  The
\* directory is removed with the with-block.
Upload(r) ==
  /\ imp[r].pc = "upload"
  /\ \/ Goto(r, "parse") /\ child' = [child EXCEPT ![r] = "running"] /\ UNCHANGED folder
     \/ Leave(r, "end") /\ folder' = [folder EXCEPT ![r] = "none"] /\ UNCHANGED child
  /\ UNCHANGED <<slot, task, tally>>

\* The child writes its result and exits, or dies of its own limits.
ChildExits(r) == /\ child[r] = "running" /\ child' = [child EXCEPT ![r] = "exited"]
                 /\ UNCHANGED <<slot, imp, folder, task, tally>>

\* _parse: the wait ends by the child's exit, the timeout or a disconnect; the process
\* group is killed and waited for in every case.
ParserAfter(r) == "none"

Parse(r) ==
  /\ imp[r].pc = "parse"
  /\ child' = [child EXCEPT ![r] = ParserAfter(r)]
  /\ \/ child[r] = "exited" /\ Goto(r, "match") /\ UNCHANGED folder
     \/ Leave(r, "end") /\ folder' = [folder EXCEPT ![r] = "none"]
  /\ UNCHANGED <<slot, task, tally>>

\* literal_suggestions in a thread, and the end of the scan.
Match(r) ==
  /\ imp[r].pc = "match"
  /\ folder' = [folder EXCEPT ![r] = "none"]
  /\ Leave(r, IF imp[r].ai THEN "scanned" ELSE "end")
  /\ UNCHANGED <<slot, child, task, tally>>

-----------------------------------------------------------------------------
\* validate_analysis (a document over the limits ends here), then analyze_events
\* takes a slot again: by now others may hold both.
StartAnalysis(r) ==
  /\ imp[r].pc = "scanned"
  /\ \/ /\ TakeSlot(r, imp[r].account) /\ Goto(r, "analyze")
        /\ task' = [task EXCEPT ![r] = [b \in Blocks |-> At("queued")]]
     \/ Goto(r, "end") /\ UNCHANGED <<slot, task>>
  /\ UNCHANGED <<child, folder, tally>>

Asked(r) == {b \in Blocks : task[r][b].at = "running"}

\* The semaphore of AI_CONCURRENCY.
MayCall(r) == Cardinality(Asked(r)) < AiConcurrency

CallModel(r, b) ==
  /\ imp[r].pc = "analyze" /\ task[r][b].at = "queued" /\ MayCall(r)
  /\ task' = [task EXCEPT ![r][b].at = "running"]
  /\ UNCHANGED <<slot, imp, child, folder, tally>>

\* extract_paragraph: timeout, unavailable model and unusable answer are results of
\* this paragraph, with no suggestions; a good one has up to MaxFound.
Outcomes == {At("error")} \cup {[at |-> "result", found |-> n] : n \in 0 .. MaxFound}
ReturnModel(r, b, outcome) ==
  /\ imp[r].pc = "analyze" /\ task[r][b].at = "running"
  /\ task' = [task EXCEPT ![r][b] = outcome]
  /\ UNCHANGED <<slot, imp, child, folder, tally>>

Delivered(failed) == At(IF failed THEN "sentError" ELSE "sent")

\* as_completed: one finished paragraph is counted and sent.
Admitted(r, n) == IF n < MaxSuggestions - tally[r].count THEN n ELSE MaxSuggestions - tally[r].count
Deliver(r, b) ==
  LET n == task[r][b].found
      failed == task[r][b].at = "error" IN
  /\ imp[r].pc = "analyze" /\ task[r][b].at \in {"error", "result"}
  /\ task' = [task EXCEPT ![r][b] = Delivered(failed)]
  /\ tally' = [tally EXCEPT ![r] = [completed |-> @.completed + 1,
                                    failed |-> @.failed + (IF failed THEN 1 ELSE 0),
                                    count |-> @.count + Admitted(r, n),
                                    omitted |-> @.omitted + n - Admitted(r, n)]]
  /\ UNCHANGED <<slot, imp, child, folder>>

\* All are sent, or the document timeout or a disconnect ends the loop: the other
\* tasks are cancelled.
StopAnalysis(r) ==
  /\ imp[r].pc = "analyze"
  /\ Goto(r, "stop")
  /\ UNCHANGED <<slot, child, folder, task, tally>>

\* gather: each cancelled call closes its connection before the slot is given back.
CloseCall(r, b) ==
  /\ imp[r].pc = "stop" /\ task[r][b].at \notin {"sent", "sentError", "cancelled"}
  /\ task' = [task EXCEPT ![r][b] = At("cancelled")]
  /\ UNCHANGED <<slot, imp, child, folder, tally>>

AllClosed(r) == \A b \in Blocks : task[r][b].at \in {"sent", "sentError", "cancelled"}

\* The done event counts every paragraph without a result as failed.
EndAnalysis(r) ==
  /\ imp[r].pc = "stop" /\ AllClosed(r)
  /\ tally' = [tally EXCEPT ![r].failed = @ + Cardinality(Blocks) - tally[r].completed]
  /\ Leave(r, "end")
  /\ UNCHANGED <<slot, child, folder, task>>

-----------------------------------------------------------------------------
\* The web worker dies: its locks and connections go, its files and child stay.
WorkerDies(r) ==
  /\ imp[r].pc \notin {"new", "end", "crashed"}
  /\ Goto(r, "crashed")
  /\ slot' = [i \in SlotFiles |-> IF i \in MySlots(r) THEN [slot[i] EXCEPT !.holder = Nobody] ELSE slot[i]]
  /\ task' = [task EXCEPT ![r] = NoTasks]
  /\ UNCHANGED <<child, folder, tally>>

\* The child's own alarm, for a parent that is gone.
ChildAlarm(r) == /\ child[r] # "none" /\ imp[r].pc = "crashed"
                 /\ child' = [child EXCEPT ![r] = "none"]
                 /\ UNCHANGED <<slot, imp, folder, task, tally>>

Age(r) == /\ folder[r] = "fresh" /\ folder' = [folder EXCEPT ![r] = "old"]
          /\ UNCHANGED <<slot, imp, child, task, tally>>

\* The directory's own lock is held from its creation to the end of the scan.
FolderLocked(r) == imp[r].pc \in {"upload", "parse", "match"}

\* cleanup: old directories whose lock is free.
Sweep(r) == /\ folder[r] = "old" /\ ~FolderLocked(r)
            /\ folder' = [folder EXCEPT ![r] = "none"]
            /\ UNCHANGED <<slot, imp, child, task, tally>>

ImportStep(r) ==
  \/ Upload(r) \/ Parse(r) \/ Match(r) \/ ClearOwner(r) \/ Unlock(r) \/ StartAnalysis(r)
  \/ StopAnalysis(r) \/ EndAnalysis(r)
  \/ \E b \in Blocks : CloseCall(r, b)

ImportNext ==
  \/ \E r \in Imports, a \in ImportAccounts, ai \in BOOLEAN : StartScan(r, a, ai)
  \/ \E r \in Imports : ImportStep(r) \/ ChildExits(r) \/ ChildAlarm(r) \/ Age(r) \/ Sweep(r) \/ WorkerDies(r)
  \/ \E r \in Imports, b \in Blocks : \/ CallModel(r, b) \/ Deliver(r, b)
                                      \/ \E outcome \in Outcomes : ReturnModel(r, b, outcome)

\* Timeouts end every wait, the sweep runs every minute, directories age.
ImportFairness ==
  \A r \in Imports : WF_importVars(ImportStep(r)) /\ WF_importVars(ChildAlarm(r)) /\ WF_importVars(Age(r) \/ Sweep(r))

ImportSpec == ImportInit /\ [][ImportNext]_importVars /\ ImportFairness

-----------------------------------------------------------------------------
\* The variables have their values, and no more blocks are delivered than the document
\* has (ResumeImportService).
ImportTypeOK ==
  /\ \A i \in SlotFiles : /\ slot[i].holder \in Imports \cup {Nobody}
                          /\ slot[i].owner \in ImportAccounts \cup {Nobody}
  /\ \A r \in Imports : /\ child[r] \in {"none", "running", "exited"} /\ folder[r] \in {"none", "fresh", "old"}
                        /\ tally[r].completed \in 0 .. Cardinality(Blocks)

Working(r) == imp[r].pc \in {"upload", "parse", "match", "analyze", "stop"}

\* Never more imports than slots, and never two of one account, across web workers
\* that die and restart and slots that still name a dead owner.
SlotsRespected ==
  /\ Cardinality({r \in Imports : Working(r)}) <= Cardinality(SlotFiles)
  /\ \A r, q \in Imports : r # q /\ Working(r) /\ Working(q) => imp[r].account # imp[q].account

\* A parser runs only for an import that waits for it, or as the orphan of a worker
\* that died: no timeout, disconnect or failed parse leaves one behind.
NoStrayParser == \A r \in Imports : child[r] # "none" => imp[r].pc \in {"parse", "crashed"}

\* Model calls are bounded per document, and none outlives the slot of its import.
CallsWithinSlot ==
  \A r \in Imports : /\ Cardinality(Asked(r)) <= AiConcurrency
                     /\ Asked(r) # {} => \E i \in SlotFiles : slot[i].holder = r /\ slot[i].owner = imp[r].account

\* The sweep never takes the directory of an import that is still using it.
LiveFoldersKept == \A r \in Imports : FolderLocked(r) => folder[r] # "none"

\* The counters add up: when the stream ends, every paragraph was
\* either extracted or reported failed, and no more suggestions were sent than allowed.
StreamAddsUp ==
  \A r \in Imports :
    /\ tally[r].count <= MaxSuggestions
    /\ imp[r].pc \in {"leave", "unlock"} /\ task[r] # NoTasks =>
         Cardinality({b \in Blocks : task[r][b].at = "sent"}) + tally[r].failed = Cardinality(Blocks)

\* Imports stay within their slots, parsers, folders and calls, and what is reported adds
\* up, whatever hangs, dies or disconnects (ResumeImportService).
ImportsContained ==
  /\ ImportTypeOK /\ SlotsRespected /\ NoStrayParser
  /\ CallsWithinSlot /\ LiveFoldersKept /\ StreamAddsUp

\* A slot always comes back, whatever hangs: upload, parser, or model.
SlotsComeBack == \A i \in SlotFiles : slot[i].holder # Nobody ~> slot[i].holder = Nobody

\* What a dead web worker left on disk is reaped.
LeftoversReaped == \A r \in Imports : imp[r].pc = "crashed" ~> folder[r] = "none" /\ child[r] = "none"
=============================================================================
