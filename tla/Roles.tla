------------------------------- MODULE Roles -------------------------------
(***************************************************************************)
(* The release of product roles: built from the catalog's rows when the    *)
(* process starts, served only when its digest is the one a reviewer       *)
(* approved, pinned by every analysis request, and read again when the     *)
(* worker runs the request, perhaps after a restart with other data.       *)
(*                                                                         *)
(* One account with one goal is followed: its checklist answers, specs and *)
(* completed outcomes, and the requests its edits enqueue.  A capability   *)
(* unit of the catalog is a record of its base code, its version, whether  *)
(* its name carries the old-version mark, its name and its level; a digest *)
(* is the artifact it hashes.                                              *)
(***************************************************************************)
EXTENDS Integers, Sequences, FiniteSets, SequencesExt

CONSTANTS
  Contents,      \* what the catalog may hold: records of rows, see Draft
  Items,         \* the approved checklist: item -> sequence of base codes
  Specs,         \* specs a user may save: records, see SpecCredit
  MinBase,       \* postings a role needs before a share is shown
  DefaultHours,  \* hours of a unit without an official duration
  MaxEdits,      \* bound on profile edits
  MaxRestarts    \* bound on restarts of the process

VARIABLES
  content,    \* what the catalog holds now
  approval,   \* the approval file: at most one digest
  proc,       \* the process: up, built, draft, retryable, worker; the contents
              \* and the approval its load read
  rows,       \* the account's ACTIVE capability rows
  version,    \* its profile version
  requests,   \* its recompute requests, oldest first
  day,        \* the day, for the expiry of a certificate
  restarts

vars == <<content, approval, proc, rows, version, requests, day, restarts>>

------------------------------------------------------------------------------
(* The rows, and the draft built from them. *)

\* A unit is named by its base code and version; a spec is worth at most a record of 4.
RoleConstants ==
  /\ MinBase \in Nat \ {0}
  /\ \A c \in Contents :
       /\ IsFiniteSet(c.units) /\ IsFiniteSet(DOMAIN c.links)
       /\ \A u \in c.units : u.ver \in Nat /\ u.base # ""
       /\ \A u, v \in c.units : u.base = v.base /\ u.ver = v.ver => u = v
  /\ \A s \in Specs :
       /\ s.kind \notin {"outcome", "onboarding"} /\ s.credit \in 0 .. 4 /\ "" \notin s.bases
       /\ s.kind = "certification" => s.from \in Int /\ s.until \in Int

\* The unit kept for each base code: the first of the rows with its highest code, as a
\* later row takes the place only when its code is higher.
Keeps(units, i, j) == units[i].ver > units[j].ver \/ (units[i].ver = units[j].ver /\ i <= j)
SelectedRows(units) ==
  {units[i] : i \in {i \in DOMAIN units :
                      \A j \in DOMAIN units : units[j].base = units[i].base => Keeps(units, i, j)}}

\* A base code whose kept unit is marked as an old version is dropped whole.
Current(units) == {u \in SelectedRows(units) : ~u.old}

\* The postings that name a current unit's base code, in any of its versions.
PostingBases(c, current) ==
  [p \in DOMAIN c.links |-> {k.base : k \in {k \in current :
                               \E u \in c.units : u.base = k.base /\ <<u.base, u.ver>> \in c.links[p]}}]

DemandBase(c, current) ==
  Cardinality({p \in DOMAIN c.links : PostingBases(c, current)[p] # {}})

\* The postings that ask for base code b, each counted once.
DemandOf(c, current, b) ==
  Cardinality({p \in DOMAIN c.links : b \in PostingBases(c, current)[p]})

\* The share shown to the user, in per cent; -1 when too few postings back it.
DemandPct(postings, base) ==
  IF base >= MinBase THEN (200 * postings + base) \div (2 * base) ELSE -1

\* Hours of a unit: its shortest official duration, or the default.
OfficialHours(c, u) == {q.hours : q \in {q \in c.quals : q.base = u.base /\ q.ver = u.ver /\ q.hours > 0}}
Duration(c, u) ==
  IF OfficialHours(c, u) = {} THEN DefaultHours
  ELSE CHOOSE h \in OfficialHours(c, u) : \A k \in OfficialHours(c, u) : h <= k

\* Required: a basic level, or postings reviewed for any version of the base.
IsRequired(c, u) == u.level \in 1 .. 5 \/ \E e \in c.evidence : e[1] = u.base

Requirement(c, current, u) ==
  [base |-> u.base, ver |-> u.ver, label |-> u.name, required |-> IsRequired(c, u),
   hours |-> Duration(c, u), official |-> OfficialHours(c, u) # {},
   postings |-> DemandOf(c, current, u.base), of |-> DemandBase(c, current),
   pct |-> DemandPct(DemandOf(c, current, u.base), DemandBase(c, current))]

RoleDocument(c, units) ==
  LET current == Current(units) IN {Requirement(c, current, u) : u \in current}

\* build_product_roles: nothing when the rows do not make a release.
Draft(c, units) ==
  LET document == RoleDocument(c, units)
  IN IF c.runs # 1 \/ document = {} THEN {} ELSE {[content |-> c, reqs |-> document]}

------------------------------------------------------------------------------
(* The holder: one release per process, approved by its digest. *)

NoProc == [up |-> FALSE, built |-> {}, draft |-> {}, retryable |-> FALSE,
           worker |-> FALSE, read |-> {}, file |-> {}]

\* ProductRoleHolder.load when the rows came back in the order `units`.
Loaded(p, units) ==
  LET draft == Draft(content, units)
  IN [p EXCEPT !.draft = draft, !.retryable = FALSE,
               !.read = {content}, !.file = approval,
               !.built = IF draft # {} /\ draft = approval THEN draft ELSE {}]

\* ... and when the database failed or did not answer in time.
LoadFailed(p) ==
  [p EXCEPT !.draft = {}, !.built = {}, !.retryable = TRUE, !.read = {}, !.file = {}]

Available == proc.built # {}
Release == CHOOSE r \in proc.built : TRUE

Load(p) ==
  \/ \E units \in SetToSeqs(content.units) : proc' = Loaded(p, units)
  \/ proc' = LoadFailed(p)

Start ==
  /\ ~proc.up
  /\ Load([NoProc EXCEPT !.up = TRUE])
  /\ UNCHANGED <<content, approval, rows, version, requests, day, restarts>>

\* _run_product_worker: only a failure of the database is tried again.
MayRetry == ~Available /\ proc.retryable
RetryLoad ==
  /\ proc.up /\ ~proc.worker
  /\ MayRetry
  /\ Load(proc)
  /\ UNCHANGED <<content, approval, rows, version, requests, day, restarts>>

RunWorker ==
  /\ proc.up /\ ~proc.worker /\ Available
  /\ proc' = [proc EXCEPT !.worker = TRUE]
  /\ UNCHANGED <<content, approval, rows, version, requests, day, restarts>>

Stop ==
  /\ proc.up /\ restarts < MaxRestarts
  /\ proc' = NoProc /\ restarts' = restarts + 1
  /\ UNCHANGED <<content, approval, rows, version, requests, day>>

\* The collectors publish another catalog.
CatalogChanges ==
  /\ content' \in Contents \ {content}
  /\ UNCHANGED <<approval, proc, rows, version, requests, day, restarts>>

\* A reviewer who rebuilt the draft of the catalog puts its digest in the
\* approval file, while a process may still serve the release before it.
Approve ==
  /\ LET rebuilt == Draft(content, SetToSeq(content.units)) IN
       /\ rebuilt # {} /\ rebuilt # approval
       /\ approval' = rebuilt
  /\ UNCHANGED <<content, proc, rows, version, requests, day, restarts>>

------------------------------------------------------------------------------
(* What the account's rows are worth. *)

\* spec_credit: nothing for information records, for a certificate outside its
\* validity, without a competency or without written evidence.
SpecCredit(s, today) ==
  IF \/ s.kind = "education"
     \/ s.kind = "certification" /\ (s.until < today \/ s.from > today)
     \/ s.bases = {} \/ ~s.evidence
  THEN 0 ELSE s.credit

\* capability_inputs: what one row brings to an analysis.
InputsOf(r, today) ==
  CASE r.kind = "outcome" -> {[base |-> r.base, raw |-> r.label, credit |-> 4]}
    [] r.kind = "onboarding" -> {[base |-> "", raw |-> r.label, credit |-> 0]}
    [] OTHER -> IF r.bases = {} THEN {[base |-> "", raw |-> r.label, credit |-> 0]}
                ELSE {[base |-> b, raw |-> b, credit |-> SpecCredit(r, today)] : b \in r.bases}

Capabilities(active, today) == UNION {InputsOf(r, today) : r \in active}

\* SkillCatalog.matching: what the profile page says a row is worth.
Supported(release) == {q.base : q \in release.reqs}
MatchingCredit(r, release, today) ==
  LET ids == CASE r.kind = "outcome" -> {r.base} [] r.kind = "onboarding" -> {} [] OTHER -> r.bases
      worth == CASE r.kind = "outcome" -> 4 [] r.kind = "onboarding" -> 0
                 [] OTHER -> SpecCredit(r, today)
  IN IF r.kind = "education" \/ ids \cap Supported(release) = {} THEN 0 ELSE worth

------------------------------------------------------------------------------
(* Reading a pinned release, and the analysis of a request. *)

\* A raw text is an alias of a unit when it is its base code or its name.
Aliases(q) == {q.base, q.label}
Candidates(release, raw) == {q.base : q \in {q \in release.reqs : raw \in Aliases(q)}}

\* _target_capabilities: identities of other roles are left out.
Target(release, caps) == {k \in caps : k.base = "" \/ k.base \in Supported(release)}

\* CatalogProfileNormalizer: an identity its raw text does not name is an error.
Conflicts(release, caps) ==
  \E k \in Target(release, caps) : k.base # "" /\ k.base \notin Candidates(release, k.raw)
ResolvedAs(release, k) ==
  IF k.base # "" THEN {k.base}
  ELSE IF Cardinality(Candidates(release, k.raw)) = 1 THEN Candidates(release, k.raw) ELSE {}

\* EditorialGapAnalyzer: the best single record for each requirement.
CreditFor(release, caps, b) ==
  LET found == {k.credit : k \in {k \in Target(release, caps) : b \in ResolvedAs(release, k)}}
  IN IF found = {} THEN 0 ELSE CHOOSE x \in found : \A y \in found : y <= x
Evaluated(release, caps) == [b \in Supported(release) |-> CreditFor(release, caps, b)]

\* get_snapshot and require_selection: the pinned release, or none.
SnapshotAny(pinned) == proc.built
Snapshot(pinned) == proc.built \cap pinned

------------------------------------------------------------------------------
(* The account. *)

Latest == requests[Len(requests)]
NewRequest(release, active, v) ==
  [release |-> release, caps |-> Capabilities(active, day), rows |-> active,
   version |-> v, day |-> day, state |-> "PENDING", credits |-> <<>>, by |-> {}]

\* enqueue_for_goal: the selection of the newest request that still has one.
Carried == {i \in 1 .. Len(requests) : requests[i].state \in {"PENDING", "READY"}}
Enqueued(active) ==
  IF Carried = {} THEN Append(requests, [NewRequest({}, active, version + 1)
                                         EXCEPT !.state = "FAILED"])
  ELSE LET last == CHOOSE i \in Carried : \A j \in Carried : j <= i
       IN Append([i \in DOMAIN requests |-> IF requests[i].state = "PENDING"
                                            THEN [requests[i] EXCEPT !.state = "FAILED"]
                                            ELSE requests[i]],
                 NewRequest(requests[last].release, active, version + 1))

Edit(active) ==
  /\ rows' = active
  /\ version' = version + 1
  /\ requests' = Enqueued(active)
  /\ UNCHANGED <<content, approval, proc, day, restarts>>

\* OnboardingChecklistCatalog._units: the item's units that are requirements now.
UnitsOf(release, item) == {q \in release.reqs : q.base \in Range(Items[item])}
Checklist(release) == {item \in DOMAIN Items : UnitsOf(release, item) # {}}

\* resolve: the units of the ticked items, each once.
Resolved(release, ticked) == UNION {UnitsOf(release, item) : item \in ticked}

\* The new answers replace the old ones; the rest of the profile stays.
Answered(release, ticked) ==
  {r \in rows : r.kind # "onboarding"} \cup
  {[kind |-> "onboarding", label |-> q.label, base |-> q.base, under |-> release] :
     q \in Resolved(release, ticked)}

\* PUT onboarding: an item that is not shown is refused.
ReplaceOnboarding ==
  /\ Available /\ version < MaxEdits
  /\ \E ticked \in SUBSET Checklist(Release) : Edit(Answered(Release, ticked))

\* POST a spec: its competencies must be of the served catalog.
AddSpec ==
  /\ version < MaxEdits
  /\ \E s \in Specs \ rows :
       /\ s.bases # {} => Available /\ s.bases \subseteq Supported(Release)
       /\ Edit(rows \cup {s})

\* A step of the analysed route is completed: its outcome carries the label
\* the requirement had in the release the analysis pinned.
CompleteOutcome ==
  /\ requests # <<>> /\ Latest.state = "READY" /\ version < MaxEdits
  /\ \E q \in UNION {release.reqs : release \in Latest.release} :
       /\ ~\E r \in rows : r.kind = "outcome" /\ r.base = q.base
       /\ Edit(rows \cup {[kind |-> "outcome", base |-> q.base, label |-> q.label]})

\* create_context: pins the release the process serves.
RequestAnalysis ==
  /\ Available
  /\ requests # <<>> => Latest.state = "FAILED" \/ Latest.release # proc.built
  /\ Len(requests) <= MaxEdits
  /\ requests' = Append(requests, NewRequest(proc.built, rows, version))
  /\ UNCHANGED <<content, approval, proc, rows, version, day, restarts>>

\* RecomputeWorker.process.
Settled(r, found) ==
  IF found = {} THEN [r EXCEPT !.state = "FAILED"]
  ELSE LET release == CHOOSE x \in found : TRUE
       IN IF Conflicts(release, r.caps) THEN [r EXCEPT !.state = "FAILED", !.by = found]
          ELSE [r EXCEPT !.state = "READY", !.by = found,
                         !.credits = Evaluated(release, r.caps)]
Process ==
  /\ proc.worker /\ requests # <<>> /\ Latest.state = "PENDING"
  /\ requests' = [requests EXCEPT ![Len(requests)] = Settled(@, Snapshot(@.release))]
  /\ UNCHANGED <<content, approval, proc, rows, version, day, restarts>>

NextDay ==
  /\ day < 2
  /\ day' = day + 1
  /\ UNCHANGED <<content, approval, proc, rows, version, requests, restarts>>

Init ==
  /\ content \in Contents
  /\ approval = {} /\ proc = NoProc
  /\ rows = {} /\ version = 0 /\ requests = <<>>
  /\ day = 1 /\ restarts = 0

Next ==
  \/ Start \/ RetryLoad \/ RunWorker \/ Stop
  \/ CatalogChanges \/ Approve
  \/ ReplaceOnboarding \/ AddSpec \/ CompleteOutcome
  \/ RequestAnalysis \/ Process \/ NextDay

Spec == Init /\ [][Next]_vars

\* A database that answers infinitely often, a process that is started again
\* and whose background task runs.
RolesFairness ==
  /\ WF_vars(Start) /\ WF_vars(RunWorker)
  /\ SF_vars(RetryLoad /\ ~proc'.retryable)
FairSpec == Spec /\ RolesFairness

------------------------------------------------------------------------------
(* Properties. *)

\* An approval outlives a restart: whenever a process has read the contents a
\* reviewer approved, it serves them, whatever order the rows came back in
\* (the digest does not depend on it).
ApprovalOutlivesRestart ==
  \A d \in proc.file : proc.read = {d.content} => Available

\* What is shown as demand is a share of the postings of the role: no posting
\* is counted twice for one competency, though it may name several of its
\* versions, and no competency is asked for by more postings than there are.
DemandIsAShare ==
  \A d \in proc.draft : \A q \in d.reqs :
    /\ 0 <= q.postings /\ q.postings <= q.of /\ q.pct <= 100
    /\ q.of = 0 => \A o \in d.reqs : o.postings = 0

\* A finished analysis was made with the release its request pinned, whatever
\* was published, approved or restarted in between.
AnalysedAsPinned ==
  \A i \in 1 .. Len(requests) :
    requests[i].state = "READY" => requests[i].by = requests[i].release

\* Nobody is credited for a title: a requirement gets credit only from a
\* completed outcome or from a spec that claims it with written evidence and,
\* on the day of the request, a valid certificate.
CreditIsEarned ==
  \A i \in 1 .. Len(requests) :
    LET r == requests[i] IN
    r.state = "READY" =>
      \A b \in DOMAIN r.credits : r.credits[b] > 0 =>
        \E row \in r.rows :
          \/ row.kind = "outcome" /\ row.base = b
          \/ /\ row.kind \notin {"outcome", "onboarding", "education"}
             /\ b \in row.bases /\ row.evidence
             /\ row.kind = "certification" => row.from <= r.day /\ r.day <= row.until

\* What the profile page shows for a row is what an analysis of that day and
\* release would count for it: two code paths, one rule.
ShownCreditIsCounted ==
  \A release \in proc.built : \A r \in rows :
    LET caps == InputsOf(r, day) IN
    ~Conflicts(release, caps) =>
      LET counted == {CreditFor(release, caps, b) : b \in Supported(release)}
      IN MatchingCredit(r, release, day) = CHOOSE x \in counted : \A y \in counted : y <= x

\* A stored answer named a requirement of the release that was served when it
\* was given: a stale checklist entry is never stored.
AnswersWereRequirements ==
  \A r \in rows : r.kind = "onboarding" =>
    \E q \in r.under.reqs : q.base = r.base /\ q.label = r.label

\* What is analysed is what was approved, pinned and earned: the release, its demand, and
\* the credit of a record, on both code paths (ProductRoleHolder, spec_credit).
RolesPinned ==
  /\ ApprovalOutlivesRestart /\ DemandIsAShare /\ AnalysedAsPinned
  /\ CreditIsEarned /\ ShownCreditIsCounted /\ AnswersWereRequirements

\* A process whose load failed because of the database serves its release, or
\* learns that it may not, or is stopped.
RetryEnds == (proc.up /\ proc.retryable) ~> (~proc.up \/ ~proc.retryable)

==============================================================================
