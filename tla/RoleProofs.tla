----------------------------- MODULE RoleProofs -----------------------------
(***************************************************************************)
(* The product roles, for every set of evidence, every step and every      *)
(* history of builds, restarts and requests.                               *)
(*                                                                         *)
(* The rows of the source come in any order: what is kept of them is the   *)
(* highest version of each code, which does not depend on it (the first    *)
(* part).  A release is then a function of its content, a share of the     *)
(* postings is a percentage, and what an answer is credited with was       *)
(* earned by evidence of the row it was given for.  RoleInv says so of     *)
(* the file, the process, the saved rows and the request log.              *)
(***************************************************************************)
EXTENDS Roles, FiniteSetTheorems, TLAPS

-----------------------------------------------------------------------------
(* Numbers.                                                                  *)

\* A set of numbers that has a member has a least one.
LEMMA LeastNumber == ASSUME NEW T, T \in SUBSET Nat, T # {} PROVE \E x \in T : \A y \in T : x <= y
<1>1. \E x \in T : \A y \in T : ~(<<y, x>> \in OpToRel(<, Nat))
  BY WFMin, NatLessThanWellFounded, Zenon
<1>2. PICK x \in T : \A y \in T : ~(<<y, x>> \in OpToRel(<, Nat))
  BY <1>1
<1>3. \A y \in T : ~(y < x)
  BY <1>2 DEF OpToRel
<1> QED BY <1>3

\* And a bounded one has a greatest.
LEMMA GreatestNumber ==
  ASSUME NEW n \in Nat, NEW T, T \in SUBSET (0 .. n), T # {}
  PROVE  \E x \in T : \A y \in T : y <= x
<1> DEFINE below == {n - x : x \in T}
<1>1. \A x \in T : x \in Int /\ 0 <= x /\ x <= n
  OBVIOUS
<1>5. below \in SUBSET Nat /\ below # {}
  <2>1. \A x \in T : n - x \in Nat
    BY <1>1
  <2>2. \A b \in below : b \in Nat
    BY <2>1
  <2> QED BY <2>2
<1>2. PICK b \in below : \A c \in below : b <= c
  BY <1>5, LeastNumber
<1>3. PICK x \in T : b = n - x
  BY <1>2
<1>4. ASSUME NEW y \in T PROVE y <= x
  <2>1. n - x <= n - y
    BY <1>2, <1>3
  <2>2. x \in Int /\ y \in Int
    BY <1>1
  <2> QED BY <2>1, <2>2
<1> QED BY <1>4

\* A rounded percentage of a part is at most 100.
LEMMA ShareIsBounded ==
  ASSUME NEW p \in Nat, NEW b \in Nat, b > 0, p <= b
  PROVE  (200 * p + b) \div (2 * b) <= 100
<1> DEFINE x == 200 * p + b
           y == 2 * b
<1>1. x \in Nat /\ y \in Nat /\ y > 0 /\ x < 101 * y
  OBVIOUS
<1> HIDE DEF x, y
<1>2. x \div y <= 100
  BY <1>1
<1> QED BY <1>2 DEF x, y

-----------------------------------------------------------------------------
(* The order of the rows does not matter.                                    *)

\* The rows of the highest version of each base code.
Highest(S) == {u \in S : \A v \in S : v.base = u.base => v.ver <= u.ver}

\* A sequence of all rows has them all.
LEMMA AllRowsRead ==
  ASSUME NEW S, IsFiniteSet(S), NEW units \in SetToSeqs(S)
  PROVE  DOMAIN units = 1 .. Cardinality(S) /\ Range(units) = S /\ Cardinality(S) \in Nat
<1> DEFINE D == 1 .. Cardinality(S)
<1>1. Cardinality(S) \in Nat
  BY FS_CardinalityType
<1>2. units \in Injection(D, S)
  BY DEF SetToSeqs, Injection, IsInjective
<1>3. IsFiniteSet(D) /\ Cardinality(D) = Cardinality(S)
  BY <1>1, FS_Interval
<1>4. units \in Surjection(D, S)
  BY <1>2, <1>3, FS_Injection
<1> QED BY <1>1, <1>4 DEF Surjection, Range

\* The sequence a set is turned into is one of them.
LEMMA SomeOrder == ASSUME NEW S, IsFiniteSet(S) PROVE SetToSeq(S) \in SetToSeqs(S)
<1>1. ExistsBijection(1 .. Cardinality(S), S)
  BY FS_CardinalityType
<1>2. PICK f \in [1 .. Cardinality(S) -> S] : IsInjective(f)
  BY <1>1 DEF ExistsBijection, Bijection, Injection, IsInjective
<1>3. SetToSeq(S) \in [1 .. Cardinality(S) -> S] /\ IsInjective(SetToSeq(S))
  BY <1>2 DEF SetToSeq
<1> QED BY <1>3 DEF SetToSeqs, IsInjective

\* The kept units are those of the highest versions, in whatever order they came.
LEMMA KeptAreHighest ==
  ASSUME RoleConstants, NEW c \in Contents, NEW units \in SetToSeqs(c.units)
  PROVE  SelectedRows(units) = Highest(c.units)
<1> DEFINE S == c.units
<1>1. /\ IsFiniteSet(S) /\ \A u \in S : u.ver \in Nat
      /\ \A u, v \in S : u.base = v.base /\ u.ver = v.ver => u = v
  BY DEF RoleConstants
<1>2. DOMAIN units = 1 .. Cardinality(S) /\ Range(units) = S /\ Cardinality(S) \in Nat
  BY <1>1, AllRowsRead
<1>3. /\ \A i \in DOMAIN units : units[i] \in S /\ i \in Int
      /\ \A u \in S : \E i \in DOMAIN units : units[i] = u
      /\ \A i, j \in DOMAIN units : units[i] = units[j] => i = j
  BY <1>2 DEF Range, SetToSeqs
<1> HIDE DEF S
<1>4. SelectedRows(units) \subseteq Highest(S)
  BY <1>1, <1>3 DEF SelectedRows, Highest, Keeps
<1>5. ASSUME NEW u \in Highest(S) PROVE u \in SelectedRows(units)
  <2>1. u \in S /\ \A v \in S : v.base = u.base => v.ver <= u.ver
    BY <1>5 DEF Highest
  <2>2. PICK i \in DOMAIN units : units[i] = u
    BY <1>3, <2>1
  <2>3. ASSUME NEW j \in DOMAIN units, units[j].base = units[i].base PROVE Keeps(units, i, j)
    <3>1. units[j] \in S /\ units[j].ver <= u.ver
      BY <1>3, <2>1, <2>2, <2>3
    <3>2. units[j].ver = u.ver => i = j
      BY <1>1, <1>3, <2>1, <2>2, <2>3, <3>1
    <3> QED BY <1>1, <1>3, <2>1, <2>2, <3>1, <3>2 DEF Keeps
  <2> QED BY <2>2, <2>3 DEF SelectedRows
<1> QED BY <1>4, <1>5 DEF S

\* So the draft of a catalog is one, whatever order its rows were read in.
LEMMA OneDraft ==
  ASSUME RoleConstants, NEW c \in Contents, NEW units \in SetToSeqs(c.units)
  PROVE  Draft(c, units) = Draft(c, SetToSeq(c.units))
<1>1. SetToSeq(c.units) \in SetToSeqs(c.units)
  BY SomeOrder DEF RoleConstants
<1>2. SelectedRows(units) = SelectedRows(SetToSeq(c.units))
  BY <1>1, KeptAreHighest
<1> QED BY <1>2 DEF Draft, RoleDocument, Current

-----------------------------------------------------------------------------
(* What a release is.                                                        *)

Releases == UNION {Draft(c, SetToSeq(c.units)) : c \in Contents}
Single(S) == \A x, y \in S : x = y

\* The code and the demand of a requirement.
LEMMA RequirementFields ==
  ASSUME NEW c, NEW current, NEW u
  PROVE  /\ Requirement(c, current, u).base = u.base
         /\ Requirement(c, current, u).of = DemandBase(c, current)
         /\ Requirement(c, current, u).postings = DemandOf(c, current, u.base)
         /\ Requirement(c, current, u).pct = DemandPct(DemandOf(c, current, u.base), DemandBase(c, current))
BY DEF Requirement

\* A release is the draft of its contents, and no requirement of it is without a code.
LEMMA ReleaseIsDraft ==
  ASSUME RoleConstants, NEW d \in Releases
  PROVE  /\ d.content \in Contents /\ Draft(d.content, SetToSeq(d.content.units)) = {d}
         /\ d.reqs = RoleDocument(d.content, SetToSeq(d.content.units)) /\ d.reqs # {}
         /\ \A q \in d.reqs : q.base # ""
<1>1. PICK c \in Contents : d \in Draft(c, SetToSeq(c.units))
  BY DEF Releases
<1>2. d = [content |-> c, reqs |-> RoleDocument(c, SetToSeq(c.units))] /\ RoleDocument(c, SetToSeq(c.units)) # {}
      /\ Draft(c, SetToSeq(c.units)) = {d}
  BY <1>1 DEF Draft
<1>3. SelectedRows(SetToSeq(c.units)) = Highest(c.units)
  BY SomeOrder, KeptAreHighest DEF RoleConstants
<1>4. \A u \in Current(SetToSeq(c.units)) : u.base # ""
  BY <1>3 DEF Current, Highest, RoleConstants
<1>5. \A q \in d.reqs : q.base # ""
  <2>1. d.reqs = {Requirement(c, Current(SetToSeq(c.units)), u) : u \in Current(SetToSeq(c.units))}
    BY <1>2 DEF RoleDocument
  <2>2. ASSUME NEW q \in d.reqs PROVE q.base # ""
    <3>1. PICK u \in Current(SetToSeq(c.units)) : q = Requirement(c, Current(SetToSeq(c.units)), u)
      BY <2>1
    <3>2. q.base = u.base
      BY <3>1, RequirementFields
    <3> QED BY <1>4, <3>2
  <2> QED BY <2>2
<1> QED BY <1>2, <1>5

\* What the catalog makes of its rows is such a release, or nothing.
LEMMA DraftIsRelease ==
  ASSUME RoleConstants, NEW c \in Contents
  PROVE  Draft(c, SetToSeq(c.units)) \subseteq Releases /\ Single(Draft(c, SetToSeq(c.units)))
<1>1. Single(Draft(c, SetToSeq(c.units)))
  BY DEF Draft, Single
<1> QED BY <1>1 DEF Releases

\* No competency is asked for by more postings than there are.
LEMMA DemandOfIsPart ==
  ASSUME RoleConstants, NEW c \in Contents, NEW current, NEW b
  PROVE  /\ DemandOf(c, current, b) \in Nat /\ DemandBase(c, current) \in Nat
         /\ DemandOf(c, current, b) <= DemandBase(c, current)
<1> DEFINE some == {p \in DOMAIN c.links : PostingBases(c, current)[p] # {}}
           these == {p \in DOMAIN c.links : b \in PostingBases(c, current)[p]}
<1>1. these \subseteq some /\ some \subseteq DOMAIN c.links
  OBVIOUS
<1>2. IsFiniteSet(DOMAIN c.links)
  BY DEF RoleConstants
<1>3. IsFiniteSet(some) /\ IsFiniteSet(these) /\ Cardinality(these) <= Cardinality(some)
  BY <1>1, <1>2, FS_Subset
<1>4. Cardinality(some) \in Nat /\ Cardinality(these) \in Nat
  BY <1>3, FS_CardinalityType
<1> QED BY <1>3, <1>4 DEF DemandOf, DemandBase

\* The demand shown with a release is a share of its postings.
LEMMA DemandOK ==
  ASSUME RoleConstants, NEW d \in Releases, NEW q \in d.reqs
  PROVE  /\ 0 <= q.postings /\ q.postings <= q.of /\ q.pct <= 100
         /\ q.of = 0 => \A o \in d.reqs : o.postings = 0
<1> DEFINE c == d.content
           current == Current(SetToSeq(c.units))
<1>1. c \in Contents /\ d.reqs = {Requirement(c, current, u) : u \in current}
  BY ReleaseIsDraft DEF RoleDocument
<1> HIDE DEF c, current
<1>2. ASSUME NEW o \in d.reqs
      PROVE  /\ o.of = DemandBase(c, current) /\ o.postings \in Nat /\ o.of \in Nat /\ o.postings <= o.of
             /\ o.pct = DemandPct(o.postings, o.of)
  <2>1. PICK u \in current : o = Requirement(c, current, u)
    BY <1>1
  <2>2. /\ o.of = DemandBase(c, current) /\ o.postings = DemandOf(c, current, u.base)
        /\ o.pct = DemandPct(DemandOf(c, current, u.base), DemandBase(c, current))
    BY <2>1, RequirementFields
  <2> QED BY <1>1, <2>2, DemandOfIsPart
<1>3. q.pct <= 100
  <2>1. MinBase \in Nat /\ MinBase > 0
    <3>1. MinBase \in Nat /\ MinBase # 0
      BY DEF RoleConstants
    <3> QED BY <3>1
  <2>2. CASE q.of >= MinBase
    <3>1. q.of > 0 /\ q.pct = (200 * q.postings + q.of) \div (2 * q.of)
      BY <1>2, <2>1, <2>2 DEF DemandPct
    <3>2. q.postings \in Nat /\ q.of \in Nat /\ q.postings <= q.of
      BY <1>2
    <3>3. (200 * q.postings + q.of) \div (2 * q.of) <= 100
      BY <3>1, <3>2, ShareIsBounded
    <3> QED BY <3>1, <3>3
  <2>3. CASE ~(q.of >= MinBase)
    BY <1>2, <2>3 DEF DemandPct
  <2> QED BY <2>2, <2>3
<1>4. q.of = 0 => \A o \in d.reqs : o.postings = 0
  BY <1>2
<1> QED BY <1>2, <1>3, <1>4

-----------------------------------------------------------------------------
(* What a record is worth.                                                   *)

\* The rows an account may have: a saved spec, a completed outcome, and an answer that
\* names a requirement of the release it was given under.
OutcomeRow(r) == r.kind = "outcome" /\ r.base # ""
AnswerRow(r) == r.kind = "onboarding" /\ \E q \in r.under.reqs : q.base = r.base /\ q.label = r.label
RowOK(r) == r \in Specs \/ OutcomeRow(r) \/ AnswerRow(r)

\* A spec is worth its credit or nothing, and nothing without evidence or validity.
LEMMA SpecCreditIs ==
  ASSUME NEW s, s.credit \in 0 .. 4, NEW today \in Int, s.kind = "certification" => s.from \in Int /\ s.until \in Int
  PROVE  /\ SpecCredit(s, today) \in 0 .. 4
         /\ s.kind = "education" => SpecCredit(s, today) = 0
         /\ SpecCredit(s, today) > 0 =>
              /\ s.kind # "education" /\ s.evidence
              /\ s.kind = "certification" => s.from <= today /\ today <= s.until
<1> DEFINE worthless == \/ s.kind = "education"
                        \/ s.kind = "certification" /\ (s.until < today \/ s.from > today)
                        \/ s.bases = {} \/ ~s.evidence
<1>1. SpecCredit(s, today) = IF worthless THEN 0 ELSE s.credit
  BY DEF SpecCredit
<1>2. s.kind = "education" => worthless
  OBVIOUS
<1>3. ~worthless => s.kind # "education" /\ s.evidence /\ ~(s.kind = "certification" /\ (s.until < today \/ s.from > today))
  OBVIOUS
<1> HIDE DEF worthless
<1>4. SpecCredit(s, today) \in 0 .. 4
  BY <1>1
<1>5. SpecCredit(s, today) > 0 => ~worthless
  BY <1>1
<1>6. ~(s.kind = "certification" /\ (s.until < today \/ s.from > today)) =>
        (s.kind = "certification" => s.from <= today /\ today <= s.until)
  OBVIOUS
<1> QED BY <1>1, <1>2, <1>3, <1>4, <1>5, <1>6

\* What a row brings to an analysis is worth at most 4, and only what earned it is worth
\* anything.
LEMMA InputsAreEarned ==
  ASSUME RoleConstants, NEW r, RowOK(r), NEW today \in Int, NEW k \in InputsOf(r, today)
  PROVE  /\ k.credit \in 0 .. 4
         /\ k.credit > 0 =>
              /\ k.base # ""
              /\ \/ r.kind = "outcome" /\ r.base = k.base
                 \/ /\ r.kind \notin {"outcome", "onboarding", "education"}
                    /\ k.base \in r.bases /\ r.evidence
                    /\ r.kind = "certification" => r.from <= today /\ today <= r.until
<1>1. CASE r.kind = "outcome"
  <2>1. k = [base |-> r.base, raw |-> r.label, credit |-> 4]
    BY <1>1 DEF InputsOf
  <2>2. r.base # ""
    BY <1>1 DEF RowOK, OutcomeRow, AnswerRow, RoleConstants
  <2>3. k.credit = 4 /\ k.base = r.base
    BY <2>1
  <2>4. k.credit \in 0 .. 4
    BY <2>3
  <2>5. k.base # "" /\ r.base = k.base
    BY <2>2, <2>3
  <2> QED BY <1>1, <2>4, <2>5, Zenon
<1>2. CASE r.kind = "onboarding"
  <2>1. k = [base |-> "", raw |-> r.label, credit |-> 0]
    BY <1>2 DEF InputsOf
  <2>2. k.credit = 0
    BY <2>1
  <2> QED BY <2>2
<1>3. CASE r.kind \notin {"outcome", "onboarding"}
  <2>1. /\ r \in Specs /\ r.credit \in 0 .. 4 /\ "" \notin r.bases
        /\ r.kind = "certification" => r.from \in Int /\ r.until \in Int
    BY <1>3 DEF RowOK, OutcomeRow, AnswerRow, RoleConstants
  <2>2. CASE r.bases = {}
    <3>1. k = [base |-> "", raw |-> r.label, credit |-> 0]
      BY <1>3, <2>2 DEF InputsOf
    <3>2. k.credit = 0
      BY <3>1
    <3> QED BY <3>2
  <2>3. CASE r.bases # {}
    <3>1. PICK b \in r.bases : k = [base |-> b, raw |-> b, credit |-> SpecCredit(r, today)]
      BY <1>3, <2>3 DEF InputsOf
    <3>2. k.base = b /\ k.base # "" /\ k.credit = SpecCredit(r, today)
      BY <2>1, <3>1
    <3>3. SpecCredit(r, today) \in 0 .. 4
      BY <2>1, SpecCreditIs
    <3>4. SpecCredit(r, today) > 0 =>
            /\ r.kind # "education" /\ r.evidence
            /\ r.kind = "certification" => r.from <= today /\ today <= r.until
      BY <2>1, SpecCreditIs
    <3> QED BY <1>3, <3>2, <3>3, <3>4
  <2> QED BY <2>2, <2>3
<1> QED BY <1>1, <1>2, <1>3

\* The credit of a requirement is that of the best record that names it.
LEMMA BestRecordCounts ==
  ASSUME NEW release, NEW caps, NEW b, \A k \in caps : k.credit \in 0 .. 4
  PROVE  /\ CreditFor(release, caps, b) \in 0 .. 4
         /\ CreditFor(release, caps, b) > 0 =>
              \E k \in Target(release, caps) : b \in ResolvedAs(release, k) /\ k.credit = CreditFor(release, caps, b)
         /\ \A k \in Target(release, caps) : b \in ResolvedAs(release, k) => k.credit <= CreditFor(release, caps, b)
<1> DEFINE found == {k.credit : k \in {k \in Target(release, caps) : b \in ResolvedAs(release, k)}}
<1>1. \A k \in Target(release, caps) : k.credit \in 0 .. 4
  BY DEF Target
<1>2. found \in SUBSET (0 .. 4)
  BY <1>1
<1>3. CreditFor(release, caps, b) = IF found = {} THEN 0 ELSE CHOOSE x \in found : \A y \in found : y <= x
  BY DEF CreditFor
<1>4. CASE found = {}
  BY <1>3, <1>4
<1>5. CASE found # {}
  <2> HIDE DEF found
  <2>1. \E x \in found : \A y \in found : y <= x
    BY <1>2, <1>5, GreatestNumber
  <2>2. CreditFor(release, caps, b) \in found /\ \A y \in found : y <= CreditFor(release, caps, b)
    BY <1>3, <1>5, <2>1
  <2> USE DEF found
  <2> QED BY <1>2, <2>2
<1> QED BY <1>4, <1>5

\* When w is the best of the records that are not left out, w is what is counted.
LEMMA CountedIs ==
  ASSUME RoleConstants, NEW release \in Releases, NEW caps, \A k \in caps : k.credit \in 0 .. 4, NEW w \in 0 .. 4,
         \A k \in Target(release, caps) : k.credit <= w,
         w > 0 => \E k \in Target(release, caps), b \in Supported(release) : k.credit = w /\ b \in ResolvedAs(release, k)
  PROVE  w = CHOOSE x \in {CreditFor(release, caps, b) : b \in Supported(release)} :
               \A y \in {CreditFor(release, caps, b) : b \in Supported(release)} : y <= x
<1> DEFINE counted == {CreditFor(release, caps, b) : b \in Supported(release)}
<1>1. \A b \in Supported(release) : CreditFor(release, caps, b) \in 0 .. 4 /\ CreditFor(release, caps, b) <= w
  <2>1. ASSUME NEW b \in Supported(release)
        PROVE  CreditFor(release, caps, b) \in 0 .. 4 /\ CreditFor(release, caps, b) <= w
    <3>1. CreditFor(release, caps, b) \in 0 .. 4
      BY BestRecordCounts
    <3>2. CreditFor(release, caps, b) > 0 => \E k \in Target(release, caps) : k.credit = CreditFor(release, caps, b)
      BY BestRecordCounts
    <3> QED BY <3>1, <3>2
  <2> QED BY <2>1
<1>2. Supported(release) # {}
  <2>1. release.reqs # {}
    BY ReleaseIsDraft
  <2> QED BY <2>1 DEF Supported
<1>3. w \in counted
  <2>1. CASE w = 0
    <3>1. PICK b \in Supported(release) : TRUE
      BY <1>2
    <3>2. CreditFor(release, caps, b) = 0
      BY <1>1, <2>1
    <3> QED BY <2>1, <3>2
  <2>2. CASE w > 0
    <3>1. PICK k \in Target(release, caps), b \in Supported(release) : k.credit = w /\ b \in ResolvedAs(release, k)
      BY <2>2
    <3>2. w <= CreditFor(release, caps, b)
      BY <3>1, BestRecordCounts
    <3>3. CreditFor(release, caps, b) = w
      BY <1>1, <3>2
    <3> QED BY <3>3
  <2> QED BY <2>1, <2>2
<1>4. \A y \in counted : y \in Int /\ y <= w
  BY <1>1
<1> HIDE DEF counted
<1>5. \A x \in counted : (\A y \in counted : y <= x) => x = w
  BY <1>3, <1>4
<1>6. w = CHOOSE x \in counted : \A y \in counted : y <= x
  BY <1>3, <1>4, <1>5
<1> QED BY <1>6 DEF counted

\* That holds of nothing when nothing has a credit.
LEMMA NothingCounted ==
  ASSUME NEW release, NEW caps, NEW w, w = 0, \A k \in Target(release, caps) : k.credit = 0
  PROVE  /\ w \in 0 .. 4
         /\ \A k \in Target(release, caps) : k.credit <= w
         /\ w > 0 => \E k \in Target(release, caps), b \in Supported(release) :
                       k.credit = w /\ b \in ResolvedAs(release, k)
<1>1. w \in 0 .. 4 /\ ~(w > 0)
  OBVIOUS
<1>2. \A k \in Target(release, caps) : k.credit <= w
  OBVIOUS
<1> QED BY <1>1, <1>2

\* What is shown for a row is what an analysis counts for it.
LEMMA ShownIsCounted ==
  ASSUME RoleConstants, NEW release \in Releases, NEW r, RowOK(r), NEW today \in Int
  PROVE  MatchingCredit(r, release, today)
           = CHOOSE x \in {CreditFor(release, InputsOf(r, today), b) : b \in Supported(release)} :
               \A y \in {CreditFor(release, InputsOf(r, today), b) : b \in Supported(release)} : y <= x
<1> DEFINE caps == InputsOf(r, today)
           w == MatchingCredit(r, release, today)
<1>1. \A k \in caps : k.credit \in 0 .. 4
  BY InputsAreEarned
<1>2. \A k \in Target(release, caps) : k \in caps /\ (k.base = "" \/ k.base \in Supported(release))
  BY DEF Target
<1>3. /\ w \in 0 .. 4
      /\ \A k \in Target(release, caps) : k.credit <= w
      /\ w > 0 => \E k \in Target(release, caps), b \in Supported(release) :
                    k.credit = w /\ b \in ResolvedAs(release, k)
  <2>1. CASE r.kind = "outcome"
    <3> DEFINE k0 == [base |-> r.base, raw |-> r.label, credit |-> 4]
    <3>1. caps = {k0} /\ r.base # "" /\ k0.base = r.base /\ k0.credit = 4
      BY <2>1 DEF InputsOf, RowOK, OutcomeRow, AnswerRow, RoleConstants
    <3>2. w = IF r.base \in Supported(release) THEN 4 ELSE 0
      BY <2>1 DEF MatchingCredit
    <3>3. r.base \in Supported(release) => k0 \in Target(release, caps) /\ r.base \in ResolvedAs(release, k0)
      BY <3>1 DEF Target, ResolvedAs
    <3>4. r.base \notin Supported(release) => Target(release, caps) = {}
      BY <3>1 DEF Target
    <3> HIDE DEF k0, caps, w
    <3>5. \A k \in Target(release, caps) : k.credit = 4
      BY <1>2, <3>1
    <3>6. CASE r.base \in Supported(release)
      <4>1. w = 4 /\ k0 \in Target(release, caps) /\ r.base \in ResolvedAs(release, k0) /\ k0.credit = 4
        BY <3>1, <3>2, <3>3, <3>6
      <4>2. w \in 0 .. 4
        BY <4>1
      <4>3. \A k \in Target(release, caps) : k.credit <= w
        BY <3>5, <4>1
      <4>4. k0.credit = w
        BY <4>1
      <4> QED BY <3>6, <4>1, <4>2, <4>3, <4>4, Zenon
    <3>7. CASE r.base \notin Supported(release)
      BY <3>2, <3>4, <3>7, NothingCounted
    <3> QED BY <3>6, <3>7
  <2>2. CASE r.kind = "onboarding"
    <3>1. w = 0 /\ caps = {[base |-> "", raw |-> r.label, credit |-> 0]}
      BY <2>2 DEF MatchingCredit, InputsOf
    <3> HIDE DEF caps, w
    <3> DEFINE nothing == [base |-> "", raw |-> r.label, credit |-> 0]
    <3>2. nothing.credit = 0
      OBVIOUS
    <3>3. caps = {nothing}
      BY <3>1
    <3> HIDE DEF nothing
    <3>4. \A k \in Target(release, caps) : k.credit = 0
      BY <1>2, <3>2, <3>3
    <3>5. w = 0
      BY <3>1
    <3> QED BY <3>4, <3>5, NothingCounted
  <2>3. CASE r.kind \notin {"outcome", "onboarding"}
    <3>1. /\ r \in Specs /\ r.credit \in 0 .. 4 /\ "" \notin r.bases
          /\ r.kind = "certification" => r.from \in Int /\ r.until \in Int
      BY <2>3 DEF RowOK, OutcomeRow, AnswerRow, RoleConstants
    <3>2. w = IF r.kind = "education" \/ r.bases \cap Supported(release) = {} THEN 0 ELSE SpecCredit(r, today)
      BY <2>3 DEF MatchingCredit
    <3>3. SpecCredit(r, today) \in 0 .. 4 /\ (r.kind = "education" => SpecCredit(r, today) = 0)
      BY <3>1, SpecCreditIs
    <3>4. CASE r.bases = {}
      <4>1. w = 0 /\ caps = {[base |-> "", raw |-> r.label, credit |-> 0]}
        BY <2>3, <3>2, <3>4 DEF InputsOf
      <4> HIDE DEF caps, w
      <4> DEFINE nothing == [base |-> "", raw |-> r.label, credit |-> 0]
      <4>2. nothing.credit = 0
        OBVIOUS
      <4>3. caps = {nothing}
        BY <4>1
      <4> HIDE DEF nothing
      <4>4. \A k \in Target(release, caps) : k.credit = 0
        BY <1>2, <4>2, <4>3
      <4>5. w = 0
        BY <4>1
      <4> QED BY <4>4, <4>5, NothingCounted
    <3>5. CASE r.bases # {}
      <4>1. caps = {[base |-> b, raw |-> b, credit |-> SpecCredit(r, today)] : b \in r.bases}
        BY <2>3, <3>5 DEF InputsOf
      <4>2. \A k \in caps : k.credit = SpecCredit(r, today) /\ k.base \in r.bases
        BY <4>1
      <4>3. \A k \in Target(release, caps) : k.credit <= w
        <5>1. ASSUME NEW k \in Target(release, caps) PROVE k.credit <= w
          <6>1. k.credit = SpecCredit(r, today) /\ k.base \in r.bases /\ k.base \in Supported(release)
            BY <1>2, <3>1, <4>2
          <6> HIDE DEF caps, w
          <6>2. w = IF r.kind = "education" THEN 0 ELSE SpecCredit(r, today)
            BY <3>2, <6>1
          <6> QED BY <3>3, <6>1, <6>2
        <5> QED BY <5>1
      <4>4. ASSUME NEW b \in r.bases \cap Supported(release)
            PROVE  \E k \in Target(release, caps) : k.credit = SpecCredit(r, today) /\ b \in ResolvedAs(release, k)
        <5> DEFINE k == [base |-> b, raw |-> b, credit |-> SpecCredit(r, today)]
        <5>1. k \in caps /\ k.base = b /\ k.credit = SpecCredit(r, today) /\ b # ""
          BY <3>1, <4>1
        <5>2. k \in Target(release, caps) /\ b \in ResolvedAs(release, k)
          BY <5>1 DEF Target, ResolvedAs
        <5> QED BY <5>1, <5>2
      <4>5. w > 0 => w = SpecCredit(r, today) /\ \E b \in Supported(release) : b \in r.bases
        BY <3>2
      <4> QED BY <3>2, <3>3, <4>3, <4>4, <4>5
    <3> QED BY <3>4, <3>5
  <2> QED BY <2>1, <2>2, <2>3
<1> HIDE DEF caps, w
<1>4. w = CHOOSE x \in {CreditFor(release, caps, b) : b \in Supported(release)} :
            \A y \in {CreditFor(release, caps, b) : b \in Supported(release)} : y <= x
  BY <1>1, <1>3, CountedIs
<1> QED BY <1>4 DEF caps, w

-----------------------------------------------------------------------------
(* The inductive invariant.                                                  *)

Processes == [up : BOOLEAN, built : SUBSET Releases, draft : SUBSET Releases, retryable : BOOLEAN,
              worker : BOOLEAN, read : SUBSET Contents, file : SUBSET Releases]

\* A process that has read contents has their draft, and serves it when it was approved.
ProcOK(p) ==
  /\ p \in Processes /\ Single(p.draft) /\ Single(p.file) /\ p.built \subseteq p.draft
  /\ \A c \in p.read : /\ p.draft = Draft(c, SetToSeq(c.units))
                       /\ p.draft # {} /\ p.draft = p.file => p.built # {}
ApprovalOK(a) == a \in SUBSET Releases /\ Single(a)
RowsOK(active) == \A r \in active : RowOK(r)

\* A request keeps the rows and the day it was made with, and when it is ready its credits
\* were computed from them with the release it pins.
IsRequest(r) == r = [release |-> r.release, caps |-> r.caps, rows |-> r.rows, version |-> r.version, day |-> r.day,
                     state |-> r.state, credits |-> r.credits, by |-> r.by]
RequestOK(r) ==
  /\ IsRequest(r)
  /\ r.release \in SUBSET Releases /\ Single(r.release)
  /\ r.caps = Capabilities(r.rows, r.day) /\ r.day \in Int /\ RowsOK(r.rows)
  /\ r.state = "READY" => r.by = r.release /\ \E d \in r.by : r.credits = Evaluated(d, r.caps)
LogOK(log) ==
  /\ Len(log) \in Nat /\ log = [i \in 1 .. Len(log) |-> log[i]]
  /\ \A i \in 1 .. Len(log) : RequestOK(log[i])

RoleInv ==
  /\ content \in Contents /\ day \in Int
  /\ ApprovalOK(approval) /\ ProcOK(proc) /\ RowsOK(rows) /\ LogOK(requests)

-----------------------------------------------------------------------------
(* The requests.                                                             *)

\* Sequences given by their length and elements.
LEMMA LogIsSequence ==
  ASSUME NEW log, NEW n \in Nat, log = [i \in 1 .. n |-> log[i]]
  PROVE  log \in Seq({log[i] : i \in 1 .. n}) /\ Len(log) = n /\ DOMAIN log = 1 .. n
<1> DEFINE S == {log[i] : i \in 1 .. n}
<1>1. log \in [1 .. n -> S]
  OBVIOUS
<1> HIDE DEF S
<1>2. log \in Seq(S) /\ Len(log) = n /\ DOMAIN log = 1 .. n
  BY <1>1
<1> QED BY <1>2 DEF S

\* And the other way round.
LEMMA SequenceOfElements ==
  ASSUME NEW S, NEW s \in Seq(S)
  PROVE  Len(s) \in Nat /\ s = [i \in 1 .. Len(s) |-> s[i]]
<1>1. Len(s) \in Nat /\ s \in [1 .. Len(s) -> S]
  OBVIOUS
<1> QED BY <1>1

\* A request is added to a log.
LEMMA LogAppended ==
  ASSUME NEW log, LogOK(log), NEW e, RequestOK(e)
  PROVE  LogOK(Append(log, e)) /\ Len(Append(log, e)) = Len(log) + 1
<1> DEFINE n == Len(log)
           S == {log[i] : i \in 1 .. n} \cup {e}
<1>1. n \in Nat /\ log \in Seq({log[i] : i \in 1 .. n}) /\ \A i \in 1 .. n : RequestOK(log[i])
  BY LogIsSequence DEF LogOK
<1>2. log \in Seq(S) /\ e \in S
  BY <1>1
<1> HIDE DEF S
<1>3. /\ Append(log, e) \in Seq(S) /\ Len(Append(log, e)) = n + 1
      /\ \A i \in 1 .. n + 1 : Append(log, e)[i] = IF i <= n THEN log[i] ELSE e
  BY <1>1, <1>2
<1>4. Append(log, e) = [i \in 1 .. Len(Append(log, e)) |-> Append(log, e)[i]]
  BY <1>3, SequenceOfElements
<1>5. \A i \in 1 .. n + 1 : RequestOK(Append(log, e)[i])
  BY <1>1, <1>3
<1> QED BY <1>1, <1>3, <1>4, <1>5 DEF LogOK

\* A log is in order when its requests are.
LEMMA LogReplaced ==
  ASSUME NEW log, NEW n \in Nat, log = [i \in 1 .. n |-> log[i]], \A i \in 1 .. n : RequestOK(log[i])
  PROVE  LogOK(log)
BY LogIsSequence DEF LogOK

\* A request that fails stays what it is.
LEMMA RequestFails == ASSUME NEW r, RequestOK(r) PROVE RequestOK([r EXCEPT !.state = "FAILED"])
<1> DEFINE s == [r EXCEPT !.state = "FAILED"]
<1>1. s = [release |-> r.release, caps |-> r.caps, rows |-> r.rows, version |-> r.version, day |-> r.day,
           state |-> "FAILED", credits |-> r.credits, by |-> r.by]
  BY DEF RequestOK, IsRequest
<1>2. /\ IsRequest(s) /\ s.release = r.release /\ s.caps = r.caps /\ s.rows = r.rows /\ s.day = r.day
      /\ s.state = "FAILED"
  BY <1>1 DEF IsRequest
<1> HIDE DEF s
<1>3. RequestOK(s)
  BY <1>2 DEF RequestOK
<1> QED BY <1>3 DEF s

\* A new request is pending with the rows of the account, or fails at once.
LEMMA RequestIsMade ==
  ASSUME RoleInv, NEW release \in SUBSET Releases, Single(release), NEW active, RowsOK(active), NEW v
  PROVE  /\ RequestOK(NewRequest(release, active, v))
         /\ RequestOK([NewRequest(release, active, v) EXCEPT !.state = "FAILED"])
<1> DEFINE r == NewRequest(release, active, v)
<1>1. r = [release |-> release, caps |-> Capabilities(active, day), rows |-> active,
           version |-> v, day |-> day, state |-> "PENDING", credits |-> <<>>, by |-> {}]
  BY DEF NewRequest
<1>2. /\ IsRequest(r) /\ r.release = release /\ r.caps = Capabilities(active, day) /\ r.rows = active
      /\ r.day = day /\ r.state = "PENDING"
  BY <1>1 DEF IsRequest
<1>3. RequestOK(r)
  BY <1>2 DEF RequestOK, RoleInv
<1> QED BY <1>3, RequestFails

\* What the fields of a request become.
LEMMA FailedFields ==
  ASSUME NEW r, IsRequest(r), NEW x, NEW y
  PROVE  [r EXCEPT !.state = x, !.by = y]
      = [release |-> r.release, caps |-> r.caps, rows |-> r.rows, version |-> r.version, day |-> r.day,
           state |-> x, credits |-> r.credits, by |-> y]
<1> DEFINE s == [r EXCEPT !.state = x]
<1>1. s = [release |-> r.release, caps |-> r.caps, rows |-> r.rows, version |-> r.version, day |-> r.day,
           state |-> x, credits |-> r.credits, by |-> r.by]
  BY DEF IsRequest
<1> HIDE DEF s
<1>2. [s EXCEPT !.by = y] = [release |-> r.release, caps |-> r.caps, rows |-> r.rows, version |-> r.version, day |-> r.day,
           state |-> x, credits |-> r.credits, by |-> y]
  BY <1>1
<1> QED BY <1>2 DEF s

\* The worker computes a request with the release it pins, or fails it.
LEMMA RequestSettles ==
  ASSUME RoleInv, NEW r, RequestOK(r) PROVE RequestOK(Settled(r, Snapshot(r.release)))
<1> DEFINE found == Snapshot(r.release)
           release == CHOOSE x \in found : TRUE
<1>1. found \subseteq r.release /\ Single(r.release)
  BY DEF Snapshot, RequestOK
<1> HIDE DEF found, release
<1>2. CASE found = {}
  BY <1>2, RequestFails DEF Settled, found
<1>3. CASE found # {}
  <2>1. found = r.release /\ release \in found
    BY <1>1, <1>3 DEF Single, release
  <2>2. CASE Conflicts(release, r.caps)
    <3> DEFINE s == [r EXCEPT !.state = "FAILED", !.by = found]
    <3>1. s = [release |-> r.release, caps |-> r.caps, rows |-> r.rows, version |-> r.version, day |-> r.day,
               state |-> "FAILED", credits |-> r.credits, by |-> found]
      BY FailedFields DEF RequestOK
    <3>2. /\ IsRequest(s) /\ s.release = r.release /\ s.caps = r.caps /\ s.rows = r.rows /\ s.day = r.day
          /\ s.state = "FAILED"
      BY <3>1 DEF IsRequest
    <3>3. Settled(r, found) = s
      BY <1>3, <2>2 DEF Settled, release
    <3> HIDE DEF s
    <3>4. RequestOK(s)
      BY <3>2 DEF RequestOK
    <3> QED BY <3>3, <3>4 DEF found
  <2>3. CASE ~Conflicts(release, r.caps)
    <3> DEFINE credits == Evaluated(release, r.caps)
               s == [r EXCEPT !.state = "READY", !.by = found, !.credits = credits]
    <3>3. Settled(r, found) = s /\ credits = Evaluated(release, r.caps)
      BY <1>3, <2>3 DEF Settled, release
    <3> HIDE DEF credits
    <3>1. s = [release |-> r.release, caps |-> r.caps, rows |-> r.rows, version |-> r.version, day |-> r.day,
               state |-> "READY", credits |-> credits, by |-> found]
      <4> DEFINE t == [r EXCEPT !.state = "READY", !.by = found]
      <4>1. t = [release |-> r.release, caps |-> r.caps, rows |-> r.rows, version |-> r.version, day |-> r.day,
                 state |-> "READY", credits |-> r.credits, by |-> found]
        BY FailedFields DEF RequestOK
      <4> HIDE DEF t
      <4>2. [t EXCEPT !.credits = credits]
               = [release |-> r.release, caps |-> r.caps, rows |-> r.rows, version |-> r.version, day |-> r.day,
                  state |-> "READY", credits |-> credits, by |-> found]
        BY <4>1
      <4> QED BY <4>2 DEF t
    <3>2. /\ IsRequest(s) /\ s.release = r.release /\ s.caps = r.caps /\ s.rows = r.rows /\ s.day = r.day
          /\ s.by = found /\ s.credits = credits
      BY <3>1 DEF IsRequest
    <3> HIDE DEF s
    <3>4. RequestOK(s)
      BY <2>1, <3>2, <3>3 DEF RequestOK
    <3> QED BY <3>3, <3>4 DEF found
  <2> QED BY <2>2, <2>3
<1> QED BY <1>2, <1>3

\* An edit fails what waits and asks again with the release of the newest that has one.
LEMMA EditEnqueues ==
  ASSUME RoleInv, NEW active, RowsOK(active)
  PROVE  LogOK(Enqueued(active))
<1> DEFINE n == Len(requests)
<1>1. n \in Nat /\ requests = [i \in 1 .. n |-> requests[i]] /\ \A i \in 1 .. n : RequestOK(requests[i])
  BY DEF RoleInv, LogOK
<1>2. DOMAIN requests = 1 .. n
  BY <1>1, LogIsSequence
<1>3. CASE Carried = {}
  <2>1. RequestOK([NewRequest({}, active, version + 1) EXCEPT !.state = "FAILED"])
    BY RequestIsMade DEF Single
  <2> QED BY <1>3, <2>1, LogAppended DEF Enqueued, RoleInv
<1>4. CASE Carried # {}
  <2> DEFINE last == CHOOSE i \in Carried : \A j \in Carried : j <= i
             failed == [i \in DOMAIN requests |-> IF requests[i].state = "PENDING"
                                                  THEN [requests[i] EXCEPT !.state = "FAILED"] ELSE requests[i]]
  <2>1. Carried \in SUBSET (0 .. n) /\ Carried \subseteq 1 .. n
    BY DEF Carried
  <2>2. \E i \in Carried : \A j \in Carried : j <= i
    BY <1>1, <1>4, <2>1, GreatestNumber
  <2>3. last \in 1 .. n
    BY <2>1, <2>2
  <2>4. RequestOK(NewRequest(requests[last].release, active, version + 1))
    <3>1. requests[last].release \in SUBSET Releases /\ Single(requests[last].release)
      BY <1>1, <2>3 DEF RequestOK
    <3> HIDE DEF last
    <3> QED BY <3>1, RequestIsMade
  <2>5. LogOK(failed)
    <3>1. failed = [i \in 1 .. n |-> failed[i]]
      BY <1>2
    <3>2. \A i \in 1 .. n : RequestOK(failed[i])
      BY <1>1, <1>2, RequestFails
    <3> HIDE DEF failed
    <3> QED BY <1>1, <3>1, <3>2, LogReplaced
  <2>6. Enqueued(active) = Append(failed, NewRequest(requests[last].release, active, version + 1))
    BY <1>4 DEF Enqueued
  <2> QED BY <2>4, <2>5, <2>6, LogAppended
<1> QED BY <1>3, <1>4

-----------------------------------------------------------------------------
(* The steps.                                                                *)

\* A process that loads reads the contents there are, in some order, and the approval.
LEMMA LoadOK ==
  ASSUME RoleConstants, RoleInv, NEW p \in Processes, Load(p)
  PROVE  ProcOK(proc')
<1>1. content \in Contents /\ approval \in SUBSET Releases /\ Single(approval)
  BY DEF RoleInv, ApprovalOK
<1>2. CASE \E units \in SetToSeqs(content.units) : proc' = Loaded(p, units)
  <2>1. PICK units \in SetToSeqs(content.units) : proc' = Loaded(p, units)
    BY <1>2
  <2> DEFINE draft == Draft(content, units)
  <2>2. draft = Draft(content, SetToSeq(content.units)) /\ draft \subseteq Releases /\ Single(draft)
    BY <1>1, OneDraft, DraftIsRelease
  <2>3. proc' = [p EXCEPT !.draft = draft, !.retryable = FALSE, !.read = {content}, !.file = approval,
                          !.built = IF draft # {} /\ draft = approval THEN draft ELSE {}]
    BY <2>1 DEF Loaded
  <2> HIDE DEF draft
  <2>4. /\ proc' \in Processes /\ proc'.draft = draft /\ proc'.read = {content} /\ proc'.file = approval
        /\ proc'.built = IF draft # {} /\ draft = approval THEN draft ELSE {}
    BY <1>1, <2>2, <2>3 DEF Processes
  <2> QED BY <1>1, <2>2, <2>4 DEF ProcOK
<1>3. CASE proc' = LoadFailed(p)
  <2>1. proc' \in Processes /\ proc'.draft = {} /\ proc'.built = {} /\ proc'.read = {} /\ proc'.file = {}
    BY <1>3 DEF LoadFailed, Processes
  <2> QED BY <2>1 DEF ProcOK, Single
<1> QED BY <1>2, <1>3 DEF Load

\* The process comes, loads again, runs its worker, and goes.
LEMMA ProcessStepsOK ==
  ASSUME RoleConstants, RoleInv, Start \/ RetryLoad \/ RunWorker \/ Stop
  PROVE  RoleInv'
<1>1. UNCHANGED <<content, approval, rows, requests, day>> /\ proc \in Processes
  BY DEF Start, RetryLoad, RunWorker, Stop, RoleInv, ProcOK
<1>2. NoProc \in Processes /\ [NoProc EXCEPT !.up = TRUE] \in Processes /\ ProcOK(NoProc)
  BY DEF NoProc, Processes, ProcOK, Single
<1>3. ProcOK(proc')
  <2>1. CASE Start
    BY <1>2, <2>1, LoadOK DEF Start
  <2>2. CASE RetryLoad
    BY <1>1, <2>2, LoadOK DEF RetryLoad
  <2>3. CASE RunWorker
    <3>1. /\ proc' \in Processes /\ proc'.draft = proc.draft /\ proc'.built = proc.built
          /\ proc'.read = proc.read /\ proc'.file = proc.file
      BY <1>1, <2>3 DEF RunWorker, Processes
    <3> QED BY <3>1 DEF RoleInv, ProcOK
  <2>4. CASE Stop
    BY <1>2, <2>4 DEF Stop
  <2> QED BY <2>1, <2>2, <2>3, <2>4
<1> QED BY <1>1, <1>3 DEF RoleInv

\* Another catalog is published, a draft of the one there is is approved, a day passes.
LEMMA SurroundingsOK ==
  ASSUME RoleConstants, RoleInv, CatalogChanges \/ Approve \/ NextDay
  PROVE  RoleInv'
<1>1. CASE CatalogChanges
  BY <1>1 DEF CatalogChanges, RoleInv
<1>2. CASE Approve
  <2>1. ApprovalOK(approval')
    BY <1>2, DraftIsRelease DEF Approve, ApprovalOK, RoleInv
  <2> QED BY <1>2, <2>1 DEF Approve, RoleInv
<1>3. CASE NextDay
  <2>1. day' \in Int /\ UNCHANGED <<content, approval, proc, rows, requests>>
    BY <1>3 DEF NextDay, RoleInv
  <2> QED BY <2>1 DEF RoleInv
<1> QED BY <1>1, <1>2, <1>3

\* An edit leaves rows an account may have.
LEMMA EditOK == ASSUME RoleInv, NEW active, RowsOK(active), Edit(active) PROVE RoleInv'
<1>1. rows' = active /\ requests' = Enqueued(active) /\ UNCHANGED <<content, approval, proc, day>>
  BY DEF Edit
<1>2. LogOK(requests')
  BY <1>1, EditEnqueues
<1> QED BY <1>1, <1>2 DEF RoleInv

\* Answers, specs and completed outcomes are such rows.
LEMMA EditsOK ==
  ASSUME RoleConstants, RoleInv, ReplaceOnboarding \/ AddSpec \/ CompleteOutcome
  PROVE  RoleInv'
<1>1. RowsOK(rows)
  BY DEF RoleInv
<1>2. CASE ReplaceOnboarding
  <2>1. PICK ticked \in SUBSET Checklist(Release) : Edit(Answered(Release, ticked))
    BY <1>2 DEF ReplaceOnboarding
  <2>2. ASSUME NEW q \in Resolved(Release, ticked)
        PROVE  AnswerRow([kind |-> "onboarding", label |-> q.label, base |-> q.base, under |-> Release])
    <3>1. q \in Release.reqs
      BY <2>2 DEF Resolved, UnitsOf
    <3> QED BY <3>1 DEF AnswerRow
  <2>3. RowsOK(Answered(Release, ticked))
    BY <1>1, <2>2 DEF RowsOK, RowOK, Answered
  <2> QED BY <2>1, <2>3, EditOK
<1>3. CASE AddSpec
  <2>1. PICK s \in Specs \ rows : Edit(rows \cup {s})
    BY <1>3 DEF AddSpec
  <2>2. RowsOK(rows \cup {s})
    BY <1>1 DEF RowsOK, RowOK
  <2> QED BY <2>1, <2>2, EditOK
<1>4. CASE CompleteOutcome
  <2>1. PICK q \in UNION {release.reqs : release \in Latest.release} :
          Edit(rows \cup {[kind |-> "outcome", base |-> q.base, label |-> q.label]})
    BY <1>4 DEF CompleteOutcome
  <2>2. Len(requests) \in Nat /\ Len(requests) > 0
    BY <1>4, LogIsSequence DEF CompleteOutcome, RoleInv, LogOK
  <2>3. Latest.release \subseteq Releases
    BY <2>2 DEF Latest, RoleInv, LogOK, RequestOK
  <2>4. q.base # ""
    BY <2>1, <2>3, ReleaseIsDraft
  <2>5. OutcomeRow([kind |-> "outcome", base |-> q.base, label |-> q.label])
    BY <2>4 DEF OutcomeRow
  <2>6. RowsOK(rows \cup {[kind |-> "outcome", base |-> q.base, label |-> q.label]})
    BY <1>1, <2>5 DEF RowsOK, RowOK
  <2> QED BY <2>1, <2>6, EditOK
<1> QED BY <1>2, <1>3, <1>4

\* A request pins what is served, and is settled with what it pins.
LEMMA RequestStepsOK == ASSUME RoleConstants, RoleInv, RequestAnalysis \/ Process PROVE RoleInv'
<1>1. UNCHANGED <<content, approval, proc, rows, day>>
  BY DEF RequestAnalysis, Process
<1>2. CASE RequestAnalysis
  <2>1. proc.built \in SUBSET Releases /\ Single(proc.built) /\ RowsOK(rows)
    BY DEF RoleInv, ProcOK, Processes, Single
  <2>2. LogOK(requests')
    BY <1>2, <2>1, RequestIsMade, LogAppended DEF RequestAnalysis, RoleInv
  <2> QED BY <1>1, <2>2 DEF RoleInv
<1>3. CASE Process
  <2> DEFINE n == Len(requests)
             settled == Settled(requests[n], Snapshot(requests[n].release))
  <2>1. /\ n \in Nat /\ requests = [i \in 1 .. n |-> requests[i]] /\ \A i \in 1 .. n : RequestOK(requests[i])
        /\ DOMAIN requests = 1 .. n /\ requests' = [requests EXCEPT ![n] = settled]
    BY <1>3, LogIsSequence DEF Process, RoleInv, LogOK
  <2>2. n \in 1 .. n
    BY <1>3, <2>1 DEF Process
  <2>3. RequestOK(settled)
    BY <2>1, <2>2, RequestSettles
  <2> HIDE DEF settled, n
  <2>4. requests' = [i \in 1 .. n |-> requests'[i]] /\ \A i \in 1 .. n : RequestOK(requests'[i])
    BY <2>1, <2>2, <2>3
  <2>5. LogOK(requests')
    BY <2>1, <2>4, LogReplaced
  <2> QED BY <1>1, <2>5 DEF RoleInv
<1> QED BY <1>2, <1>3

\* Nothing is approved, built or requested at first.
LEMMA RoleInitOK == ASSUME RoleConstants, Init PROVE RoleInv
<1>1. NoProc \in Processes /\ ProcOK(NoProc) /\ ApprovalOK({}) /\ RowsOK({})
  BY DEF NoProc, Processes, ProcOK, Single, ApprovalOK, RowsOK
<1>2. requests = [i \in 1 .. 0 |-> requests[i]]
  BY DEF Init
<1>3. LogOK(requests)
  <2>1. 0 \in Nat /\ \A i \in 1 .. 0 : RequestOK(requests[i])
    OBVIOUS
  <2> QED BY <1>2, <2>1, LogReplaced
<1> QED BY <1>1, <1>3 DEF Init, RoleInv

\* Every step.
LEMMA RoleNextOK == ASSUME RoleConstants, RoleInv, [Next]_vars PROVE RoleInv'
<1>1. CASE UNCHANGED vars
  BY <1>1 DEF vars, RoleInv
<1>2. CASE Next
  BY <1>2, ProcessStepsOK, SurroundingsOK, EditsOK, RequestStepsOK DEF Next
<1> QED BY <1>1, <1>2

-----------------------------------------------------------------------------
(* What the invariant says.                                                  *)

\* A credit of a ready request was earned by a row it keeps.
LEMMA CreditsAreEarned ==
  ASSUME RoleConstants, NEW r, RequestOK(r), r.state = "READY", NEW b \in DOMAIN r.credits, r.credits[b] > 0
  PROVE  \E row \in r.rows :
           \/ row.kind = "outcome" /\ row.base = b
           \/ /\ row.kind \notin {"outcome", "onboarding", "education"}
              /\ b \in row.bases /\ row.evidence
              /\ row.kind = "certification" => row.from <= r.day /\ r.day <= row.until
<1>1. PICK d \in r.by : r.credits = Evaluated(d, r.caps)
  BY DEF RequestOK
<1>2. r.credits[b] = CreditFor(d, r.caps, b)
  BY <1>1 DEF Evaluated
<1>3. \A k \in r.caps : \E row \in r.rows : RowOK(row) /\ k \in InputsOf(row, r.day)
  BY DEF RequestOK, RowsOK, Capabilities
<1>4. r.day \in Int
  BY DEF RequestOK
<1>5. \A k \in r.caps : k.credit \in 0 .. 4
  BY <1>3, <1>4, InputsAreEarned
<1>6. PICK k \in Target(d, r.caps) : b \in ResolvedAs(d, k) /\ k.credit = CreditFor(d, r.caps, b)
  BY <1>2, <1>5, BestRecordCounts
<1>7. k \in r.caps /\ k.credit > 0
  BY <1>2, <1>6 DEF Target
<1>8. PICK row \in r.rows : RowOK(row) /\ k \in InputsOf(row, r.day)
  BY <1>3, <1>7
<1>9. k.base # ""
  BY <1>4, <1>7, <1>8, InputsAreEarned
<1>10. b = k.base
  BY <1>6, <1>9 DEF ResolvedAs
<1> QED BY <1>4, <1>7, <1>8, <1>10, InputsAreEarned

\* What the invariant says of the approval, the shares, the credits and the answers.
LEMMA RoleInvPins == ASSUME RoleConstants, RoleInv PROVE RolesPinned
<1>1. ApprovalOutlivesRestart
  <2>1. ASSUME NEW d \in proc.file, proc.read = {d.content} PROVE Available
    <3>1. d \in Releases /\ proc.file = {d}
      BY <2>1 DEF RoleInv, ProcOK, Processes, Single
    <3>2. Draft(d.content, SetToSeq(d.content.units)) = {d}
      BY <3>1, ReleaseIsDraft
    <3> QED BY <2>1, <3>1, <3>2 DEF RoleInv, ProcOK, Available
  <2> QED BY <2>1 DEF ApprovalOutlivesRestart
<1>2. DemandIsAShare
  <2>1. proc.draft \subseteq Releases
    BY DEF RoleInv, ProcOK, Processes
  <2> QED BY <2>1, DemandOK DEF DemandIsAShare
<1>3. AnalysedAsPinned
  BY DEF AnalysedAsPinned, RoleInv, LogOK, RequestOK
<1>4. CreditIsEarned
  BY CreditsAreEarned DEF CreditIsEarned, RoleInv, LogOK
<1>5. ShownCreditIsCounted
  <2>1. proc.built \subseteq Releases /\ RowsOK(rows) /\ day \in Int
    BY DEF RoleInv, ProcOK, Processes
  <2> QED BY <2>1, ShownIsCounted DEF ShownCreditIsCounted, RowsOK
<1>6. AnswersWereRequirements
  BY DEF AnswersWereRequirements, RoleInv, RowsOK, RowOK, OutcomeRow, AnswerRow, RoleConstants
<1> QED BY <1>1, <1>2, <1>3, <1>4, <1>5, <1>6 DEF RolesPinned

\* An approval outlives restarts and the order of the rows, demand is a share of the postings, an
\* analysis is made with the release its request pinned, and a credit is earned by evidence
\* and shown as it is counted, on both code paths (ProductRoleHolder, spec_credit).
THEOREM RolesArePinned == ASSUME RoleConstants PROVE Spec => []RolesPinned
<1>1. Init => RoleInv
  BY RoleInitOK
<1>2. RoleInv /\ [Next]_vars => RoleInv'
  BY RoleNextOK
<1>3. RoleInv => RolesPinned
  BY RoleInvPins
<1> QED BY <1>1, <1>2, <1>3, PTL DEF Spec

=============================================================================
