----------------------------- MODULE WeeklyPack -----------------------------
(***************************************************************************)
(* The weekly calculator (application/weekly_plan.py, _pack): it walks the *)
(* calendar hour by hour and gives each available hour to one of at most   *)
(* MaxActive activities in progress, by priority and prerequisites, until  *)
(* all requested hours are placed or the calendar ends.                    *)
(*                                                                         *)
(* Hours are counted from the Monday of the plan's first week, in the      *)
(* goal's time zone without daylight saving; a day has DayLen and a week   *)
(* WeekDays * DayLen of them.  Steps are numbered by their recommended     *)
(* position.  A request (job) is any of Jobs.                              *)
(***************************************************************************)
EXTENDS Integers, Sequences, FiniteSets, Functions

CONSTANTS Jobs,               \* the requests of the instance
          DayLen, WeekDays,   \* 24 and 7 in the code
          MaxActive,          \* MAX_ACTIVE_LEARNING_ACTIVITIES
          MaxWeeks            \* MAX_CUSTOM_PLAN_WEEKS

WeekLen == DayLen * WeekDays

VARIABLES
  job,        \* the request being packed
  packPc,     \* "idle", "packing", "packed", "failed"
  cursor,     \* the hour under consideration
  remaining,  \* remaining[s]: hours of step s still to place
  waiting,    \* waiting[s]: prerequisites of s not finished yet
  ready,      \* steps that may start, by priority
  active,     \* steps in progress, in turn
  used,       \* used[w]: hours taken in week w, those of completed steps included
  placed      \* placed[s]: the hours given to step s (first, last and allocations)

packVars == <<job, packPc, cursor, remaining, waiting, ready, active, used, placed>>

NoJob == [order |-> <<>>]

PackInit ==
  /\ job = NoJob /\ packPc = "idle" /\ cursor = 0
  /\ remaining = <<>> /\ waiting = <<>> /\ ready = <<>> /\ active = <<>> /\ used = <<>> /\ placed = <<>>

-----------------------------------------------------------------------------
Week(hour) == hour \div WeekLen + 1
Day(hour)  == hour \div DayLen

NextMonday(hour) == Week(hour) * WeekLen

Least(a, b)    == IF a < b THEN a ELSE b
Greatest(a, b) == IF a < b THEN b ELSE a

\* slot_is_available, for one whole hour: some window of that weekday holds it, or
\* there are no windows; excluded days never do.
SlotIsAvailable(hour, windows, excluded) ==
  /\ Day(hour) \notin excluded
  /\ windows = {} \/ \E w \in windows : /\ w.weekday = (Day(hour) % WeekDays) + 1
                                        /\ w.start <= hour % DayLen /\ hour % DayLen < w.end

\* _working_hour_offset: a solver start on the axis of weekly working hours.
WorkingHourOffset(value, start, weekly) ==
  LET weeks == Week(value) - Week(start)
      first == Least(weekly, NextMonday(start) - start)
  IN  IF weeks <= 0 THEN Greatest(0, Least(weekly, value - start))
      ELSE first + (weeks - 1) * weekly + Least(weekly, value % WeekLen)

\* _preferred_start_offsets: kept only while the order is the recommended one.
Recommended(order) == \A i, k \in DOMAIN order : i < k => order[i] < order[k]
PreferredStart(s) ==
  IF (job.custom /\ ~Recommended(job.order)) \/ s \notin DOMAIN job.planned THEN 0
  ELSE WorkingHourOffset(job.planned[s], job.start, job.recommendedWeekly)

Steps(j) == Range(j.order)
Open(j)  == Steps(j) \ DOMAIN j.fixed

\* Steps completed before (fixed) occupy their weeks and are not placed again.
FixedHours(j, w) == Cardinality({h \in UNION {j.fixed[s] : s \in DOMAIN j.fixed} : Week(h) = w})
FixedEnd(j)      == {h + 1 : h \in UNION {j.fixed[s] : s \in DOMAIN j.fixed}}

\* future_start: a customized plan only moves what is not in the past.
FutureStart(j) ==
  IF j.custom \/ DOMAIN j.fixed # {}
    THEN CHOOSE h \in FixedEnd(j) \cup {j.start, j.asOf} :
           \A g \in FixedEnd(j) \cup {j.start, j.asOf} : g <= h
    ELSE j.start

\* Prerequisites that are steps of this roadmap and complete do not count.
Unfinished(j, s) == j.prerequisites[s] \ j.completed

StartPack(j) ==
  /\ packPc = "idle" /\ packPc' = "packing" /\ job' = j
  /\ cursor' = FutureStart(j)
  /\ remaining' = [s \in Open(j) |-> j.hours[s]]
  /\ waiting' = [s \in Open(j) |-> Unfinished(j, s)]
  /\ ready' = SelectSeq(j.order, LAMBDA s : s \in Open(j) /\ Unfinished(j, s) = {})
  /\ active' = <<>>
  /\ used' = [w \in 1 .. MaxWeeks + Week(FutureStart(j)) |-> FixedHours(j, w)]
  /\ placed' = [s \in Open(j) |-> {}]

-----------------------------------------------------------------------------
HoursLeft == {s \in DOMAIN remaining : remaining[s] > 0}
PlacedHours == UNION {placed[s] : s \in DOMAIN placed}
CalendarLimit == FutureStart(job) + MaxWeeks * WeekLen

Packing == packPc = "packing" /\ HoursLeft # {}

\* The calendar ends first: WeeklyPlanSchedulingError.
GiveUp ==
  /\ Packing /\ cursor >= CalendarLimit
  /\ packPc' = "failed"
  /\ UNCHANGED <<job, cursor, remaining, waiting, ready, active, used, placed>>

WeekIsOver(hour) == Week(hour) \in job.rests \/ used[Week(hour)] >= job.weekly

\* An excluded day, a rest week or a full week is skipped whole, an hour outside
\* the windows by itself.
Skip ==
  /\ Packing /\ cursor < CalendarLimit
  /\ cursor' = CASE Day(cursor) \in job.excluded -> (Day(cursor) + 1) * DayLen
                 [] Day(cursor) \notin job.excluded /\ WeekIsOver(cursor) -> NextMonday(cursor)
                 [] OTHER -> cursor + 1
  /\ \/ Day(cursor) \in job.excluded \/ WeekIsOver(cursor)
     \/ ~SlotIsAvailable(cursor, job.windows, job.excluded)
  /\ UNCHANGED <<job, packPc, remaining, waiting, ready, active, used, placed>>

\* One admission: the first ready step whose preferred start has come; with nothing
\* in progress, the first ready step at all.
Due == {s \in Range(ready) : PreferredStart(s) <= Cardinality(PlacedHours)}

AdmitOne(state) ==
  LET due == SelectSeq(state.ready, LAMBDA s : s \in Due)
      pick == IF due # <<>> THEN due ELSE IF active \o state.admitted = <<>> THEN state.ready ELSE <<>>
  IN  IF pick = <<>> \/ Len(active) + Len(state.admitted) >= MaxActive THEN state
      ELSE [ready    |-> SelectSeq(state.ready, LAMBDA s : s # pick[1]),
            admitted |-> Append(state.admitted, pick[1])]

Admitting ==
  LET admit[n \in 0 .. MaxActive] ==
        IF n = 0 THEN [ready |-> ready, admitted |-> <<>>] ELSE AdmitOne(admit[n - 1])
  IN  admit[MaxActive]

\* Newly admitted steps go first; if nothing can start (broken dependencies), the
\* first step with hours left is taken all the same.
Turns ==
  LET turns == Admitting.admitted \o active
  IN  IF turns # <<>> THEN turns
      ELSE <<SelectSeq(job.order, LAMBDA s : s \in HoursLeft)[1]>>

\* Mutant: finishing a step clears every dependent's prerequisites.
WaitingAfterAll(key) == [s \in DOMAIN waiting |-> IF key \in waiting[s] THEN {} ELSE waiting[s]]

\* A finished step frees its dependents, and ready is sorted by priority again.
WaitingAfter(key) == [s \in DOMAIN waiting |-> waiting[s] \ {key}]

ReadyAfter(key) ==
  LET freed == {s \in DOMAIN waiting : /\ key \in waiting[s] /\ WaitingAfter(key)[s] = {}
                                       /\ remaining[s] > 0 /\ s # key
                                       /\ s \notin Range(Turns)}
  IN  SelectSeq(job.order, LAMBDA s : s \in Range(Admitting.ready) \cup freed)

NextHour == cursor + 1

\* One available hour goes to the step whose turn it is.
Work ==
  LET key == Turns[1] IN
  /\ Packing /\ cursor < CalendarLimit
  /\ Day(cursor) \notin job.excluded /\ ~WeekIsOver(cursor)
  /\ SlotIsAvailable(cursor, job.windows, job.excluded)
  /\ placed' = [placed EXCEPT ![key] = @ \cup {cursor}]
  /\ remaining' = [remaining EXCEPT ![key] = @ - 1]
  /\ used' = [used EXCEPT ![Week(cursor)] = @ + 1]
  /\ cursor' = NextHour
  /\ IF remaining[key] > 1
       THEN active' = Append(Tail(Turns), key) /\ ready' = Admitting.ready /\ waiting' = waiting
       ELSE active' = Tail(Turns) /\ ready' = ReadyAfter(key) /\ waiting' = WaitingAfter(key)
  /\ UNCHANGED <<job, packPc>>

Finish ==
  /\ packPc = "packing" /\ HoursLeft = {}
  /\ packPc' = "packed"
  /\ UNCHANGED <<job, cursor, remaining, waiting, ready, active, used, placed>>

PackNext == (\E j \in Jobs : StartPack(j)) \/ GiveUp \/ Skip \/ Work \/ Finish

PackSpec == PackInit /\ [][PackNext]_packVars /\ WF_packVars(GiveUp \/ Skip \/ Work \/ Finish)

-----------------------------------------------------------------------------
\* The variables have their values: what is ready or active is a step of the job, and
\* every step has its hours left (_pack).
PackTypeOK ==
  /\ packPc \in {"idle", "packing", "packed", "failed"} /\ cursor \in Nat
  /\ DOMAIN placed = DOMAIN remaining /\ \A s \in DOMAIN remaining : remaining[s] \in Nat
  /\ Range(ready) \subseteq DOMAIN remaining /\ Range(active) \subseteq DOMAIN remaining

\* Every requested hour is placed once, and two steps never share an hour.
HoursPlacedOnce ==
  /\ \A s \in DOMAIN remaining : Cardinality(placed[s]) + remaining[s] = job.hours[s]
  /\ \A s, t \in DOMAIN placed : s # t => placed[s] \cap placed[t] = {}

\* The hours of the calendar before the cursor that the user has for learning.
Usable(w) ==
  {h \in FutureStart(job) .. cursor - 1 :
     Week(h) = w /\ w \notin job.rests /\ SlotIsAvailable(h, job.windows, job.excluded)}

\* The calendar is respected and no available capacity is left idle: in every week
\* passed, exactly as many available hours are taken as the weekly capacity leaves
\* after the completed steps; so it gives up only when the calendar is really full.
CapacityIsUsed ==
  packPc # "idle" =>
    \A w \in 1 .. Week(cursor) - 1 :
      LET room == Greatest(0, job.weekly - FixedHours(job, w))
      IN  /\ {h \in PlacedHours : Week(h) = w} \subseteq Usable(w)
          /\ Cardinality({h \in PlacedHours : Week(h) = w}) = Least(room, Cardinality(Usable(w)))
             \/ HoursLeft = {}

\* Steps whose unfinished prerequisites are all steps of the plan, without circles.
Sound ==
  UNION {ss \in SUBSET Open(job) :
           \E rank \in [ss -> 1 .. Cardinality(ss)] :
             \A s \in ss : \A q \in job.prerequisites[s] \ job.completed : q \in ss /\ rank[q] < rank[s]}

\* Priority never overrides a prerequisite: a step with sound prerequisites takes its
\* first hour after the last hour of each of them, whatever the requested order.
PrerequisitesFirst ==
  packPc # "idle" =>
    \A s \in Sound : \A q \in job.prerequisites[s] \ job.completed :
      placed[s] # {} => remaining[q] = 0 /\ \A h \in placed[s], g \in placed[q] : g < h

\* "At most two activities are in progress."
FewInProgress ==
  Cardinality({s \in HoursLeft : placed[s] # {}}) <= MaxActive

\* The calculator always comes to an end, also with circular or missing
\* prerequisites ("rather than hanging the scheduler").
PackEnds == packPc = "packing" ~> packPc \in {"packed", "failed"}
=============================================================================
