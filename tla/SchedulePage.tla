---------------------------- MODULE SchedulePage ----------------------------
(***************************************************************************)
(* The schedule page: useScheduler keeps the schedules and their runs in   *)
(* the browser's memory, and each of its operations takes effect when a    *)
(* timer ends.  Days are counted from 0, each day is two instants, before  *)
(* and at the hour schedules run at; months are long and short in turn.    *)
(***************************************************************************)
EXTENDS Integers, Sequences, SequencesExt

CONSTANTS
  NoSchedule,  \* no schedule is being triggered
  MaxSchedules, \* bound: schedules that are created
  Week,        \* days of a week
  Long,        \* days of a long month
  Short,       \* days of a short month
  Patterns,    \* the kinds of schedule and their days that are asked for
  MaxStarts,   \* bound: operations that are started
  MaxInstant   \* bound: the instants

ASSUME Calendar == Week \in Nat \ {0} /\ Short \in Nat \ {0} /\ Long \in Nat /\ Long > Short
ASSUME PageBounds == MaxStarts \in Nat /\ MaxInstant \in Nat /\ MaxSchedules \in Nat
ASSUME PatternsKnown ==
  Patterns \subseteq [kind: {"daily", "weekly", "monthly", "event"}, date: 1 .. Long]

ScheduleIds == 1 .. MaxSchedules   \* given once each

VARIABLES
  schedules,  \* the list, by id
  logged,     \* the runs that are listed, per schedule
  triggering, \* the schedule whose trigger button spins
  timers,     \* the operations under way, in the order they were started
  clock,      \* the instant
  beat,       \* the instant of the last heartbeat
  started,    \* how many operations have been started
  given,      \* the ids that have been given
  asked,      \* history, per schedule: the status the last click asked for
  broken,     \* history: schedules that failed while no pause or resume was under way
  overtaken   \* history: schedules that were deleted while a trigger was under way

scheduleHistory == <<asked, broken, overtaken>>
scheduleVars == <<schedules, logged, triggering, timers, clock, beat, started, given,
                  scheduleHistory>>

NoRow == [made |-> FALSE, pattern |-> [kind |-> "event", date |-> 1], fragile |-> FALSE,
          status |-> "active", next |-> 0, total |-> 0]
Listed == {s \in ScheduleIds : schedules[s].made}

(* The schedules of the mock data have been deleted.                       *)
ScheduleInit ==
  /\ schedules = [s \in ScheduleIds |-> NoRow] /\ logged = [s \in ScheduleIds |-> 0]
  /\ triggering = NoSchedule /\ timers = <<>> /\ started = 0 /\ given = {}
  /\ clock \in 0 .. MaxInstant /\ beat = clock
  /\ asked = [s \in ScheduleIds |-> "active"] /\ broken = {} /\ overtaken = {}

-----------------------------------------------------------------------------
(* computeNextRun: the date arithmetic of JavaScript, where a day past the *)
(* end of a month is a day of the next one.                                *)

Today(t) == t \div 2
AtHour(day) == 2 * day + 1

FirstDay(month) == (month \div 2) * (Long + Short) + (month % 2) * Long
MonthOf(day) == CHOOSE m \in 0 .. day : FirstDay(m) <= day /\ day < FirstDay(m + 1)

SetDate(day, date) == FirstDay(MonthOf(day)) + date - 1
SetNextMonth(day)  == FirstDay(MonthOf(day) + 1) + day - FirstDay(MonthOf(day))

NextDaily(t)  == IF AtHour(Today(t)) <= t THEN AtHour(Today(t) + 1) ELSE AtHour(Today(t))
NextWeekly(t, weekday) ==
  LET until == (weekday - (Today(t) % Week) + Week) % Week
  IN AtHour(Today(t) + IF until = 0 /\ AtHour(Today(t)) <= t THEN Week ELSE until)
NextMonthly(t, date) ==
  LET first == SetDate(Today(t), date)
  IN AtHour(IF AtHour(first) <= t THEN SetDate(SetNextMonth(first), date) ELSE first)

(* A schedule without a time runs on a trigger: 0.                         *)
computeNextRun(t, pattern) ==
  CASE pattern.kind = "daily"   -> NextDaily(t)
    [] pattern.kind = "weekly"  -> NextWeekly(t, pattern.date % Week)
    [] pattern.kind = "monthly" -> NextMonthly(t, pattern.date)
    [] pattern.kind = "event"   -> 0

-----------------------------------------------------------------------------
(* The operations: a click starts a timer.                                 *)

Delay == [pause |-> 300, resume |-> 300, delete |-> 400, create |-> 800, trigger |-> 1200]

Launch(op, s, with) ==
  /\ started < MaxStarts /\ started' = started + 1
  /\ timers' = Append(timers, [op |-> op, id |-> s, with |-> with])

(* The dialog saves a schedule; the edit button opens the same one.        *)
Save ==
  /\ \E s \in ScheduleIds, p \in Patterns, fragile \in BOOLEAN :
       /\ s \notin given /\ (s # 1 => s - 1 \in given)
       /\ given' = given \cup {s}
       /\ Launch("create", s, [NoRow EXCEPT !.pattern = p, !.fragile = fragile])
  /\ UNCHANGED <<schedules, logged, triggering, clock, beat, scheduleHistory>>

ClickStatus(s) ==
  /\ s \in Listed
  /\ \/ /\ schedules[s].status = "active"
        /\ Launch("pause", s, NoRow) /\ asked' = [asked EXCEPT ![s] = "paused"]
     \/ /\ schedules[s].status = "paused"
        /\ Launch("resume", s, NoRow) /\ asked' = [asked EXCEPT ![s] = "active"]
  /\ UNCHANGED <<schedules, logged, triggering, clock, beat, given, broken, overtaken>>

ClickDelete(s) ==
  /\ s \in Listed /\ Launch("delete", s, NoRow)
  /\ UNCHANGED <<schedules, logged, triggering, clock, beat, given, scheduleHistory>>

(* The trigger keeps the list it was rendered with.                        *)
ClickTrigger(s) ==
  /\ s \in Listed /\ triggering # s /\ schedules[s].status # "failed"
  /\ triggering' = s /\ Launch("trigger", s, schedules[s])
  /\ UNCHANGED <<schedules, logged, clock, beat, given, scheduleHistory>>

-----------------------------------------------------------------------------
(* A timer ends; of two that run, the earlier ends first unless it is the  *)
(* longer one.                                                             *)

Ends(k, op) ==
  /\ timers[k].op = op
  /\ \A j \in 1 .. k - 1 : Delay[timers[j].op] > Delay[op]
  /\ timers' = RemoveAt(timers, k)

InProgress(ops, s) == \E k \in DOMAIN timers : timers[k].op \in ops /\ timers[k].id = s

EndCreate(k) ==
  LET row == timers[k].with
  IN /\ Ends(k, "create")
     /\ schedules' = [schedules EXCEPT ![timers[k].id] =
          [row EXCEPT !.made = TRUE, !.next = computeNextRun(clock, row.pattern)]]
     /\ UNCHANGED <<logged, triggering, clock, beat, started, given, scheduleHistory>>

EndPause(k) ==
  /\ Ends(k, "pause")
  /\ schedules' = IF timers[k].id \in Listed
                  THEN [schedules EXCEPT ![timers[k].id].status = "paused"] ELSE schedules
  /\ UNCHANGED <<logged, triggering, clock, beat, started, given, scheduleHistory>>

EndResume(k) ==
  LET s   == timers[k].id
      row == schedules[s]
  IN /\ Ends(k, "resume")
     /\ schedules' = IF s \in Listed
                     THEN [schedules EXCEPT ![s].status = "active",
                             ![s].next = computeNextRun(clock, row.pattern)]
                     ELSE schedules
     /\ UNCHANGED <<logged, triggering, clock, beat, started, given, scheduleHistory>>

EndDelete(k) ==
  LET s == timers[k].id
  IN /\ Ends(k, "delete")
     /\ schedules' = [schedules EXCEPT ![s] = NoRow] /\ logged' = [logged EXCEPT ![s] = 0]
     /\ overtaken' = IF InProgress({"trigger"}, s) THEN overtaken \cup {s} ELSE overtaken
     /\ broken' = broken \ {s}
     /\ UNCHANGED <<triggering, clock, beat, started, given, asked>>

(* Slip: the status the schedule had when the button was clicked.          *)
StatusThen(seen, row, success) ==
  IF ~success /\ row.fragile THEN "failed" ELSE seen.status

(* retry_count stays 0: a failure counts as the last retry when max_retries *)
(* is at most 1 (fragile).                                                 *)
StatusAfter(seen, row, success) ==
  IF ~success /\ row.fragile THEN "failed" ELSE row.status

(* The run is put in the list of runs also when the schedule is gone.      *)
EndTrigger(k) ==
  LET s   == timers[k].id
      row == schedules[s]
  IN /\ Ends(k, "trigger")
     /\ \E success \in BOOLEAN :
          /\ IF s \notin Listed THEN UNCHANGED <<schedules, broken>>
             ELSE /\ schedules' = [schedules EXCEPT ![s] =
                       [row EXCEPT !.total = @ + 1,
                                   !.status = StatusAfter(timers[k].with, row, success)]]
                  /\ broken' = IF ~success /\ row.fragile /\ ~InProgress({"pause", "resume"}, s)
                               THEN broken \cup {s} ELSE broken
     /\ logged' = [logged EXCEPT ![s] = @ + 1]
     /\ triggering' = NoSchedule
     /\ UNCHANGED <<clock, beat, started, given, asked, overtaken>>

-----------------------------------------------------------------------------
(* Half a day passes; the heartbeat, every minute, comes before the next.  *)
HalfDay ==
  /\ beat = clock /\ clock < MaxInstant /\ clock' = clock + 1
  /\ UNCHANGED <<schedules, logged, triggering, timers, beat, started, given, scheduleHistory>>

Heartbeat ==
  /\ beat # clock /\ beat' = clock
  /\ schedules' = [s \in ScheduleIds |->
       LET row == schedules[s]
       IN IF s \in Listed /\ row.status = "active" /\ row.next # 0
          THEN [row EXCEPT !.next = computeNextRun(clock, row.pattern)] ELSE row]
  /\ UNCHANGED <<logged, triggering, timers, clock, started, given, scheduleHistory>>

ScheduleNext ==
  \/ Save \/ HalfDay \/ Heartbeat
  \/ \E s \in ScheduleIds : ClickStatus(s) \/ ClickDelete(s) \/ ClickTrigger(s)
  \/ \E k \in DOMAIN timers : \/ EndCreate(k) \/ EndPause(k) \/ EndResume(k)
                              \/ EndDelete(k) \/ EndTrigger(k)

SchedulePageSpec == ScheduleInit /\ [][ScheduleNext]_scheduleVars

-----------------------------------------------------------------------------
(* Properties.                                                             *)

(* Types of the page's state.                                              *)
PageTypeOK ==
  /\ \A s \in ScheduleIds : /\ schedules[s].status \in {"active", "paused", "failed"}
                            /\ schedules[s].next \in Nat /\ logged[s] \in Nat
  /\ triggering \in ScheduleIds \cup {NoSchedule}
  /\ \A k \in DOMAIN timers : timers[k].op \in DOMAIN Delay

(* What computeNextRun is for: the first instant after t that the schedule *)
(* names.                                                                  *)
Names(pattern, t) ==
  /\ t % 2 = 1
  /\ CASE pattern.kind = "daily"   -> TRUE
       [] pattern.kind = "weekly"  -> Today(t) % Week = pattern.date % Week
       [] pattern.kind = "monthly" -> Today(t) = SetDate(Today(t), pattern.date)

IsNext(pattern, t, next) ==
  /\ next > t /\ Names(pattern, next)
  /\ \A between \in t + 1 .. next - 1 : ~Names(pattern, between)

(* Whatever is clicked while timers run: what is counted is what is        *)
(* listed; a status is the one last asked for or a failure, which only a   *)
(* click made before it ends; a run without its schedule was under way     *)
(* when that was deleted; no button spins without a timer; and an active   *)
(* schedule shows its next run, which for a day some months do not have is *)
(* only some later instant.                                                *)
PageAgrees ==
  /\ \A s \in Listed :
       LET row == schedules[s]
       IN /\ row.total = logged[s]
          /\ ~InProgress({"pause", "resume"}, s) => row.status \in {asked[s], "failed"}
          /\ row.status = "failed" => row.fragile
          /\ row.status = "active" /\ row.pattern.kind # "event" /\ beat = clock =>
               IF row.pattern.kind = "monthly" /\ row.pattern.date > Short THEN row.next > clock
               ELSE IsNext(row.pattern, clock, row.next)
  /\ \A s \in broken : schedules[s].status = "failed"
  /\ \A s \in ScheduleIds \ Listed : logged[s] > 0 => s \in overtaken
  /\ triggering # NoSchedule => InProgress({"trigger"}, triggering)
=============================================================================
