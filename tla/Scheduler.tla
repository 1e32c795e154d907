----------------------------- MODULE Scheduler -----------------------------
(***************************************************************************)
(* One schedule: its row in PostgreSQL, its repeatable jobs in BullMQ and  *)
(* the firings of fireCron.  schedulerService answers a call as soon as    *)
(* the row is written; startCronTask and stopCronTask are not awaited and  *)
(* go on after the answer, as tasks of their own, in any order with the    *)
(* tasks of other calls.                                                   *)
(*                                                                         *)
(* A definition headed "Slip:" is a wrong variant of the one below it; the *)
(* properties are tried on the system with one slip put in.                *)
(***************************************************************************)
EXTENDS Naturals, FiniteSets

CONSTANTS
  SchedCalls, \* HTTP calls and server starts, each served once
  Firings,    \* times fireCron is called
  Patterns,   \* cron expressions
  NoPattern,
  MaxSchedFaults \* bound: awaited calls that fail, or processes that die

ASSUME CallsFinite       == IsFiniteSet(SchedCalls)
ASSUME FiringsFinite     == IsFiniteSet(Firings)
ASSUME NoPatternIsNone   == NoPattern \notin Patterns
ASSUME MaxFaultsIsNat    == MaxSchedFaults \in Nat

SchedOps == {"create", "update", "pause", "resume", "delete", "init"}

VARIABLES
  row,       \* the Schedule row: absent, active, soft-deleted, gone with its agent
  paused,    \* Schedule.isPaused
  pattern,   \* Schedule.cronExpression
  crossing,  \* history: the firings past fireCron's check when it was last stopped
  crons,     \* patterns of the repeatable jobs with id repeat:<scheduleId>
  handler,   \* the handlers
  task,      \* the startCronTask or stopCronTask each handler launched
  fire,      \* where each fireCron is
  run,       \* ScheduleRun.status of each firing
  jobs,      \* firings whose agent run was enqueued
  runs,      \* Schedule.runsCount
  failures,  \* Schedule.failureCount
  late,      \* history: firings that found the schedule stopped
  inTurn,    \* history: no call began before everything earlier had settled
  schedFaults \* history: what failed so far

rowVars  == <<row, paused, pattern, crossing>>
fireVars == <<fire, run, jobs, runs, failures, late>>
schedVars == <<rowVars, crons, handler, task, fireVars, inTurn, schedFaults>>

Unserved == [at |-> "idle", op |-> "init", arg |-> NoPattern, saw |-> FALSE]
NoTask   == [at |-> "none", target |-> NoPattern, key |-> NoPattern]

SchedInit ==
  /\ row = "absent" /\ paused = FALSE /\ pattern = NoPattern /\ crossing = {}
  /\ crons = {}
  /\ handler = [c \in SchedCalls |-> Unserved]
  /\ task = [c \in SchedCalls |-> NoTask]
  /\ fire = [f \in Firings |-> "idle"]
  /\ run  = [f \in Firings |-> "NONE"]
  /\ jobs = {}
  /\ runs = 0 /\ failures = 0
  /\ late = {}
  /\ inTurn = TRUE
  /\ schedFaults = 0

AtRest == \A c \in SchedCalls : handler[c].at \in {"idle", "done"} /\ task[c] = NoTask

SchedFault == schedFaults < MaxSchedFaults /\ schedFaults' = schedFaults + 1

-----------------------------------------------------------------------------
(* The handlers.                                                           *)

EndCall(c) == handler' = [handler EXCEPT ![c] = [Unserved EXCEPT !.at = "done"]]

(* stopCronTask begins by listing the repeatable jobs, and startCronTask   *)
(* begins with a stopCronTask.                                             *)
Launch(c, target) == task' = [task EXCEPT ![c] = [NoTask EXCEPT !.at = "list", !.target = target]]

(* A call arrives.  The schedule is created once; its id is known then.    *)
ServeCall(c, op, p) ==
  /\ handler[c].at = "idle"
  /\ op = "create" <=> row = "absent"
  /\ op = "create" => \A d \in SchedCalls : handler[d].at # "write"
  /\ op \in {"create", "update"} <=> p # NoPattern
  /\ handler' = [handler EXCEPT ![c] = [at  |-> IF op = "create" THEN "write" ELSE "read",
                                        op  |-> op, arg |-> p, saw |-> FALSE]]
  /\ inTurn' = (inTurn /\ AtRest)
  /\ UNCHANGED <<rowVars, crons, task, fireVars, schedFaults>>

(* getById answers 404; pause and resume answer 400 when there is nothing  *)
(* to do; init loads the schedules that are active and not paused.         *)
Refused(op) ==
  \/ row # "active"
  \/ op \in {"pause", "init"} /\ paused
  \/ op = "resume" /\ ~paused

RefuseCall(c) ==
  /\ handler[c].at = "read" /\ Refused(handler[c].op)
  /\ EndCall(c)
  /\ UNCHANGED <<rowVars, crons, task, fireVars, inTurn, schedFaults>>

(* The schedule is read; what pause, resume, delete and init launch, they  *)
(* launch before the row is written, and from the row as it was read.      *)
Read(c) ==
  /\ handler[c].at = "read" /\ ~Refused(handler[c].op)
  /\ IF handler[c].op = "init" THEN EndCall(c)
     ELSE handler' = [handler EXCEPT ![c].saw = paused, ![c].at = "write"]
  /\ CASE handler[c].op \in {"pause", "delete"} -> Launch(c, NoPattern)
       [] handler[c].op \in {"resume", "init"}  -> Launch(c, pattern)
       [] OTHER                              -> UNCHANGED task
  /\ UNCHANGED <<rowVars, crons, fireVars, inTurn, schedFaults>>

(* The firings that have found the schedule active, and go on.             *)
Admitted == {f \in Firings : fire[f] \in {"create", "enqueue"}}

(* The one awaited write of the handler.                                   *)
WriteRow(c) ==
  /\ row # "gone"
  /\ row' = CASE handler[c].op = "create" -> "active"
              [] handler[c].op = "delete" -> "deleted"
              [] OTHER                 -> row
  /\ paused'  = IF handler[c].op \in {"pause", "resume"} THEN handler[c].op = "pause" ELSE paused
  /\ pattern' = IF handler[c].op \in {"create", "update"} THEN handler[c].arg ELSE pattern
  /\ crossing' = IF handler[c].op \in {"pause", "delete"} THEN Admitted ELSE crossing

(* Slip: update restarts the cron of a paused schedule too.                *)
AlwaysRestarts(c) == handler[c].op \in {"create", "update"}
Restarts(c) == handler[c].op = "create" \/ (handler[c].op = "update" /\ ~handler[c].saw)

(* create, and update of a schedule that was not paused when it was read,  *)
(* start the cron after the write.                                         *)
WriteSchedule(c) ==
  /\ handler[c].at = "write"
  /\ WriteRow(c)
  /\ EndCall(c)
  /\ IF Restarts(c) THEN Launch(c, handler[c].arg) ELSE UNCHANGED task
  /\ UNCHANGED <<crons, fireVars, inTurn, schedFaults>>

(* An awaited call of the handler throws, before or after the row was      *)
(* written; what was launched goes on.                                     *)
Fail(c) ==
  /\ handler[c].at \in {"read", "write"}
  /\ \/ UNCHANGED rowVars
     \/ handler[c].at = "write" /\ WriteRow(c)
  /\ SchedFault \/ (row = "gone" /\ UNCHANGED schedFaults)
  /\ EndCall(c)
  /\ UNCHANGED <<crons, task, fireVars, inTurn>>

-----------------------------------------------------------------------------
(* startCronTask and stopCronTask against Redis.                           *)

Proceed(c, label) == task' = [task EXCEPT ![c].at = label]

(* After the stop, a start adds its pattern and a stop is over.            *)
(* Slip: every stop restarts.                                              *)
StoppedToStart(c) == task' = [task EXCEPT ![c] = [@ EXCEPT !.at = "add", !.key = NoPattern]]
Stopped(c) ==
  task' = [task EXCEPT ![c] = IF @.target = NoPattern THEN NoTask
                              ELSE [@ EXCEPT !.at = "add", !.key = NoPattern]]

(* The first repeatable job of the schedule is chosen for removal.         *)
(* Slip: startCronTask does not stop the old task.                         *)
ListNothing(c) ==
  /\ task[c].at = "list" /\ Stopped(c)
  /\ UNCHANGED <<rowVars, crons, handler, fireVars, inTurn, schedFaults>>

ListRepeatables(c) ==
  /\ task[c].at = "list"
  /\ \/ crons = {} /\ Stopped(c)
     \/ \E p \in crons : task' = [task EXCEPT ![c].at = "remove", ![c].key = p]
  /\ UNCHANGED <<rowVars, crons, handler, fireVars, inTurn, schedFaults>>

RemoveRepeatable(c) ==
  /\ task[c].at = "remove"
  /\ crons' = crons \ {task[c].key}
  /\ Stopped(c)
  /\ UNCHANGED <<rowVars, handler, fireVars, inTurn, schedFaults>>

AddRepeatable(c) ==
  /\ task[c].at = "add"
  /\ crons' = crons \cup {task[c].target}
  /\ task' = [task EXCEPT ![c] = NoTask]
  /\ UNCHANGED <<rowVars, handler, fireVars, inTurn, schedFaults>>

(* A Redis call rejects (an unhandled rejection, logged only), or the      *)
(* process dies with the task and perhaps the handler.                     *)
LoseTask(c) ==
  /\ task[c] # NoTask
  /\ SchedFault
  /\ task' = [task EXCEPT ![c] = NoTask]
  /\ EndCall(c) \/ UNCHANGED handler
  /\ UNCHANGED <<rowVars, crons, fireVars, inTurn>>

-----------------------------------------------------------------------------
(* fireCron.                                                               *)

(* A repeatable job comes due, a trigger job whose lock expired is taken   *)
(* again, or trigger() calls fireCron of an active schedule.               *)
Due(f) ==
  /\ fire[f] = "idle"
  /\ \/ crons # {}
     \/ \E g \in Firings : fire[g] \notin {"idle", "queued", "done"}
     \/ row = "active"
  /\ fire' = [fire EXCEPT ![f] = "queued"]
  /\ UNCHANGED <<rowVars, crons, handler, task, run, jobs, runs, failures, late, inTurn,
                 schedFaults>>

(* Slip: fireCron does not look at isPaused.                               *)
Deleted == row # "active"
Skips   == row # "active" \/ paused

FireCron(f) ==
  /\ fire[f] = "queued"
  /\ fire' = [fire EXCEPT ![f] = IF Skips THEN "done" ELSE "create"]
  /\ late' = IF row # "active" \/ paused THEN late \cup {f} ELSE late
  /\ UNCHANGED <<rowVars, crons, handler, task, run, jobs, runs, failures, inTurn, schedFaults>>

(* An awaited call of f ends: next when it returns, caught when it throws, *)
(* done or not.  A write needs the row.                                    *)
Await(f, effect, unchanged, next, caught) ==
  \/ row # "gone" /\ effect /\ fire' = [fire EXCEPT ![f] = next] /\ UNCHANGED schedFaults
  \/ row # "gone" /\ effect /\ fire' = [fire EXCEPT ![f] = caught] /\ SchedFault
  \/ /\ unchanged /\ fire' = [fire EXCEPT ![f] = caught]
     /\ SchedFault \/ (row = "gone" /\ UNCHANGED schedFaults)

SetRun(f, status) == run' = [run EXCEPT ![f] = status]

(* Outside the try: an error here ends fireCron.                           *)
CreateRun(f) ==
  /\ fire[f] = "create"
  /\ Await(f, SetRun(f, "PENDING"), UNCHANGED run, "enqueue", "done")
  /\ UNCHANGED <<rowVars, crons, handler, task, jobs, runs, failures, late, inTurn>>

(* Slip: enqueue is not awaited.                                           *)
EnqueueUnawaited(f) ==
  /\ fire[f] = "enqueue"
  /\ jobs' \in {jobs, jobs \cup {f}}
  /\ fire' = [fire EXCEPT ![f] = "mark"]
  /\ UNCHANGED <<rowVars, crons, handler, task, run, runs, failures, late, inTurn, schedFaults>>

(* RuntimeEngine.enqueue may also refuse: the agent is archived or gone,   *)
(* or the user lost access to it.                                          *)
EnqueueRun(f) ==
  /\ fire[f] = "enqueue"
  /\ \/ Await(f, jobs' = jobs \cup {f}, UNCHANGED jobs, "mark", "fail")
     \/ fire' = [fire EXCEPT ![f] = "fail"] /\ UNCHANGED <<jobs, schedFaults>>
  /\ UNCHANGED <<rowVars, crons, handler, task, run, runs, failures, late, inTurn>>

MarkStarted(f) ==
  /\ fire[f] = "mark"
  /\ Await(f, SetRun(f, "RUNNING"), UNCHANGED run, "stats", "fail")
  /\ UNCHANGED <<rowVars, crons, handler, task, jobs, runs, failures, late, inTurn>>

(* lastRunAt and nextRunAt.                                                *)
UpdateStats(f) ==
  /\ fire[f] = "stats"
  /\ Await(f, TRUE, TRUE, "count", "fail")
  /\ UNCHANGED <<rowVars, crons, handler, task, run, jobs, runs, failures, late, inTurn>>

(* scheduleRepo.incrementRuns.                                             *)
(* Slip: every run counts as a failure as well.                            *)
IncrementFailures(failed) == runs' = runs + 1 /\ failures' = failures + 1
IncrementRuns(failed) ==
  /\ runs' = runs + 1
  /\ failures' = IF failed THEN failures + 1 ELSE failures

CountRun(f) ==
  /\ fire[f] = "count"
  /\ Await(f, IncrementRuns(FALSE), UNCHANGED <<runs, failures>>, "done", "fail")
  /\ UNCHANGED <<rowVars, crons, handler, task, run, jobs, late, inTurn>>

(* The catch of fireCron.                                                  *)
MarkFailed(f) ==
  /\ fire[f] = "fail"
  /\ Await(f, SetRun(f, "FAILED"), UNCHANGED run, "countfail", "done")
  /\ UNCHANGED <<rowVars, crons, handler, task, jobs, runs, failures, late, inTurn>>

(* Slip: the failure of a firing is counted as a further run each time.    *)
RecountFailure(f) ==
  /\ fire[f] = "countfail"
  /\ runs' = runs + 2 /\ failures' = failures + 1
  /\ fire' = [fire EXCEPT ![f] = "done"]
  /\ UNCHANGED <<rowVars, crons, handler, task, run, jobs, late, inTurn, schedFaults>>

CountFailure(f) ==
  /\ fire[f] = "countfail"
  /\ Await(f, IncrementRuns(TRUE), UNCHANGED <<runs, failures>>, "done", "done")
  /\ UNCHANGED <<rowVars, crons, handler, task, run, jobs, late, inTurn>>

(* The worker dies in the middle of fireCron.                              *)
CrashFiring(f) ==
  /\ fire[f] \notin {"idle", "done"}
  /\ SchedFault
  /\ fire' = [fire EXCEPT ![f] = "done"]
  /\ UNCHANGED <<rowVars, crons, handler, task, run, jobs, runs, failures, late, inTurn>>

(* agentService.hardDelete takes the schedule and its runs along.          *)
HardDelete ==
  /\ row \in {"active", "deleted"}
  /\ row' = "gone" /\ crossing' = Admitted
  /\ run' = [f \in Firings |-> "NONE"]
  /\ inTurn' = FALSE
  /\ UNCHANGED <<paused, pattern, crons, handler, task, fire, jobs, runs, failures, late,
                 schedFaults>>

HandleCall(c) == RefuseCall(c) \/ Read(c) \/ WriteSchedule(c) \/ Fail(c)

Cron(c) == ListRepeatables(c) \/ RemoveRepeatable(c) \/ AddRepeatable(c) \/ LoseTask(c)

Fire(f) ==
  \/ Due(f) \/ FireCron(f) \/ CreateRun(f) \/ EnqueueRun(f) \/ MarkStarted(f)
  \/ UpdateStats(f) \/ CountRun(f) \/ MarkFailed(f) \/ CountFailure(f) \/ CrashFiring(f)

SchedNext ==
  \/ \E c \in SchedCalls, op \in SchedOps, p \in Patterns \cup {NoPattern} : ServeCall(c, op, p)
  \/ \E c \in SchedCalls : HandleCall(c) \/ Cron(c)
  \/ \E f \in Firings : Fire(f)
  \/ HardDelete

SchedSpec == SchedInit /\ [][SchedNext]_schedVars

-----------------------------------------------------------------------------
(* Type invariant of the schedule, its tasks and its firings.              *)
SchedTypeOK ==
  /\ row \in {"absent", "active", "deleted", "gone"}
  /\ paused \in BOOLEAN /\ pattern \in Patterns \cup {NoPattern}
  /\ crons \subseteq Patterns /\ crossing \subseteq Firings
  /\ handler \in [SchedCalls -> [at: {"idle", "read", "write", "done"}, op: SchedOps,
                                 arg: Patterns \cup {NoPattern}, saw: BOOLEAN]]
  /\ task \in [SchedCalls -> [at: {"none", "list", "remove", "add"},
                               target: Patterns \cup {NoPattern}, key: Patterns \cup {NoPattern}]]
  /\ fire \in [Firings -> {"idle", "queued", "create", "enqueue", "mark", "stats", "count",
                           "fail", "countfail", "done"}]
  /\ run \in [Firings -> {"NONE", "PENDING", "RUNNING", "FAILED"}]
  /\ jobs \subseteq Firings /\ late \subseteq Firings
  /\ runs \in Nat /\ failures \in Nat
  /\ inTurn \in BOOLEAN /\ schedFaults \in 0 .. MaxSchedFaults

(* Calls that are made one after the other, each when everything the       *)
(* earlier ones launched has settled, leave exactly the repeatable job     *)
(* the row asks for: that of its pattern if the schedule is active and not *)
(* paused, and none otherwise.                                             *)
SequentialCalls ==
  inTurn /\ AtRest /\ schedFaults = 0 =>
    crons = IF row = "active" /\ ~paused THEN {pattern} ELSE {}

(* However pauses, resumes, deletions and firings overlap, and whatever    *)
(* repeatable jobs are left behind, an agent run that is enqueued while    *)
(* its schedule is stopped is of a firing that was past fireCron's check   *)
(* when the schedule was stopped last.                                     *)
StopsAdmitNone ==
  [][\A f \in jobs' \ jobs : row # "active" \/ paused => f \in crossing]_schedVars

(* Every agent run a schedule enqueued has its ScheduleRun row, and a      *)
(* ScheduleRun is RUNNING only if its agent run was enqueued.              *)
FiringsBacked ==
  \A f \in Firings :
    /\ f \in jobs /\ row # "gone" => run[f] # "NONE"
    /\ run[f] = "RUNNING" => f \in jobs

(* However fireCron fails, a firing adds at most one failure, and at most  *)
(* one run besides: one that throws after its run was counted is counted   *)
(* again in the catch.                                                     *)
Fired == {f \in Firings : fire[f] \notin {"idle", "queued", "create"} /\ f \notin late}

CountsBounded ==
  /\ failures <= Cardinality(Fired)
  /\ failures <= runs /\ runs <= Cardinality(Fired) + failures

(* Without a fault the counters are exact once the firings have ended:     *)
(* every ScheduleRun is counted once, the FAILED ones as failures, and     *)
(* they are the ones whose agent run was refused.                          *)
FaultFreeCounts ==
  schedFaults = 0 /\ row # "gone" /\ (\A f \in Firings : fire[f] \in {"idle", "queued", "done"}) =>
    /\ runs = Cardinality({f \in Firings : run[f] # "NONE"})
    /\ failures = Cardinality({f \in Firings : run[f] = "FAILED"})
    /\ \A f \in Firings : run[f] # "NONE" => (run[f] = "RUNNING" <=> f \in jobs)

(* "pause() - stop cron task, mark isPaused": when nothing is under way    *)
(* and nothing failed, a paused schedule has no repeatable job.            *)
PausedHasNoCron ==
  AtRest /\ schedFaults = 0 /\ paused => crons = {}
=============================================================================
