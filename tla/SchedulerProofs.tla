--------------------------- MODULE SchedulerProofs ---------------------------
(***************************************************************************)
(* The scheduler for every number of calls, firings and faults.            *)
(***************************************************************************)
EXTENDS Scheduler, FiniteSetTheorems, TLAPS

USE CallsFinite, FiringsFinite, NoPatternIsNone, MaxFaultsIsNat

(* A task adds only patterns, a call that sets a pattern has one, and so   *)
(* has an active schedule.                                                 *)
Patterned ==
  /\ \A c \in SchedCalls : task[c].at = "add" => task[c].target # NoPattern
  /\ \A c \in SchedCalls : handler[c].op \in {"create", "update"} => handler[c].arg \in Patterns
  /\ row = "active" => pattern \in Patterns

TypeInv == SchedTypeOK /\ Patterned

(* Where a firing is decides what it has recorded so far.                  *)
Recorded(f) ==
  /\ f \in late => fire[f] = "done" /\ f \notin jobs
  /\ fire[f] \in {"idle", "queued", "create", "enqueue"} => f \notin jobs
  /\ fire[f] \in {"mark", "stats", "count"} => f \in jobs
  /\ row # "gone" =>
       /\ fire[f] \in {"enqueue", "mark", "stats", "count", "fail", "countfail"} => run[f] # "NONE"
       /\ f \in jobs => run[f] # "NONE"
  /\ run[f] = "RUNNING" => f \in jobs

(* A firing that has ended may have been counted as a failure, and one     *)
(* that was caught or has ended may have been counted as a run besides.    *)
Ended  == {f \in Firings : fire[f] = "done" /\ f \notin late}
Caught == {f \in Firings : fire[f] \in {"fail", "countfail", "done"} /\ f \notin late}

Counters ==
  /\ failures <= Cardinality(Ended)
  /\ failures <= runs /\ runs <= Cardinality(Caught) + failures

FiringInv == TypeInv /\ (\A f \in Firings : Recorded(f)) /\ Counters

(* Calm calls: at most one is open, and its task, what is left of its      *)
(* write and the repeatable jobs fit together.                             *)
Wanted == IF row = "active" /\ ~paused THEN {pattern} ELSE {}

Busy(c) == handler[c].at \in {"read", "write"} \/ task[c] # NoTask

Goal(c) ==
  IF handler[c].at # "write" \/ handler[c].op \in {"create", "update"} THEN Wanted
  ELSE IF handler[c].op = "resume" THEN {pattern} ELSE {}

WriteReady(c) ==
  /\ handler[c].at = "read" => handler[c].op # "create"
  /\ handler[c].at = "write" =>
       IF handler[c].op = "create" THEN row = "absent"
       ELSE
         /\ row = "active" /\ handler[c].op \in {"update", "pause", "resume", "delete"}
         /\ handler[c].saw = paused
         /\ handler[c].op = "pause" => ~paused
         /\ handler[c].op = "resume" => paused

TaskReady(c) ==
  /\ task[c] = NoTask => crons = Goal(c)
  /\ task[c] # NoTask =>
       /\ handler[c].at = "write" => handler[c].op \notin {"create", "update"}
       /\ handler[c].at # "read"
       /\ Goal(c) = IF task[c].target = NoPattern THEN {} ELSE {task[c].target}
       /\ task[c].at = "list"   => \E p \in Patterns : crons \subseteq {p}
       /\ task[c].at = "remove" => crons \subseteq {task[c].key}
       /\ task[c].at = "add"    => crons = {} /\ task[c].target # NoPattern
       /\ task[c].at # "none"

Orderly ==
  /\ row # "gone"
  /\ row = "absent" => ~paused
  /\ \A c, d \in SchedCalls : Busy(c) /\ Busy(d) => c = d
  /\ \A c \in SchedCalls : Busy(c) => WriteReady(c) /\ TaskReady(c)
  /\ AtRest => crons = Wanted

CalmInv == inTurn /\ schedFaults = 0 => Orderly

(* Without a fault, where a firing is decides the status of its run.       *)
EndedFailed == {f \in Firings : fire[f] = "done" /\ run[f] = "FAILED"}

Placed(f) ==
  /\ fire[f] \in {"idle", "queued", "create"} \/ f \in late => run[f] = "NONE"
  /\ fire[f] \in {"enqueue", "mark", "fail"} => run[f] = "PENDING"
  /\ fire[f] \in {"stats", "count"} => run[f] = "RUNNING"
  /\ fire[f] = "countfail" => run[f] = "FAILED"
  /\ fire[f] \in {"fail", "countfail"} => f \notin jobs
  /\ fire[f] = "done" /\ f \notin late =>
       \/ run[f] = "RUNNING" /\ f \in jobs
       \/ run[f] = "FAILED" /\ f \notin jobs

Exact ==
  /\ \A f \in Firings : Placed(f)
  /\ runs = Cardinality(Ended) /\ failures = Cardinality(EndedFailed)

ExactInv == schedFaults = 0 /\ row # "gone" => Exact

(* The scheduler starts out well-typed.                                    *)
LEMMA InitTypes == SchedInit => TypeInv
<1> SUFFICES ASSUME SchedInit
             PROVE  TypeInv
  OBVIOUS
<1>1. handler \in [SchedCalls -> [at: {"idle", "read", "write", "done"}, op: SchedOps,
                         arg: Patterns \cup {NoPattern}, saw: BOOLEAN]]
  BY DEF SchedInit, Unserved, SchedOps
<1>2. task \in [SchedCalls -> [at: {"none", "list", "remove", "add"},
                         target: Patterns \cup {NoPattern}, key: Patterns \cup {NoPattern}]]
  BY DEF SchedInit, Unserved, NoTask
<1>3. Patterned
  BY DEF SchedInit, Unserved, Patterned, NoTask
<1>4. /\ row \in {"absent", "active", "deleted", "gone"}
      /\ pattern \in Patterns \cup {NoPattern} /\ crons \subseteq Patterns
      /\ jobs \subseteq Firings /\ late \subseteq Firings /\ crossing \subseteq Firings
      /\ runs \in Nat /\ failures \in Nat /\ schedFaults \in 0 .. MaxSchedFaults
  BY DEF SchedInit
<1>5. paused \in BOOLEAN /\ inTurn \in BOOLEAN
  BY DEF SchedInit
<1>6. /\ fire \in [Firings -> {"idle", "queued", "create", "enqueue", "mark", "stats", "count",
                              "fail", "countfail", "done"}]
      /\ run \in [Firings -> {"NONE", "PENDING", "RUNNING", "FAILED"}]
  BY DEF SchedInit
<1> QED
  BY <1>1, <1>2, <1>3, <1>4, <1>6, <1>5 DEF TypeInv, SchedTypeOK

(* Launching, stopping and dropping a task keep the tasks well-typed.      *)
LEMMA TaskTypes ==
  ASSUME SchedTypeOK, \A d \in SchedCalls : task[d].at = "add" => task[d].target # NoPattern,
         NEW c \in SchedCalls, NEW t \in Patterns \cup {NoPattern},
         \/ Launch(c, t) \/ Stopped(c) \/ task' = [task EXCEPT ![c] = NoTask]
         \/ \E p \in crons : task' = [task EXCEPT ![c].at = "remove", ![c].key = p]
  PROVE  /\ task' \in [SchedCalls -> [at: {"none", "list", "remove", "add"},
                                 target: Patterns \cup {NoPattern}, key: Patterns \cup {NoPattern}]]
         /\ \A d \in SchedCalls : task'[d].at = "add" => task'[d].target # NoPattern
<1> DEFINE T == [at: {"none", "list", "remove", "add"},
                 target: Patterns \cup {NoPattern}, key: Patterns \cup {NoPattern}]
<1>0. task \in [SchedCalls -> T]
  BY DEF SchedTypeOK
<1>n. NoTask \in T /\ NoTask.at = "none"
  BY DEF NoTask
<1> SUFFICES /\ task' \in [SchedCalls -> T]
             /\ \A d \in SchedCalls : task'[d].at = "add" => task'[d].target # NoPattern
  OBVIOUS
<1>1. ASSUME NEW u \in T, u.at = "add" => u.target # NoPattern, task' = [task EXCEPT ![c] = u]
      PROVE  /\ task' \in [SchedCalls -> T]
             /\ \A d \in SchedCalls : task'[d].at = "add" => task'[d].target # NoPattern
  <2> HIDE DEF T
  <2>1. task' \in [SchedCalls -> T]
    BY <1>0, <1>1
  <2>2. \A d \in SchedCalls : task'[d] = IF d = c THEN u ELSE task[d]
    BY <1>0, <1>1
  <2> QED
    BY <1>1, <2>1, <2>2
<1>2. CASE Launch(c, t)
  <2>1. [NoTask EXCEPT !.at = "list", !.target = t] \in T
    BY DEF NoTask
  <2>2. [NoTask EXCEPT !.at = "list", !.target = t].at = "list"
    BY DEF NoTask
  <2> QED
    BY <1>1, <1>2, <2>1, <2>2 DEF Launch
<1>3. CASE task' = [task EXCEPT ![c] = NoTask]
  BY <1>1, <1>3, <1>n
<1>4. CASE Stopped(c)
  <2>1. CASE task[c].target = NoPattern
    BY <1>3, <1>4, <2>1 DEF Stopped
  <2>2. CASE task[c].target # NoPattern
    <3> DEFINE u == [task[c] EXCEPT !.at = "add", !.key = NoPattern]
    <3>1. u \in T /\ u.target = task[c].target
      BY <1>0
    <3>2. task' = [task EXCEPT ![c] = u]
      BY <1>4, <2>2 DEF Stopped
    <3> HIDE DEF u, T
    <3> QED
      BY <1>1, <2>2, <3>1, <3>2
  <2> QED
    BY <2>1, <2>2
<1>5. CASE \E p \in crons : task' = [task EXCEPT ![c].at = "remove", ![c].key = p]
  <2>1. PICK p \in crons : task' = [task EXCEPT ![c].at = "remove", ![c].key = p]
    BY <1>5
  <2> DEFINE u == [task[c] EXCEPT !.at = "remove", !.key = p]
  <2>2. p \in Patterns
    BY DEF SchedTypeOK
  <2>3. u \in T /\ u.at = "remove"
    BY <1>0, <2>2
  <2>4. task' = [task EXCEPT ![c] = u]
    BY <1>0, <2>1
  <2> HIDE DEF u, T
  <2> QED
    BY <1>1, <2>3, <2>4
<1> QED
  BY <1>2, <1>3, <1>4, <1>5

(* The write of a handler keeps the row well-typed.                        *)
LEMMA WriteTypes ==
  ASSUME TypeInv, NEW c \in SchedCalls, WriteRow(c)
  PROVE  /\ row' \in {"absent", "active", "deleted", "gone"}
         /\ paused' \in BOOLEAN /\ pattern' \in Patterns \cup {NoPattern}
         /\ crossing' \subseteq Firings
         /\ row' = "active" => pattern' \in Patterns
<1> USE DEF TypeInv, SchedTypeOK, Patterned, WriteRow
<1>1. paused' \in BOOLEAN
  OBVIOUS
<1>2. pattern' \in Patterns \cup {NoPattern}
  OBVIOUS
<1>3. row' \in {"absent", "active", "deleted", "gone"} /\ (row' = "active" => pattern' \in Patterns)
  OBVIOUS
<1>4. crossing' \subseteq Firings
  BY DEF Admitted
<1> QED
  BY <1>1, <1>2, <1>3, <1>4

(* A handler that is over was called for nothing any more.                 *)
CallType == [at: {"idle", "read", "write", "done"}, op: SchedOps,
             arg: Patterns \cup {NoPattern}, saw: BOOLEAN]

Called(d) == handler[d].op \in {"create", "update"} => handler[d].arg \in Patterns

LEMMA EndCallTypes ==
  ASSUME handler \in [SchedCalls -> CallType], \A d \in SchedCalls : Called(d),
         NEW c \in SchedCalls, EndCall(c)
  PROVE  /\ handler' \in [SchedCalls -> CallType]
         /\ \A d \in SchedCalls : Called(d)'
         /\ handler'[c].at = "done"
         /\ \A d \in SchedCalls : d # c => handler'[d] = handler[d]
<1> DEFINE x == [Unserved EXCEPT !.at = "done"]
<1>1. x \in CallType /\ x.op = "init" /\ x.at = "done"
  BY DEF CallType, Unserved, SchedOps
<1>2. handler' = [handler EXCEPT ![c] = x]
  BY DEF EndCall
<1> HIDE DEF x
<1>3. \A d \in SchedCalls : handler'[d] = IF d = c THEN x ELSE handler[d]
  BY <1>2
<1>4. \A d \in SchedCalls : Called(d)'
  BY <1>1, <1>3 DEF Called
<1> QED
  BY <1>1, <1>2, <1>3, <1>4

(* Each step of a handler keeps the types.                                 *)
LEMMA HandlerTypes ==
  ASSUME TypeInv, NEW c \in SchedCalls,
         \/ HandleCall(c)
         \/ \E op \in SchedOps, p \in Patterns \cup {NoPattern} : ServeCall(c, op, p)
  PROVE  TypeInv'
<1> USE DEF TypeInv, SchedTypeOK, Patterned, rowVars, fireVars
<1>1. ASSUME NEW op \in SchedOps, NEW p \in Patterns \cup {NoPattern}, ServeCall(c, op, p)
      PROVE  TypeInv'
  BY <1>1 DEF ServeCall, AtRest
<1>2. CASE RefuseCall(c)
  BY <1>2, EndCallTypes DEF RefuseCall, CallType, Called
<1>3. CASE Read(c)
  <2>1. handler' \in [SchedCalls -> CallType] /\ \A d \in SchedCalls : Called(d)'
    <3>1. CASE handler[c].op = "init"
      BY <1>3, <3>1, EndCallTypes DEF Read, CallType, Called
    <3>2. CASE handler[c].op # "init"
      BY <1>3, <3>2 DEF Read, CallType, Called
    <3> QED
      BY <3>1, <3>2
  <2>2. \/ UNCHANGED task
        \/ \E t \in Patterns \cup {NoPattern} : Launch(c, t)
    BY <1>3 DEF Read
  <2> QED
    BY <1>3, <2>1, <2>2, TaskTypes DEF Read, CallType, Called
<1>4. CASE WriteSchedule(c)
  <2>1. handler' \in [SchedCalls -> CallType] /\ \A d \in SchedCalls : Called(d)'
    BY <1>4, EndCallTypes DEF WriteSchedule, CallType, Called
  <2>2. UNCHANGED task \/ \E t \in Patterns \cup {NoPattern} : Launch(c, t)
    BY <1>4 DEF WriteSchedule
  <2> QED
    BY <1>4, <2>1, <2>2, TaskTypes, WriteTypes DEF WriteSchedule, CallType, Called
<1>5. CASE Fail(c)
  <2>1. handler' \in [SchedCalls -> CallType] /\ \A d \in SchedCalls : Called(d)'
    BY <1>5, EndCallTypes DEF Fail, CallType, Called
  <2>2. schedFaults' \in 0 .. MaxSchedFaults
    BY <1>5 DEF Fail, SchedFault
  <2> QED
    BY <1>5, <2>1, <2>2, WriteTypes DEF Fail, CallType, Called
<1> QED
  BY <1>1, <1>2, <1>3, <1>4, <1>5 DEF HandleCall

(* Each step of a task keeps the types.                                    *)
LEMMA CronTypes ==
  ASSUME TypeInv, NEW c \in SchedCalls, Cron(c)
  PROVE  TypeInv'
<1> USE DEF TypeInv, SchedTypeOK, Patterned, rowVars, fireVars
<1>1. CASE ListRepeatables(c)
  BY <1>1, TaskTypes DEF ListRepeatables
<1>2. CASE RemoveRepeatable(c)
  BY <1>2, TaskTypes DEF RemoveRepeatable
<1>3. CASE AddRepeatable(c)
  <2>1. task' = [task EXCEPT ![c] = NoTask] /\ crons' \subseteq Patterns
    BY <1>3 DEF AddRepeatable
  <2> QED
    BY <1>3, <2>1, TaskTypes DEF AddRepeatable
<1>4. CASE LoseTask(c)
  <2>1. /\ handler' \in [SchedCalls -> CallType] /\ \A d \in SchedCalls : Called(d)'
        /\ schedFaults' \in 0 .. MaxSchedFaults
    BY <1>4, EndCallTypes DEF LoseTask, SchedFault, CallType, Called
  <2> QED
    BY <1>4, <2>1, TaskTypes DEF LoseTask, CallType, Called
<1> QED
  BY <1>1, <1>2, <1>3, <1>4 DEF Cron
(* Each step of a firing keeps the types.                                  *)
LEMMA FireTypes ==
  ASSUME TypeInv, NEW f \in Firings, Fire(f)
  PROVE  TypeInv'
<1> USE DEF TypeInv, SchedTypeOK, Patterned, rowVars, Await, SchedFault, SetRun
<1>1. CASE Due(f)
  BY <1>1 DEF Due
<1>2. CASE FireCron(f)
  BY <1>2 DEF FireCron
<1>3. CASE CreateRun(f)
  BY <1>3 DEF CreateRun
<1>4. CASE EnqueueRun(f)
  BY <1>4 DEF EnqueueRun
<1>5. CASE MarkStarted(f)
  BY <1>5 DEF MarkStarted
<1>6. CASE UpdateStats(f)
  BY <1>6 DEF UpdateStats
<1>7. CASE CountRun(f)
  BY <1>7 DEF CountRun, IncrementRuns
<1>8. CASE MarkFailed(f)
  BY <1>8 DEF MarkFailed
<1>9. CASE CountFailure(f)
  BY <1>9 DEF CountFailure, IncrementRuns
<1>10. CASE CrashFiring(f)
  BY <1>10 DEF CrashFiring
<1> QED
  BY <1>1, <1>2, <1>3, <1>4, <1>5, <1>6, <1>7, <1>8, <1>9, <1>10 DEF Fire

(* Each step keeps the types.                                              *)
LEMMA TypeStep == TypeInv /\ [SchedNext]_schedVars => TypeInv'
<1> SUFFICES ASSUME TypeInv, [SchedNext]_schedVars
             PROVE  TypeInv'
  OBVIOUS
<1>1. ASSUME NEW c \in SchedCalls, NEW op \in SchedOps, NEW p \in Patterns \cup {NoPattern},
             ServeCall(c, op, p)
      PROVE  TypeInv'
  BY <1>1, HandlerTypes
<1>2. ASSUME NEW c \in SchedCalls, HandleCall(c) \/ Cron(c)
      PROVE  TypeInv'
  BY <1>2, HandlerTypes, CronTypes
<1>3. ASSUME NEW f \in Firings, Fire(f)
      PROVE  TypeInv'
  BY <1>3, FireTypes
<1>4. CASE HardDelete
  BY <1>4 DEF HardDelete, Admitted, TypeInv, SchedTypeOK, Patterned
<1>5. CASE UNCHANGED schedVars
  BY <1>5 DEF schedVars, rowVars, fireVars, TypeInv, SchedTypeOK, Patterned
<1> QED
  BY <1>1, <1>2, <1>3, <1>4, <1>5 DEF SchedNext

(* The handlers and the tasks leave the firings alone, and a schedule that *)
(* is gone stays gone.                                                     *)
LEMMA OthersLeaveFirings ==
  ASSUME TypeInv, NEW c \in SchedCalls,
         \/ HandleCall(c) \/ Cron(c)
         \/ \E op \in SchedOps, p \in Patterns \cup {NoPattern} : ServeCall(c, op, p)
  PROVE  UNCHANGED fireVars /\ (row = "gone" => row' = "gone")
<1> USE DEF rowVars
<1>1. CASE HandleCall(c)
  BY <1>1 DEF HandleCall, RefuseCall, Read, WriteSchedule, Fail, WriteRow
<1>2. CASE Cron(c)
  BY <1>2 DEF Cron, ListRepeatables, RemoveRepeatable, AddRepeatable, LoseTask
<1>3. CASE \E op \in SchedOps, p \in Patterns \cup {NoPattern} : ServeCall(c, op, p)
  BY <1>3 DEF ServeCall
<1> QED
  BY <1>1, <1>2, <1>3

(* Each step of a firing keeps what every firing has recorded.             *)
LEMMA RecordedFire ==
  ASSUME TypeInv, \A g \in Firings : Recorded(g), NEW f \in Firings, Fire(f)
  PROVE  \A g \in Firings : Recorded(g)'
<1> USE DEF TypeInv, SchedTypeOK, Recorded, rowVars, Await, SetRun
<1>1. CASE Due(f)
  BY <1>1 DEF Due
<1>2. CASE FireCron(f)
  BY <1>2 DEF FireCron, Skips
<1>3. CASE CreateRun(f)
  BY <1>3 DEF CreateRun
<1>4. CASE EnqueueRun(f)
  BY <1>4 DEF EnqueueRun
<1>5. CASE MarkStarted(f)
  BY <1>5 DEF MarkStarted
<1>6. CASE UpdateStats(f)
  BY <1>6 DEF UpdateStats
<1>7. CASE CountRun(f)
  BY <1>7 DEF CountRun
<1>8. CASE MarkFailed(f)
  BY <1>8 DEF MarkFailed
<1>9. CASE CountFailure(f)
  BY <1>9 DEF CountFailure
<1>10. CASE CrashFiring(f)
  BY <1>10 DEF CrashFiring
<1> QED
  BY <1>1, <1>2, <1>3, <1>4, <1>5, <1>6, <1>7, <1>8, <1>9, <1>10 DEF Fire
(* Each step keeps what every firing has recorded.                         *)
LEMMA RecordedStep ==
  TypeInv /\ (\A g \in Firings : Recorded(g)) /\ [SchedNext]_schedVars => \A g \in Firings : Recorded(g)'
<1> SUFFICES ASSUME TypeInv, \A g \in Firings : Recorded(g), [SchedNext]_schedVars
             PROVE  \A g \in Firings : Recorded(g)'
  OBVIOUS
<1>1. ASSUME NEW c \in SchedCalls,
             \/ HandleCall(c) \/ Cron(c)
             \/ \E op \in SchedOps, p \in Patterns \cup {NoPattern} : ServeCall(c, op, p)
      PROVE  \A g \in Firings : Recorded(g)'
  BY <1>1, OthersLeaveFirings DEF Recorded, fireVars
<1>2. ASSUME NEW f \in Firings, Fire(f)
      PROVE  \A g \in Firings : Recorded(g)'
  BY <1>2, RecordedFire
<1>3. CASE HardDelete
  BY <1>3 DEF HardDelete, Recorded
<1>4. CASE UNCHANGED schedVars
  BY <1>4 DEF schedVars, rowVars, fireVars, Recorded
<1> QED
  BY <1>1, <1>2, <1>3, <1>4 DEF SchedNext

(* Sets of firings are finite, and a larger one has at least as many.      *)
LEMMA FiringsCounted ==
  ASSUME NEW S \in SUBSET Firings, NEW R \in SUBSET S
  PROVE  /\ Cardinality(S) \in Nat /\ Cardinality(R) \in Nat
         /\ Cardinality(R) <= Cardinality(S)
         /\ R # S => Cardinality(R) < Cardinality(S)
<1>1. IsFiniteSet(S) /\ IsFiniteSet(R)
  BY FS_Subset
<1>2. Cardinality(S) \in Nat /\ Cardinality(R) \in Nat
  BY <1>1, FS_CardinalityType
<1>3. Cardinality(R) <= Cardinality(S)
  BY <1>1, FS_Subset
<1>4. R # S => Cardinality(R) # Cardinality(S)
  BY <1>1, FS_Subset
<1> QED
  BY <1>2, <1>3, <1>4

(* The counters keep up with the firings that were caught or have ended:   *)
(* as these only grow in number, it is enough that a count comes with one. *)
LEMMA CountersKept ==
  ASSUME TypeInv, Counters, Ended \subseteq Ended', Caught \subseteq Caught',
         Ended' \subseteq Firings, Caught' \subseteq Firings,
         \/ UNCHANGED <<runs, failures>>
         \/ IncrementRuns(FALSE) /\ Caught # Caught'
         \/ IncrementRuns(TRUE) /\ Ended # Ended'
  PROVE  Counters'
<1> USE DEF TypeInv, SchedTypeOK
<1>1. /\ Cardinality(Ended) \in Nat /\ Cardinality(Ended') \in Nat
      /\ Cardinality(Ended) <= Cardinality(Ended')
      /\ Cardinality(Caught) \in Nat /\ Cardinality(Caught') \in Nat
      /\ Cardinality(Caught) <= Cardinality(Caught')
  BY FiringsCounted
<1>2. Ended # Ended' => Cardinality(Ended) < Cardinality(Ended')
  BY FiringsCounted
<1>3. Caught # Caught' => Cardinality(Caught) < Cardinality(Caught')
  BY FiringsCounted
<1>4. runs \in Nat /\ failures \in Nat
  OBVIOUS
<1>5. CASE UNCHANGED <<runs, failures>>
  BY <1>1, <1>4, <1>5 DEF Counters
<1>6. CASE IncrementRuns(FALSE) /\ Caught # Caught'
  <2>1. runs' = runs + 1 /\ failures' = failures
    BY <1>6 DEF IncrementRuns
  <2> QED
    BY <1>1, <1>3, <1>4, <1>6, <2>1 DEF Counters
<1>7. CASE IncrementRuns(TRUE) /\ Ended # Ended'
  <2>1. runs' = runs + 1 /\ failures' = failures + 1
    BY <1>7 DEF IncrementRuns
  <2> QED
    BY <1>1, <1>2, <1>4, <1>7, <2>1 DEF Counters
<1> QED
  BY <1>5, <1>6, <1>7

(* Each step of a firing keeps the counters in line with the firings.      *)
LEMMA CountersFire ==
  ASSUME TypeInv, \A g \in Firings : Recorded(g), Counters, NEW f \in Firings, Fire(f)
  PROVE  Counters'
<1> SUFFICES /\ Ended \subseteq Ended' /\ Caught \subseteq Caught'
             /\ Ended' \subseteq Firings /\ Caught' \subseteq Firings
             /\ \/ UNCHANGED <<runs, failures>>
                \/ IncrementRuns(FALSE) /\ Caught # Caught'
                \/ IncrementRuns(TRUE) /\ Ended # Ended'
  BY CountersKept
<1> USE DEF TypeInv, SchedTypeOK, Recorded, Ended, Caught, rowVars, Await
<1>1. CASE Due(f)
  BY <1>1 DEF Due
<1>2. CASE FireCron(f)
  BY <1>2 DEF FireCron, Skips
<1>3. CASE CreateRun(f)
  BY <1>3 DEF CreateRun
<1>4. CASE EnqueueRun(f)
  BY <1>4 DEF EnqueueRun
<1>5. CASE MarkStarted(f)
  BY <1>5 DEF MarkStarted
<1>6. CASE UpdateStats(f)
  BY <1>6 DEF UpdateStats
<1>7. CASE CountRun(f)
  BY <1>7 DEF CountRun
<1>8. CASE MarkFailed(f)
  BY <1>8 DEF MarkFailed
<1>9. CASE CountFailure(f)
  BY <1>9 DEF CountFailure
<1>10. CASE CrashFiring(f)
  BY <1>10 DEF CrashFiring
<1> QED
  BY <1>1, <1>2, <1>3, <1>4, <1>5, <1>6, <1>7, <1>8, <1>9, <1>10 DEF Fire

(* The initial state satisfies the invariant of the firings.               *)
LEMMA InitFiring == SchedInit => FiringInv
<1> SUFFICES ASSUME SchedInit
             PROVE  FiringInv
  OBVIOUS
<1>1. TypeInv /\ \A f \in Firings : Recorded(f)
  BY InitTypes DEF SchedInit, Recorded
<1>2. Cardinality(Ended) \in Nat /\ Cardinality(Caught) \in Nat
  BY FiringsCounted DEF Ended, Caught
<1> QED
  BY <1>1, <1>2 DEF SchedInit, FiringInv, Counters

(* Each step keeps the invariant of the firings.                           *)
LEMMA FiringStep == FiringInv /\ [SchedNext]_schedVars => FiringInv'
<1> SUFFICES ASSUME FiringInv, [SchedNext]_schedVars
             PROVE  FiringInv'
  OBVIOUS
<1>1. TypeInv' /\ \A f \in Firings : Recorded(f)'
  BY TypeStep, RecordedStep DEF FiringInv
<1>2. ASSUME UNCHANGED fireVars
      PROVE  Counters'
  BY <1>2 DEF FiringInv, Counters, Ended, Caught, fireVars
<1>3. ASSUME NEW c \in SchedCalls,
             \/ HandleCall(c) \/ Cron(c)
             \/ \E op \in SchedOps, p \in Patterns \cup {NoPattern} : ServeCall(c, op, p)
      PROVE  Counters'
  BY <1>2, <1>3, OthersLeaveFirings DEF FiringInv
<1>4. ASSUME NEW f \in Firings, Fire(f)
      PROVE  Counters'
  BY <1>4, CountersFire DEF FiringInv
<1>5. ASSUME HardDelete
      PROVE  Counters'
  BY <1>5 DEF HardDelete, FiringInv, Counters, Ended, Caught
<1>6. ASSUME UNCHANGED schedVars
      PROVE  Counters'
  BY <1>2, <1>6 DEF schedVars
<1>7. Counters'
  BY <1>3, <1>4, <1>5, <1>6 DEF SchedNext
<1> QED
  BY <1>1, <1>7 DEF FiringInv

(* The firing invariant is inductive.                                      *)
LEMMA FiringInductive == SchedSpec => []FiringInv
BY InitFiring, FiringStep, PTL DEF SchedSpec

(* The schedule, its tasks and its firings keep their types.               *)
THEOREM SchedTypes == SchedSpec => []SchedTypeOK
<1>1. FiringInv => SchedTypeOK
  BY DEF FiringInv, TypeInv
<1> QED
  BY <1>1, FiringInductive, PTL

(* While the schedule is stopped, a firing that is past the check was so   *)
(* when the schedule was stopped.                                          *)
Crossing ==
  row # "active" \/ paused =>
    \A f \in Firings : fire[f] \in {"create", "enqueue"} => f \in crossing

CrossingInv == TypeInv /\ Crossing

(* The write of a pause or a deletion takes in what is past the check; any *)
(* other write stops nothing.                                              *)
LEMMA CrossingWrite ==
  ASSUME CrossingInv, NEW c \in SchedCalls, WriteRow(c), UNCHANGED fire
  PROVE  Crossing'
<1>1. CASE handler[c].op \in {"pause", "delete"}
  BY <1>1 DEF WriteRow, Admitted, Crossing
<1>2. CASE handler[c].op \notin {"pause", "delete"}
  <2>1. crossing' = crossing
    BY <1>2 DEF WriteRow
  <2>2. row' # "active" \/ paused' => row # "active" \/ paused
    BY <1>2 DEF WriteRow, CrossingInv, TypeInv, SchedTypeOK
  <2> QED
    BY <2>1, <2>2 DEF Crossing, CrossingInv
<1> QED
  BY <1>1, <1>2

(* Each step of a firing passes the check of an active schedule only.      *)
LEMMA CrossingFire ==
  ASSUME CrossingInv, NEW f \in Firings, Fire(f)
  PROVE  Crossing'
<1> USE DEF rowVars, Await
<1>1. UNCHANGED <<row, paused, crossing>>
  BY DEF Fire, Due, FireCron, CreateRun, EnqueueRun, MarkStarted, UpdateStats, CountRun,
         MarkFailed, CountFailure, CrashFiring
<1>2. /\ \A g \in Firings \ {f} : fire'[g] = fire[g]
      /\ fire'[f] \in {"create", "enqueue"} =>
           \/ fire[f] \in {"create", "enqueue"}
           \/ row = "active" /\ ~paused
  <2>1. fire \in [Firings -> {"idle", "queued", "create", "enqueue", "mark", "stats", "count",
                             "fail", "countfail", "done"}]
    BY DEF CrossingInv, TypeInv, SchedTypeOK
  <2>2. ASSUME NEW place, fire' = [fire EXCEPT ![f] = place]
        PROVE  fire'[f] = place /\ \A g \in Firings \ {f} : fire'[g] = fire[g]
    BY <2>1, <2>2
  <2>3. CASE Due(f)
    BY <2>2, <2>3 DEF Due
  <2>4. CASE FireCron(f)
    BY <2>2, <2>4 DEF FireCron, Skips
  <2>5. CASE CreateRun(f)
    BY <2>2, <2>5 DEF CreateRun
  <2>6. CASE EnqueueRun(f)
    BY <2>2, <2>6 DEF EnqueueRun
  <2>7. CASE MarkStarted(f)
    BY <2>2, <2>7 DEF MarkStarted
  <2>8. CASE UpdateStats(f)
    BY <2>2, <2>8 DEF UpdateStats
  <2>9. CASE CountRun(f)
    BY <2>2, <2>9 DEF CountRun
  <2>10. CASE MarkFailed(f)
    BY <2>2, <2>10 DEF MarkFailed
  <2>11. CASE CountFailure(f)
    BY <2>2, <2>11 DEF CountFailure
  <2>12. CASE CrashFiring(f)
    BY <2>2, <2>12 DEF CrashFiring
  <2> QED
    BY <2>3, <2>4, <2>5, <2>6, <2>7, <2>8, <2>9, <2>10, <2>11, <2>12 DEF Fire
<1> QED
  BY <1>1, <1>2 DEF Crossing, CrossingInv

(* Each step keeps what is known of the firings past the check.            *)
LEMMA CrossingStep == CrossingInv /\ [SchedNext]_schedVars => CrossingInv'
<1> SUFFICES ASSUME CrossingInv, [SchedNext]_schedVars
             PROVE  CrossingInv'
  OBVIOUS
<1>1. TypeInv'
  BY TypeStep DEF CrossingInv
<1>2. ASSUME UNCHANGED rowVars, UNCHANGED fire
      PROVE  Crossing'
  BY <1>2 DEF rowVars, CrossingInv, Crossing
<1>3. ASSUME NEW c \in SchedCalls, NEW op \in SchedOps, NEW p \in Patterns \cup {NoPattern},
             ServeCall(c, op, p)
      PROVE  Crossing'
  BY <1>2, <1>3 DEF ServeCall, fireVars
<1>4. ASSUME NEW c \in SchedCalls, HandleCall(c)
      PROVE  Crossing'
  BY <1>2, <1>4, CrossingWrite DEF HandleCall, RefuseCall, Read, WriteSchedule, Fail, fireVars
<1>5. ASSUME NEW c \in SchedCalls, Cron(c)
      PROVE  Crossing'
  BY <1>2, <1>5
     DEF Cron, ListRepeatables, RemoveRepeatable, AddRepeatable, LoseTask, fireVars
<1>6. ASSUME HardDelete
      PROVE  Crossing'
  BY <1>6 DEF HardDelete, Admitted, Crossing
<1>7. ASSUME UNCHANGED schedVars
      PROVE  Crossing'
  BY <1>2, <1>7 DEF schedVars, fireVars
<1>8. Crossing'
  BY <1>3, <1>4, <1>5, <1>6, <1>7, CrossingFire DEF SchedNext
<1> QED
  BY <1>1, <1>8 DEF CrossingInv

(* An agent run that is enqueued while its schedule is paused, deleted or  *)
(* gone is of a firing that was past fireCron's check when the schedule    *)
(* was stopped, whatever repeatable jobs outlived the stop and however     *)
(* calls, tasks, faults and firings interleave.                            *)
THEOREM StopsAdmitNoFiring == SchedSpec => StopsAdmitNone
<1>1. SchedInit => CrossingInv
  BY InitTypes DEF SchedInit, CrossingInv, Crossing
<1>2. ASSUME CrossingInv, [SchedNext]_schedVars
      PROVE  [\A f \in jobs' \ jobs : row # "active" \/ paused => f \in crossing]_schedVars
  <2> SUFFICES ASSUME SchedNext
               PROVE  \A f \in jobs' \ jobs : row # "active" \/ paused => f \in crossing
    BY <1>2
  <2>1. UNCHANGED jobs \/ (\E f \in Firings : jobs' = jobs \cup {f} /\ fire[f] = "enqueue")
    <3>1. ASSUME NEW f \in Firings, Fire(f)
          PROVE  UNCHANGED jobs \/ (jobs' = jobs \cup {f} /\ fire[f] = "enqueue")
      BY <3>1 DEF Fire, Await, Due, FireCron, CreateRun, EnqueueRun, MarkStarted, UpdateStats,
             CountRun, MarkFailed, CountFailure, CrashFiring
    <3>2. ASSUME NEW c \in SchedCalls, HandleCall(c) \/ Cron(c)
          PROVE  UNCHANGED jobs
      BY <3>2, <1>2, OthersLeaveFirings DEF CrossingInv, fireVars
    <3>3. ASSUME NEW c \in SchedCalls, NEW op \in SchedOps, NEW p \in Patterns \cup {NoPattern},
                 ServeCall(c, op, p)
          PROVE  UNCHANGED jobs
      BY <3>3 DEF ServeCall, fireVars
    <3>4. CASE HardDelete
      BY <3>4 DEF HardDelete
    <3> QED
      BY <3>1, <3>2, <3>3, <3>4 DEF SchedNext
  <2> QED
    BY <1>2, <2>1 DEF CrossingInv, Crossing
<1> QED
  BY <1>1, <1>2, CrossingStep, PTL DEF SchedSpec, StopsAdmitNone

(* Every agent run a schedule enqueued has its ScheduleRun row, and no     *)
(* ScheduleRun is RUNNING without its agent run.                           *)
THEOREM FiringsAreBacked == SchedSpec => []FiringsBacked
<1>1. FiringInv => FiringsBacked
  BY DEF FiringInv, Recorded, FiringsBacked
<1> QED
  BY <1>1, FiringInductive, PTL

(* However many firings there are and however they fail, each adds at most *)
(* one failure, and at most one run besides.                               *)
THEOREM CountsAreBounded == SchedSpec => []CountsBounded
<1>1. ASSUME FiringInv
      PROVE  CountsBounded
  <2>1. Ended \subseteq Fired /\ Caught \subseteq Fired /\ Fired \subseteq Firings
    BY DEF Ended, Caught, Fired
  <2>2. /\ Cardinality(Ended) \in Nat /\ Cardinality(Caught) \in Nat /\ Cardinality(Fired) \in Nat
        /\ Cardinality(Ended) <= Cardinality(Fired) /\ Cardinality(Caught) <= Cardinality(Fired)
    BY <2>1, FiringsCounted
  <2>3. runs \in Nat /\ failures \in Nat
    BY <1>1 DEF FiringInv, TypeInv, SchedTypeOK
  <2> QED
    BY <1>1, <2>2, <2>3 DEF FiringInv, Counters, CountsBounded
<1> QED
  BY <1>1, FiringInductive, PTL
(* When one call at a time is open, only the acting call has to be shown   *)
(* to fit the row and the repeatable jobs after a step.                    *)
LEMMA CalmFrame ==
  ASSUME TypeInv, TypeInv', Orderly, NEW c \in SchedCalls, Busy(c) \/ AtRest,
         \A d \in SchedCalls : d # c => handler'[d] = handler[d] /\ task'[d] = task[d],
         row' # "gone", row' = "absent" => ~paused',
         Busy(c)' => WriteReady(c)' /\ TaskReady(c)',
         ~Busy(c)' => crons' = Wanted'
  PROVE  Orderly'
<1>1. AtRest <=> \A d \in SchedCalls : ~Busy(d)
  BY DEF TypeInv, SchedTypeOK, AtRest, Busy
<1>2. AtRest' <=> \A d \in SchedCalls : ~Busy(d)'
  BY DEF TypeInv, SchedTypeOK, AtRest, Busy
<1>3. \A d \in SchedCalls : d # c => ~Busy(d)'
  BY <1>1 DEF Orderly, Busy
<1>4. \A d, e \in SchedCalls : Busy(d)' /\ Busy(e)' => d = e
  BY <1>3
<1>5. \A d \in SchedCalls : Busy(d)' => WriteReady(d)' /\ TaskReady(d)'
  BY <1>3
<1>6. AtRest' => crons' = Wanted'
  BY <1>2
<1> QED
  BY <1>4, <1>5, <1>6 DEF Orderly

(* A call that arrives when all is quiet finds the row and the repeatable  *)
(* jobs in agreement.                                                      *)
LEMMA CalmServe ==
  ASSUME TypeInv, TypeInv', Orderly, NEW c \in SchedCalls, NEW op \in SchedOps,
         NEW p \in Patterns \cup {NoPattern}, ServeCall(c, op, p), AtRest
  PROVE  Orderly'
<1> USE DEF TypeInv, SchedTypeOK, rowVars
<1>1. /\ handler'[c].at = IF op = "create" THEN "write" ELSE "read"
      /\ handler'[c].op = op
      /\ \A d \in SchedCalls : d # c => handler'[d] = handler[d]
      /\ UNCHANGED <<row, paused, pattern, crons, task>>
  BY DEF ServeCall
<1>2. task[c] = NoTask /\ crons = Wanted
  BY DEF AtRest, Orderly
<1>3. WriteReady(c)'
  BY <1>1 DEF WriteReady, ServeCall
<1>4. TaskReady(c)'
  BY <1>1, <1>2 DEF TaskReady, Goal, Wanted
<1>5. Busy(c)'
  BY <1>1 DEF Busy
<1> QED
  BY <1>1, <1>3, <1>4, <1>5, CalmFrame DEF Orderly

(* What a refused call leaves behind is what it found.                     *)
LEMMA CalmRefuse ==
  ASSUME TypeInv, TypeInv', Orderly, NEW c \in SchedCalls, RefuseCall(c)
  PROVE  Orderly'
<1> USE DEF TypeInv, SchedTypeOK, rowVars
<1>1. /\ handler[c].at = "read" /\ handler'[c].at = "done"
      /\ \A d \in SchedCalls : d # c => handler'[d] = handler[d]
      /\ UNCHANGED <<row, paused, pattern, crons, task>>
  BY EndCallTypes DEF RefuseCall, CallType, Called, Patterned
<1>2. Busy(c)
  BY <1>1 DEF Busy
<1>3. task[c] = NoTask /\ crons = Wanted
  BY <1>1, <1>2 DEF Orderly, TaskReady, Goal
<1>4. ~Busy(c)' /\ crons' = Wanted'
  BY <1>1, <1>3 DEF Busy, Wanted
<1> QED
  BY <1>1, <1>2, <1>4, CalmFrame DEF Orderly

(* What a handler launches when it has read the row is what the row will   *)
(* ask for once it has written.                                            *)
LEMMA CalmRead ==
  ASSUME TypeInv, TypeInv', Orderly, NEW c \in SchedCalls, Read(c)
  PROVE  Orderly'
<1> USE DEF TypeInv, SchedTypeOK, rowVars
<1>1. /\ handler[c].at = "read"
      /\ IF handler[c].op = "init" THEN handler'[c].at = "done"
         ELSE handler'[c].op = handler[c].op /\ handler'[c].saw = paused /\ handler'[c].at = "write"
      /\ \A d \in SchedCalls : d # c => handler'[d] = handler[d]
      /\ UNCHANGED <<row, paused, pattern, crons>>
  BY EndCallTypes DEF Read, CallType, Called, Patterned
<1>2. Busy(c)
  BY <1>1 DEF Busy
<1>3. task[c] = NoTask /\ crons = Wanted /\ handler[c].op # "create"
  BY <1>1, <1>2 DEF Orderly, TaskReady, WriteReady, Goal
<1>4. /\ row = "active" /\ pattern \in Patterns
      /\ handler[c].op \in {"pause", "init"} => ~paused
      /\ handler[c].op = "resume" => paused
  BY DEF Read, Refused, Patterned
<1>5. WriteReady(c)'
  BY <1>1, <1>3, <1>4 DEF WriteReady, SchedOps
<1>6. CASE handler[c].op = "update"
  <2>1. UNCHANGED task
    BY <1>6 DEF Read
  <2>2. TaskReady(c)' /\ Busy(c)'
    BY <1>1, <1>3, <1>6, <2>1 DEF TaskReady, Goal, Wanted, Busy
  <2> QED
    BY <1>1, <1>2, <1>4, <1>5, <2>1, <2>2, CalmFrame
<1>7. CASE handler[c].op # "update"
  <2> DEFINE target == IF handler[c].op \in {"pause", "delete"} THEN NoPattern ELSE pattern
  <2>1. handler[c].op \in {"pause", "delete", "resume", "init"}
    BY <1>3, <1>7 DEF SchedOps
  <2>2. Launch(c, target)
    BY <2>1 DEF Read
  <2>3. /\ task'[c].at = "list" /\ task'[c].target = target
        /\ \A d \in SchedCalls : d # c => task'[d] = task[d]
    BY <2>2 DEF Launch, NoTask
  <2>4. task'[c] # NoTask
    BY <2>3 DEF NoTask
  <2>5. Goal(c)' = IF target = NoPattern THEN {} ELSE {target}
    BY <1>1, <1>4, <2>1 DEF Goal, Wanted
  <2>6. crons \subseteq {pattern}
    BY <1>3 DEF Wanted
  <2>7. TaskReady(c)' /\ Busy(c)'
    <3> HIDE DEF target
    <3> QED
      BY <1>1, <1>4, <1>7, <1>3, <2>3, <2>4, <2>5, <2>6 DEF TaskReady, Busy
  <2> QED
    BY <1>1, <1>2, <1>4, <1>5, <2>3, <2>7, CalmFrame
<1> QED
  BY <1>6, <1>7

(* The write makes the row ask for what was launched before it, or         *)
(* launches what the row now asks for.                                     *)
LEMMA CalmWrite ==
  ASSUME TypeInv, TypeInv', Orderly, NEW c \in SchedCalls, WriteSchedule(c)
  PROVE  Orderly'
<1> USE DEF TypeInv, SchedTypeOK, rowVars
<1>1. /\ handler[c].at = "write" /\ handler'[c].at = "done"
      /\ \A d \in SchedCalls : d # c => handler'[d] = handler[d]
      /\ UNCHANGED crons
  BY EndCallTypes DEF WriteSchedule, CallType, Called, Patterned
<1>2. Busy(c)
  BY <1>1 DEF Busy
<1>3. WriteReady(c) /\ TaskReady(c)
  BY <1>2 DEF Orderly
<1>4. WriteReady(c)'
  BY <1>1 DEF WriteReady
<1>5. row' \in {"active", "deleted"}
  BY <1>1, <1>3 DEF WriteSchedule, WriteRow, WriteReady
<1>6. CASE handler[c].op \in {"create", "update"} /\ Restarts(c)
  <2> DEFINE arg == handler[c].arg
  <2>1. arg \in Patterns
    BY <1>6 DEF Patterned
  <2>2. /\ row' = "active" /\ ~paused' /\ pattern' = arg
    BY <1>1, <1>3, <1>6 DEF WriteSchedule, WriteRow, WriteReady, Restarts, Orderly
  <2>3. crons = Wanted
    BY <1>1, <1>3, <1>6 DEF TaskReady, Goal
  <2>4. \E p \in Patterns : crons \subseteq {p}
    BY <2>1, <2>3 DEF Wanted, Patterned
  <2>l. Launch(c, arg)
    BY <1>6 DEF WriteSchedule
  <2>5. /\ task'[c].at = "list" /\ task'[c].target = arg
        /\ \A d \in SchedCalls : d # c => task'[d] = task[d]
    BY <2>l DEF Launch, NoTask
  <2>6. task'[c] # NoTask
    BY <2>5 DEF NoTask
  <2>7. TaskReady(c)' /\ Busy(c)'
    <3> HIDE DEF arg
    <3> QED
      BY <1>1, <2>1, <2>2, <2>4, <2>5, <2>6 DEF TaskReady, Busy, Goal, Wanted
  <2> QED
    BY <1>1, <1>2, <1>4, <1>5, <2>5, <2>7, CalmFrame
<1>7. CASE ~Restarts(c)
  <2>1. UNCHANGED task
    BY <1>7 DEF WriteSchedule
  <2>2. handler[c].op \in {"update", "pause", "resume", "delete"}
    BY <1>1, <1>3, <1>7 DEF WriteReady, Restarts
  <2>3. Goal(c) = Wanted'
    BY <1>1, <1>3, <1>7, <2>2 DEF WriteSchedule, WriteRow, WriteReady, Restarts, Goal, Wanted
  <2>4. Goal(c)' = Wanted'
    BY <1>1 DEF Goal
  <2>5. TaskReady(c)'
    BY <1>1, <1>3, <2>1, <2>3, <2>4 DEF TaskReady
  <2>6. ~Busy(c)' => crons' = Wanted'
    BY <1>1, <1>3, <2>1, <2>3 DEF TaskReady, Busy
  <2> QED
    BY <1>1, <1>2, <1>4, <1>5, <2>1, <2>5, <2>6, CalmFrame
<1> QED
  BY <1>6, <1>7 DEF Restarts
(* A stop that found nothing, or removed the last repeatable job, either   *)
(* goes on to add its pattern or is over.                                  *)
LEMMA CalmStopped ==
  ASSUME TypeInv, TypeInv', Orderly, NEW c \in SchedCalls, Stopped(c),
         task[c] # NoTask, crons' = {}, UNCHANGED <<rowVars, handler>>
  PROVE  Orderly'
<1> USE DEF TypeInv, SchedTypeOK, rowVars
<1>1. Busy(c)
  BY DEF Busy
<1>2. /\ WriteReady(c) /\ TaskReady(c)
      /\ Goal(c) = IF task[c].target = NoPattern THEN {} ELSE {task[c].target}
  BY <1>1 DEF Orderly, TaskReady
<1>3. WriteReady(c)' /\ Goal(c)' = Goal(c) /\ Wanted' = Wanted
  BY <1>2 DEF WriteReady, Goal, Wanted
<1>4. \A d \in SchedCalls : d # c => task'[d] = task[d]
  BY DEF Stopped
<1>5. CASE task[c].target = NoPattern
  <2>1. task'[c] = NoTask
    BY <1>5 DEF Stopped
  <2>2. TaskReady(c)'
    BY <1>2, <1>3, <1>5, <2>1 DEF TaskReady
  <2>3. ~Busy(c)' => crons' = Wanted'
    BY <1>2, <1>3, <1>5 DEF Busy, Goal
  <2> QED
    BY <1>1, <1>3, <1>4, <2>2, <2>3, CalmFrame DEF Orderly
<1>6. CASE task[c].target # NoPattern
  <2>1. task'[c].at = "add" /\ task'[c].target = task[c].target
    BY <1>6 DEF Stopped
  <2>2. task'[c] # NoTask
    BY <2>1 DEF NoTask
  <2>3. TaskReady(c)' /\ Busy(c)'
    BY <1>2, <1>3, <1>6, <2>1, <2>2 DEF TaskReady, Busy
  <2> QED
    BY <1>1, <1>3, <1>4, <2>3, CalmFrame DEF Orderly
<1> QED
  BY <1>5, <1>6

(* Each step of the one task under way brings the repeatable jobs closer   *)
(* to what the row asks for.                                               *)
LEMMA CalmCron ==
  ASSUME TypeInv, TypeInv', Orderly, NEW c \in SchedCalls,
         ListRepeatables(c) \/ RemoveRepeatable(c) \/ AddRepeatable(c)
  PROVE  Orderly'
<1> USE DEF TypeInv, SchedTypeOK, rowVars
<1>1. task[c].at \in {"list", "remove", "add"} /\ UNCHANGED <<rowVars, handler>>
  BY DEF ListRepeatables, RemoveRepeatable, AddRepeatable
<1>2. task[c] # NoTask /\ Busy(c)
  BY <1>1 DEF NoTask, Busy
<1>3. /\ WriteReady(c) /\ TaskReady(c)
      /\ Goal(c) = IF task[c].target = NoPattern THEN {} ELSE {task[c].target}
  BY <1>2 DEF Orderly, TaskReady
<1>4. WriteReady(c)' /\ Goal(c)' = Goal(c) /\ Wanted' = Wanted
  BY <1>1, <1>3 DEF WriteReady, Goal, Wanted
<1>5. CASE ListRepeatables(c)
  <2>1. CASE crons = {} /\ Stopped(c)
    BY <1>1, <1>2, <1>5, <2>1, CalmStopped DEF ListRepeatables
  <2>2. ASSUME NEW p \in crons, task' = [task EXCEPT ![c].at = "remove", ![c].key = p]
        PROVE  Orderly'
    <3>1. /\ task'[c].at = "remove" /\ task'[c].key = p /\ task'[c].target = task[c].target
          /\ \A d \in SchedCalls : d # c => task'[d] = task[d]
      BY <2>2
    <3>2. task'[c] # NoTask
      BY <3>1 DEF NoTask
    <3>3. crons' = crons /\ crons \subseteq {p}
      BY <1>2, <1>3, <1>5 DEF ListRepeatables, TaskReady
    <3>4. TaskReady(c)' /\ Busy(c)'
      BY <1>1, <1>2, <1>3, <1>4, <3>1, <3>2, <3>3 DEF TaskReady, Busy
    <3> QED
      BY <1>1, <1>2, <1>4, <3>1, <3>4, CalmFrame DEF Orderly
  <2> QED
    BY <1>5, <2>1, <2>2 DEF ListRepeatables
<1>6. CASE RemoveRepeatable(c)
  <2>1. crons' = {}
    BY <1>2, <1>3, <1>6 DEF RemoveRepeatable, TaskReady
  <2> QED
    BY <1>1, <1>2, <1>6, <2>1, CalmStopped DEF RemoveRepeatable
<1>7. CASE AddRepeatable(c)
  <2>1. /\ task'[c] = NoTask
        /\ \A d \in SchedCalls : d # c => task'[d] = task[d]
    BY <1>7 DEF AddRepeatable
  <2>2. crons' = Goal(c)
    BY <1>2, <1>3, <1>7 DEF AddRepeatable, TaskReady
  <2>3. TaskReady(c)'
    BY <1>4, <2>1, <2>2 DEF TaskReady
  <2>4. ~Busy(c)' => crons' = Wanted'
    BY <1>1, <1>4, <2>2 DEF Busy, Goal
  <2> QED
    BY <1>1, <1>2, <1>4, <2>1, <2>3, <2>4, CalmFrame DEF Orderly
<1> QED
  BY <1>5, <1>6, <1>7

(* As long as calls stay calm and nothing fails, they stay in order.       *)
LEMMA CalmStep == TypeInv /\ TypeInv' /\ CalmInv /\ [SchedNext]_schedVars => CalmInv'
<1> SUFFICES ASSUME TypeInv, TypeInv', CalmInv, [SchedNext]_schedVars, inTurn', schedFaults' = 0
             PROVE  Orderly'
  BY DEF CalmInv
<1>0. ASSUME inTurn, schedFaults = 0
      PROVE  Orderly
  BY <1>0 DEF CalmInv
<1>1. ASSUME NEW c \in SchedCalls, NEW op \in SchedOps, NEW p \in Patterns \cup {NoPattern},
             ServeCall(c, op, p)
      PROVE  Orderly'
  BY <1>0, <1>1, CalmServe DEF ServeCall
<1>2. ASSUME NEW c \in SchedCalls, RefuseCall(c)
      PROVE  Orderly'
  BY <1>0, <1>2, CalmRefuse DEF RefuseCall
<1>3. ASSUME NEW c \in SchedCalls, Read(c)
      PROVE  Orderly'
  BY <1>0, <1>3, CalmRead DEF Read
<1>4. ASSUME NEW c \in SchedCalls, WriteSchedule(c)
      PROVE  Orderly'
  BY <1>0, <1>4, CalmWrite DEF WriteSchedule
<1>f. ~SchedFault
  BY DEF SchedFault, TypeInv, SchedTypeOK
<1>5. ASSUME NEW c \in SchedCalls, Fail(c)
      PROVE  Orderly'
  <2>1. row = "gone" /\ UNCHANGED <<inTurn, schedFaults>>
    BY <1>5, <1>f DEF Fail
  <2> QED
    BY <1>0, <2>1 DEF Orderly
<1>6. ASSUME NEW c \in SchedCalls, ListRepeatables(c) \/ RemoveRepeatable(c) \/ AddRepeatable(c)
      PROVE  Orderly'
  <2>1. UNCHANGED <<inTurn, schedFaults>>
    BY <1>6 DEF ListRepeatables, RemoveRepeatable, AddRepeatable
  <2> QED
    BY <1>0, <1>6, <2>1, CalmCron
<1>7. ASSUME UNCHANGED <<rowVars, crons, handler, task, inTurn>>, schedFaults' = schedFaults \/ SchedFault
      PROVE  Orderly'
  BY <1>0, <1>7, <1>f DEF Orderly, AtRest, Busy, WriteReady, TaskReady, Goal, Wanted, rowVars
<1>8. ASSUME NEW f \in Firings, Fire(f)
      PROVE  Orderly'
  <2>1. UNCHANGED <<rowVars, crons, handler, task, inTurn>>
    BY <1>8 DEF Fire, Due, FireCron, CreateRun, EnqueueRun, MarkStarted, UpdateStats, CountRun,
                MarkFailed, CountFailure, CrashFiring
  <2>2. schedFaults' = schedFaults \/ SchedFault
    BY <1>8 DEF Fire, Due, FireCron, CreateRun, EnqueueRun, MarkStarted, UpdateStats, CountRun,
                MarkFailed, CountFailure, CrashFiring, Await
  <2> QED
    BY <1>7, <2>1, <2>2
<1>9. CASE UNCHANGED schedVars
  BY <1>7, <1>9 DEF schedVars
<1> QED
  BY <1>1, <1>2, <1>3, <1>4, <1>5, <1>6, <1>8, <1>9, <1>f
     DEF SchedNext, HandleCall, Cron, LoseTask, HardDelete

(* Calls made one after the other leave exactly the repeatable job the row *)
(* asks for, however the tasks they launch interleave with the answers.    *)
THEOREM SequentialCallsAgree == SchedSpec => []SequentialCalls
<1>1. SchedInit => FiringInv /\ CalmInv
  <2>1. ASSUME SchedInit
        PROVE  CalmInv
    BY <2>1 DEF SchedInit, Unserved, CalmInv, Orderly, Busy, Wanted
  <2> QED
    BY <2>1, InitFiring
<1>2. FiringInv /\ CalmInv /\ [SchedNext]_schedVars => FiringInv' /\ CalmInv'
  BY FiringStep, CalmStep DEF FiringInv
<1>3. CalmInv => SequentialCalls
  BY DEF CalmInv, Orderly, Wanted, SequentialCalls
<1> QED
  BY <1>1, <1>2, <1>3, PTL DEF SchedSpec
(* Without a fault, each step of a firing leaves the status its place      *)
(* stands for, and counts the firing when it ends.                         *)
LEMMA ExactFire ==
  ASSUME FiringInv, Exact, NEW f \in Firings, Fire(f), schedFaults' = schedFaults, row # "gone"
  PROVE  Exact'
<1> USE DEF FiringInv, TypeInv, SchedTypeOK, rowVars
<1>f. ~SchedFault
  BY DEF SchedFault
<1>1. fire[f] # "done" /\ f \notin late /\ f \notin Ended /\ f \notin EndedFailed
  BY DEF Recorded, Ended, EndedFailed, Fire, Due, FireCron, CreateRun, EnqueueRun, MarkStarted,
         UpdateStats, CountRun, MarkFailed, CountFailure, CrashFiring
<1>2. IsFiniteSet(Ended) /\ IsFiniteSet(EndedFailed)
  BY FS_Subset DEF Ended, EndedFailed
<1>3. /\ Cardinality(Ended \cup {f}) = Cardinality(Ended) + 1
      /\ Cardinality(EndedFailed \cup {f}) = Cardinality(EndedFailed) + 1
  BY <1>1, <1>2, FS_AddElement
<1>4. (\A g \in Firings : Placed(g)) /\ runs = Cardinality(Ended) /\ failures = Cardinality(EndedFailed)
  BY DEF Exact
<1>5. ASSUME \A g \in Firings : Placed(g)', UNCHANGED <<runs, failures>>,
             Ended' = Ended, EndedFailed' = EndedFailed
      PROVE  Exact'
  BY <1>4, <1>5 DEF Exact
<1> USE DEF Placed, Recorded, Ended, EndedFailed, Await, SetRun
<1>6. CASE Due(f)
  BY <1>4, <1>5, <1>6 DEF Due
<1>7. CASE FireCron(f)
  BY <1>4, <1>5, <1>7 DEF FireCron, Skips
<1>8. CASE CreateRun(f)
  BY <1>4, <1>5, <1>8, <1>f DEF CreateRun
<1>9. CASE EnqueueRun(f)
  BY <1>4, <1>5, <1>9, <1>f DEF EnqueueRun
<1>10. CASE MarkStarted(f)
  BY <1>4, <1>5, <1>10, <1>f DEF MarkStarted
<1>11. CASE UpdateStats(f)
  BY <1>4, <1>5, <1>11, <1>f DEF UpdateStats
<1>12. CASE CountRun(f)
  <2>1. /\ \A g \in Firings : Placed(g)'
        /\ runs' = runs + 1 /\ failures' = failures
        /\ Ended' = Ended \cup {f} /\ EndedFailed' = EndedFailed
    BY <1>1, <1>4, <1>12, <1>f DEF CountRun, IncrementRuns
  <2> QED
    BY <1>3, <1>4, <2>1 DEF Exact
<1>13. CASE MarkFailed(f)
  BY <1>4, <1>5, <1>13, <1>f DEF MarkFailed
<1>14. CASE CountFailure(f)
  <2>1. /\ \A g \in Firings : Placed(g)'
        /\ runs' = runs + 1 /\ failures' = failures + 1
        /\ Ended' = Ended \cup {f} /\ EndedFailed' = EndedFailed \cup {f}
    BY <1>1, <1>4, <1>14, <1>f DEF CountFailure, IncrementRuns
  <2> QED
    BY <1>3, <1>4, <2>1 DEF Exact
<1>15. CASE CrashFiring(f)
  BY <1>15, <1>f DEF CrashFiring
<1> QED
  BY <1>6, <1>7, <1>8, <1>9, <1>10, <1>11, <1>12, <1>13, <1>14, <1>15 DEF Fire

(* Each step keeps the counters exact as long as nothing fails.            *)
LEMMA ExactStep == FiringInv /\ ExactInv /\ [SchedNext]_schedVars => ExactInv'
<1> SUFFICES ASSUME FiringInv, ExactInv, [SchedNext]_schedVars, schedFaults' = 0, row' # "gone"
             PROVE  Exact'
  BY DEF ExactInv
<1>1. ASSUME UNCHANGED fireVars, schedFaults = 0, row # "gone"
      PROVE  Exact'
  BY <1>1 DEF ExactInv, Exact, Placed, Ended, EndedFailed, fireVars
<1>2. schedFaults = 0
  <2>1. schedFaults' = schedFaults \/ SchedFault
    <3>1. ASSUME NEW c \in SchedCalls, HandleCall(c)
          PROVE  schedFaults' = schedFaults \/ SchedFault
      BY <3>1 DEF HandleCall, RefuseCall, Read, WriteSchedule, Fail
    <3>2. ASSUME NEW c \in SchedCalls, Cron(c)
          PROVE  schedFaults' = schedFaults \/ SchedFault
      BY <3>2 DEF Cron, ListRepeatables, RemoveRepeatable, AddRepeatable, LoseTask
    <3>3. ASSUME NEW f \in Firings, Fire(f)
          PROVE  schedFaults' = schedFaults \/ SchedFault
      BY <3>3 DEF Fire, Due, FireCron, CreateRun, EnqueueRun, MarkStarted, UpdateStats, CountRun,
                  MarkFailed, CountFailure, CrashFiring, Await
    <3> QED
      BY <3>1, <3>2, <3>3 DEF SchedNext, ServeCall, HardDelete, schedVars
  <2> QED
    BY <2>1 DEF FiringInv, TypeInv, SchedTypeOK, SchedFault
<1>3. ASSUME NEW c \in SchedCalls,
             \/ HandleCall(c) \/ Cron(c)
             \/ \E op \in SchedOps, p \in Patterns \cup {NoPattern} : ServeCall(c, op, p)
      PROVE  Exact'
  BY <1>1, <1>2, <1>3, OthersLeaveFirings DEF FiringInv
<1>4. ASSUME NEW f \in Firings, Fire(f)
      PROVE  Exact'
  <2>1. row' = row
    BY <1>4 DEF Fire, Due, FireCron, CreateRun, EnqueueRun, MarkStarted, UpdateStats, CountRun,
                MarkFailed, CountFailure, CrashFiring, rowVars
  <2> QED
    BY <1>2, <1>4, <2>1, ExactFire DEF ExactInv
<1>5. ~HardDelete
  BY DEF HardDelete
<1>6. CASE UNCHANGED schedVars
  BY <1>1, <1>2, <1>6 DEF schedVars, rowVars
<1> QED
  BY <1>3, <1>4, <1>5, <1>6 DEF SchedNext

(* Without a fault every ScheduleRun is counted once, the FAILED ones as   *)
(* failures, however many firings there are.                               *)
THEOREM FaultFreeCountsAreExact == SchedSpec => []FaultFreeCounts
<1>1. SchedInit => FiringInv /\ ExactInv
  <2>1. ASSUME SchedInit
        PROVE  Exact
    <3>1. Ended = {} /\ EndedFailed = {}
      BY <2>1 DEF SchedInit, Ended, EndedFailed
    <3>2. \A f \in Firings : Placed(f)
      BY <2>1 DEF SchedInit, Placed
    <3> QED
      BY <2>1, <3>1, <3>2, FS_EmptySet DEF SchedInit, Exact
  <2> QED
    BY <2>1, InitFiring DEF ExactInv
<1>2. FiringInv /\ ExactInv /\ [SchedNext]_schedVars => FiringInv' /\ ExactInv'
  BY FiringStep, ExactStep
<1>3. ASSUME FiringInv, ExactInv
      PROVE  FaultFreeCounts
  <2> SUFFICES ASSUME schedFaults = 0, row # "gone", \A f \in Firings : fire[f] \in {"idle", "queued", "done"}
               PROVE  /\ runs = Cardinality({f \in Firings : run[f] # "NONE"})
                      /\ failures = Cardinality({f \in Firings : run[f] = "FAILED"})
                      /\ \A f \in Firings : run[f] # "NONE" => (run[f] = "RUNNING" <=> f \in jobs)
    BY DEF FaultFreeCounts
  <2>1. Exact
    BY <1>3 DEF ExactInv
  <2>2. {f \in Firings : run[f] # "NONE"} = Ended
    BY <2>1 DEF Exact, Placed, Ended
  <2>3. {f \in Firings : run[f] = "FAILED"} = EndedFailed
    BY <2>1 DEF Exact, Placed, EndedFailed
  <2> QED
    BY <2>1, <2>2, <2>3 DEF Exact, Placed
<1> QED
  BY <1>1, <1>2, <1>3, PTL DEF SchedSpec
=============================================================================
