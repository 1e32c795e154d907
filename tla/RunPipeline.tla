---------------------------- MODULE RunPipeline ----------------------------
(***************************************************************************)
(* One agent and the runs requested of it: RuntimeEngine.execute (the      *)
(* synchronous endpoint), RuntimeEngine.enqueue (the asynchronous one) and *)
(* RuntimeEngine.executeQueued, called by the BullMQ worker once for every *)
(* execution of the job.                                                   *)
(*                                                                         *)
(* A process is a pair <<r, k>>: k = 0 is the HTTP handler of run r, k > 0 *)
(* the k-th execution of its job.  Every await of the code is a step, any  *)
(* awaited call may fail, any process may die, and a job whose lock        *)
(* expires is given to another worker while the first is still running.    *)
(* The two writes of a Promise.all are sent together and land in any order;*)
(* the first failure rejects, and the other write may still land later.    *)
(*                                                                         *)
(* A definition headed "Slip:" is a wrong variant of the one below it; the *)
(* properties are tried on the system with one slip put in.                *)
(***************************************************************************)
EXTENDS CreditWallet

CONSTANTS
  WalletOf,     \* the wallet that pays a run (team wallet of a team agent)
  CostOf,       \* calculateCost of the run; 0 for an agent with free pricing
  Billable,     \* runs of another user's agent with a PER_RUN listing
  MaxAttempts,  \* DEFAULT_JOB_OPTIONS.attempts
  MaxStalled    \* maxStalledCount of the agent-runs worker

Runs    == Requests
MaxExec == MaxAttempts + MaxStalled
Procs   == Runs \X (0 .. MaxExec)
API(r)  == <<r, 0>>

ASSUME WalletOfIsTotal  == WalletOf \in [Runs -> Wallets]
ASSUME CostOfIsBounded  == CostOf \in [Runs -> 0 .. MaxCost]
ASSUME BillableAreRuns  == Billable \subseteq Runs
ASSUME AttemptsPositive == MaxAttempts \in Nat \ {0} /\ MaxStalled \in Nat

PC == {"idle", "deduct", "deducting", "create", "add", "load", "mark", "dispatch",
       "persist", "persisting", "invoice", "payout", "finish",
       "failing", "failpersist", "done"}

LogStatus == {"NONE", "PENDING", "RUNNING", "COMPLETED", "FAILED"}

(* A write of persistResult or persistFailure on its way to PostgreSQL:    *)
(* the execution_logs row, or the agent's run counters.                    *)
Write == [proc: Procs, column: {"log", "stats"}, val: {"COMPLETED", "FAILED"},
          by: {"persistResult", "persistFailure"}]

Tally == [proc: Procs, success: BOOLEAN, by: {"persistResult", "persistFailure"}]

VARIABLES
  mode,      \* which entry point took the run
  pc,
  result,    \* runResult.success of the execution
  log,       \* execution_logs.status
  writes,    \* writes sent and not yet landed
  tallies,   \* increments of agents.runs_count / success_count / failure_count
  wins,      \* history: executions whose adapter returned success
  paid,      \* history: credits taken for the run
  invoices,  \* executions that created the consumer's invoice
  payouts,   \* executions that created the creator's payout
  notices,   \* notifications written for the run
  reply,     \* what the HTTP client was told
  job,       \* BullMQ state of the run's job
  attempts,  \* job.attemptsMade
  stalls,    \* times the job was reclaimed
  starts,    \* times a worker took the job; the last of them holds its lock
  agentExists

logVars    == <<log, writes, tallies>>
chargeVars == <<result, wins, invoices, payouts>>
queueVars  == <<job, attempts, stalls, starts>>
vars == <<walletVars, mode, pc, logVars, chargeVars, paid, notices, reply,
          queueVars, agentExists>>

Init ==
  /\ WalletInit
  /\ mode     = [r \in Runs |-> "none"]
  /\ pc       = [p \in Procs |-> "idle"]
  /\ result   = [p \in Procs |-> FALSE]
  /\ log      = [r \in Runs |-> "NONE"]
  /\ writes   = {}
  /\ tallies  = {}
  /\ wins     = {}
  /\ paid     = [r \in Runs |-> 0]
  /\ invoices = {}
  /\ payouts  = {}
  /\ notices  = [r \in Runs |-> {}]
  /\ reply    = [r \in Runs |-> "none"]
  /\ job      = [r \in Runs |-> "none"]
  /\ attempts = [r \in Runs |-> 0]
  /\ stalls   = [r \in Runs |-> 0]
  /\ starts   = [r \in Runs |-> 0]
  /\ agentExists = TRUE

Goto(p, label) == pc' = [pc EXCEPT ![p] = label]

Reply(r, answer) ==
  /\ reply' = [reply EXCEPT ![r] = answer]
  /\ Goto(API(r), "done")

(* Slip: an execution that lost its lock still decides.                    *)
HoldsAnyLock(p) == TRUE
HoldsLock(p)    == job[p[1]] = "active" /\ starts[p[1]] = p[2]

-----------------------------------------------------------------------------
(* The HTTP handlers.                                                      *)

(* loadAndValidateAgent rejects with 403, 404 or 410, or something it      *)
(* awaits throws.  No state was changed yet.                               *)
Reject(r) ==
  /\ pc[API(r)] = "idle"
  /\ \E m \in {"sync", "queued"} : mode' = [mode EXCEPT ![r] = m]
  /\ Reply(r, "rejected")
  /\ UNCHANGED <<walletVars, logVars, chargeVars, paid, notices, queueVars, agentExists>>

(* RuntimeEngine.execute up to the credit check; a free run skips it.      *)
Execute(r) ==
  /\ pc[API(r)] = "idle" /\ agentExists
  /\ mode' = [mode EXCEPT ![r] = "sync"]
  /\ Goto(API(r), IF CostOf[r] = 0 THEN "create" ELSE "deduct")
  /\ UNCHANGED <<walletVars, logVars, chargeVars, paid, notices, reply, queueVars, agentExists>>

(* RuntimeEngine.enqueue validates access and goes straight to the log.    *)
Enqueue(r) ==
  /\ pc[API(r)] = "idle" /\ agentExists
  /\ mode' = [mode EXCEPT ![r] = "queued"]
  /\ Goto(API(r), "create")
  /\ UNCHANGED <<walletVars, logVars, chargeVars, paid, notices, reply, queueVars, agentExists>>

(* Slip: the deduction opens without reading the balance.                  *)
TakeCreditsUnchecked(r) ==
  /\ pc[API(r)] = "deduct"
  /\ tx' = [tx EXCEPT ![r] = [kind |-> "deduct", wallet |-> WalletOf[r],
                              amount |-> CostOf[r], seen |-> credits[WalletOf[r]]]]
  /\ Goto(API(r), "deducting")
  /\ UNCHANGED <<credits, used, journal, granted, invoiced, mode, logVars, chargeVars,
                 paid, notices, reply, queueVars, agentExists>>

CheckCredits(r) ==
  /\ pc[API(r)] = "deduct"
  /\ BeginDeduct(r, WalletOf[r], CostOf[r])
  /\ Goto(API(r), "deducting")
  /\ UNCHANGED <<mode, logVars, chargeVars, paid, notices, reply, queueVars, agentExists>>

(* 402 INSUFFICIENT_CREDITS.                                               *)
InsufficientCredits(r) ==
  /\ pc[API(r)] = "deduct"
  /\ ~Affords(WalletOf[r], CostOf[r])
  /\ Reply(r, "rejected")
  /\ UNCHANGED <<walletVars, mode, logVars, chargeVars, paid, notices, queueVars, agentExists>>

(* Slip: an unacknowledged payment is made again.                          *)
RetryPayment(r) ==
  /\ pc[API(r)] = "deducting"
  /\ CommitDeduct(r)
  /\ paid' = [paid EXCEPT ![r] = @ + CostOf[r]]
  /\ Goto(API(r), "create") \/ Goto(API(r), "deduct")
  /\ UNCHANGED <<mode, logVars, chargeVars, notices, reply, queueVars, agentExists>>

(* The commit; its acknowledgement may be lost, and then the credits are   *)
(* gone and the client is told the request failed.                         *)
PayRun(r) ==
  /\ pc[API(r)] = "deducting"
  /\ CommitDeduct(r)
  /\ paid' = [paid EXCEPT ![r] = @ + CostOf[r]]
  /\ \/ Goto(API(r), "create") /\ UNCHANGED reply
     \/ Reply(r, "error")
  /\ UNCHANGED <<mode, logVars, chargeVars, notices, queueVars, agentExists>>

DeductFails(r) ==
  /\ pc[API(r)] = "deducting"
  /\ RollbackDeduct(r)
  /\ Reply(r, "error")
  /\ UNCHANGED <<mode, logVars, chargeVars, paid, notices, queueVars, agentExists>>

(* createExecutionLog is outside the try of execute: when it fails the     *)
(* credits stay taken and nothing records the run.                         *)
CreateLog(r) ==
  /\ pc[API(r)] = "create"
  /\ \/ /\ agentExists
        /\ log' = [log EXCEPT ![r] = "PENDING"]
        /\ Goto(API(r), IF mode[r] = "sync" THEN "mark" ELSE "add")
        /\ UNCHANGED reply
     \/ Reply(r, "error") /\ UNCHANGED log
  /\ UNCHANGED <<walletVars, mode, writes, tallies, chargeVars, paid, notices,
                 queueVars, agentExists>>

(* queue.add: added and acknowledged, added but the answer lost, or lost.  *)
AddJob(r) ==
  /\ pc[API(r)] = "add"
  /\ \E added, acknowledged \in BOOLEAN :
       /\ acknowledged => added
       /\ job' = IF added THEN [job EXCEPT ![r] = "waiting"] ELSE job
       /\ Reply(r, IF acknowledged THEN "ok" ELSE "error")
  /\ UNCHANGED <<walletVars, mode, logVars, chargeVars, paid, notices,
                 attempts, stalls, starts, agentExists>>

-----------------------------------------------------------------------------
(* The queue: BullMQ's handling of one job, as the options configure it.   *)

(* A worker takes the job and agentRunProcessor starts.                    *)
Take(r) ==
  /\ job[r] = "waiting"
  /\ job'    = [job EXCEPT ![r] = "active"]
  /\ starts' = [starts EXCEPT ![r] = @ + 1]
  /\ Goto(<<r, starts[r] + 1>>, "load")
  /\ UNCHANGED <<walletVars, mode, logVars, chargeVars, paid, notices, reply,
                 attempts, stalls, agentExists>>

(* Slip: a stalled job is always given back.                               *)
AlwaysReclaimable(r) == TRUE
Reclaimable(r)       == stalls[r] < MaxStalled

(* The lock of an active job expires: the job is given back to the queue,  *)
(* or failed when it stalled more than maxStalledCount times.  The worker  *)
(* that ran it may be dead, or only slow, and then it carries on.          *)
Stall(r) ==
  /\ job[r] = "active"
  /\ IF Reclaimable(r)
     THEN /\ job'    = [job EXCEPT ![r] = "waiting"]
          /\ stalls' = [stalls EXCEPT ![r] = @ + 1]
     ELSE job' = [job EXCEPT ![r] = "failed"] /\ UNCHANGED stalls
  /\ UNCHANGED <<walletVars, mode, pc, logVars, chargeVars, paid, notices, reply,
                 attempts, starts, agentExists>>

(* What BullMQ does when the processor of p rejects: retry while attempts  *)
(* remain, unless the error is an UnrecoverableError; nothing when p lost  *)
(* the job's lock.                                                         *)
RejectJob(p, unrecoverable) ==
  /\ IF HoldsLock(p)
     THEN LET made == attempts[p[1]] + 1
          IN /\ attempts' = [attempts EXCEPT ![p[1]] = made]
             /\ job' = [job EXCEPT ![p[1]] =
                          IF made < MaxAttempts /\ ~unrecoverable
                          THEN "waiting" ELSE "failed"]
     ELSE UNCHANGED <<attempts, job>>
  /\ UNCHANGED <<stalls, starts>>

Continue(p, label) == Goto(p, label) /\ UNCHANGED queueVars

(* Slip: execute has no catch.                                             *)
ThrowUncaught(p) == Goto(p, "done") /\ RejectJob(p, FALSE)

(* Slip: the synchronous run is tried again.                               *)
ThrowRetried(p)  == IF p[2] = 0 THEN Continue(p, "mark") ELSE ThrowUncaught(p)

(* An error after the log exists: execute has a catch that persists the    *)
(* failure, executeQueued has none and leaves the job to BullMQ.           *)
Throw(p) ==
  IF p[2] = 0
  THEN Continue(p, "failing")
  ELSE Goto(p, "done") /\ RejectJob(p, FALSE)

-----------------------------------------------------------------------------
(* The steps execute and executeQueued share.                              *)

(* executeQueued re-reads the agent; a missing one is a 404, which         *)
(* agentRunProcessor turns into an UnrecoverableError.                     *)
LoadAgent(p) ==
  /\ pc[p] = "load"
  /\ \/ agentExists /\ Continue(p, "mark")
     \/ ~agentExists /\ Goto(p, "done") /\ RejectJob(p, TRUE)
     \/ Throw(p)
  /\ UNCHANGED <<walletVars, mode, logVars, chargeVars, paid, notices, reply, agentExists>>

MarkRunning(p) ==
  /\ pc[p] = "mark"
  /\ \/ /\ agentExists
        /\ log' = [log EXCEPT ![p[1]] = "RUNNING"]
        /\ Continue(p, "dispatch") \/ Throw(p)
     \/ UNCHANGED log /\ Throw(p)
  /\ UNCHANGED <<walletVars, mode, writes, tallies, chargeVars, paid, notices, reply,
                 agentExists>>

(* dispatch: the adapter reports success or failure, or throws.            *)
Dispatch(p) ==
  /\ pc[p] = "dispatch"
  /\ \/ \E success \in BOOLEAN :
          /\ result' = [result EXCEPT ![p] = success]
          /\ wins' = IF success THEN wins \cup {p} ELSE wins
          /\ Continue(p, "persist")
     \/ Throw(p) /\ UNCHANGED <<result, wins>>
  /\ UNCHANGED <<walletVars, mode, logVars, invoices, payouts, paid, notices, reply,
                 agentExists>>

Send(p, val, by) ==
  writes' = writes \cup [proc: {p}, column: {"log", "stats"}, val: {val}, by: {by}]

(* persistResult sends both writes of its Promise.all ...                  *)
PersistResult(p) ==
  /\ pc[p] = "persist"
  /\ Send(p, IF result[p] THEN "COMPLETED" ELSE "FAILED", "persistResult")
  /\ Continue(p, "persisting")
  /\ UNCHANGED <<walletVars, mode, log, tallies, chargeVars, paid, notices, reply,
                 agentExists>>

(* Slip: the writes are sent without an await.                             *)
NoneAwaited(p) == TRUE
BothLanded(p)  == \A w \in writes : w.proc # p \/ w.by # "persistResult"

(* recordAgentRunCharge, called after a success, reads the agent again: it *)
(* charges another user's PER_RUN listing, if it still exists.             *)
(* Slip: a failed run is charged too.                                      *)
ChargesAnyResult(p) == p[1] \in Billable /\ agentExists
Charges(p) == result[p] /\ p[1] \in Billable /\ agentExists

(* ... and resolves when both have landed.                                 *)
ResultPersisted(p) ==
  /\ pc[p] = "persisting"
  /\ BothLanded(p)
  /\ Continue(p, IF Charges(p) THEN "invoice" ELSE "finish")
  /\ UNCHANGED <<walletVars, mode, logVars, chargeVars, paid, notices, reply, agentExists>>

(* The Promise.all rejects: an error, or an acknowledgement that never     *)
(* came while the write is still on its way.                               *)
PersistThrows(p) ==
  /\ pc[p] = "persisting"
  /\ Throw(p)
  /\ UNCHANGED <<walletVars, mode, logVars, chargeVars, paid, notices, reply, agentExists>>

(* Slip: the payout does not depend on the invoice.                        *)
InvoiceOptional(p) ==
  /\ pc[p] = "invoice"
  /\ invoices' \in {invoices, invoices \cup {p}}
  /\ Continue(p, "payout")
  /\ UNCHANGED <<walletVars, mode, logVars, result, wins, payouts, paid, notices, reply,
                 agentExists>>

CreateInvoice(p) ==
  /\ pc[p] = "invoice"
  /\ \/ /\ invoices' = invoices \cup {p}
        /\ Continue(p, "payout") \/ Throw(p)
     \/ UNCHANGED invoices /\ Throw(p)
  /\ UNCHANGED <<walletVars, mode, logVars, result, wins, payouts, paid, notices, reply,
                 agentExists>>

CreatePayout(p) ==
  /\ pc[p] = "payout"
  /\ \/ /\ payouts' = payouts \cup {p}
        /\ Continue(p, "finish") \/ Throw(p)
     \/ UNCHANGED payouts /\ Throw(p)
  /\ UNCHANGED <<walletVars, mode, logVars, result, wins, invoices, paid, notices, reply,
                 agentExists>>

(* execute returns its result; the notification is not awaited and its     *)
(* failure is swallowed.                                                   *)
FinishSync(r) ==
  /\ pc[API(r)] = "finish"
  /\ LET notice == IF result[API(r)] THEN "completed" ELSE "failed"
     IN notices' \in {notices, [notices EXCEPT ![r] = @ \cup {notice}]}
  /\ Reply(r, "ok")
  /\ UNCHANGED <<walletVars, mode, logVars, chargeVars, paid, queueVars, agentExists>>

(* updateProgress(100) may throw although everything was done; otherwise   *)
(* the job completes, if this execution still holds its lock.              *)
FinishQueued(p) ==
  /\ pc[p] = "finish" /\ p[2] > 0
  /\ \/ /\ Goto(p, "done")
        /\ job' = IF HoldsLock(p) THEN [job EXCEPT ![p[1]] = "completed"] ELSE job
        /\ UNCHANGED <<attempts, stalls, starts>>
     \/ Throw(p)
  /\ UNCHANGED <<walletVars, mode, logVars, chargeVars, paid, notices, reply, agentExists>>

(* The catch of execute: persistFailure, then a 500 whatever came of it.   *)
PersistFailure(r) ==
  /\ pc[API(r)] = "failing"
  /\ Send(API(r), "FAILED", "persistFailure")
  /\ Continue(API(r), "failpersist")
  /\ UNCHANGED <<walletVars, mode, log, tallies, chargeVars, paid, notices, reply,
                 agentExists>>

ReplyFailure(r) ==
  /\ pc[API(r)] = "failpersist"
  /\ Reply(r, "error")
  /\ UNCHANGED <<walletVars, mode, logVars, chargeVars, paid, notices, queueVars, agentExists>>

-----------------------------------------------------------------------------
(* The database and the environment.                                       *)

Land(w) ==
  /\ w \in writes
  /\ agentExists
  /\ writes' = writes \ {w}
  /\ IF w.column = "log"
     THEN log' = [log EXCEPT ![w.proc[1]] = w.val] /\ UNCHANGED tallies
     ELSE /\ tallies' = tallies \cup
                {[proc |-> w.proc, success |-> w.val = "COMPLETED", by |-> w.by]}
          /\ UNCHANGED log
  /\ UNCHANGED <<walletVars, mode, pc, chargeVars, paid, notices, reply, queueVars, agentExists>>

(* A write is lost; if persistResult still waits for it, it rejects.       *)
Lose(w) ==
  /\ w \in writes
  /\ writes' = writes \ {w}
  /\ IF pc[w.proc] = "persisting" /\ w.by = "persistResult"
     THEN Throw(w.proc)
     ELSE UNCHANGED <<pc, queueVars>>
  /\ UNCHANGED <<walletVars, mode, log, tallies, chargeVars, paid, notices, reply, agentExists>>

(* A process dies between two awaits.  An open transaction is rolled back, *)
(* a client loses the connection, a job stays locked until Stall finds it. *)
Crash(p) ==
  /\ pc[p] \notin {"idle", "done"}
  /\ IF pc[p] = "deducting" THEN RollbackDeduct(p[1]) ELSE UNCHANGED walletVars
  /\ reply' = IF p[2] = 0 THEN [reply EXCEPT ![p[1]] = "dropped"] ELSE reply
  /\ Continue(p, "done")
  /\ UNCHANGED <<mode, logVars, chargeVars, paid, notices, agentExists>>

(* agentService.hardDelete: the agent row and, by cascade, its logs.       *)
DeleteAgent ==
  /\ agentExists
  /\ agentExists' = FALSE
  /\ log' = [r \in Runs |-> "NONE"]
  /\ tallies' = {}
  /\ UNCHANGED <<walletVars, mode, pc, writes, chargeVars, paid, notices, reply, queueVars>>

(* Top-ups and team grants arrive while runs are in progress.              *)
GrantCredits ==
  /\ \E w \in Wallets : Grant(w)
  /\ UNCHANGED <<mode, pc, logVars, chargeVars, paid, notices, reply, queueVars, agentExists>>

Request(r) ==
  Reject(r) \/ Execute(r) \/ Enqueue(r)

Handle(r) ==
  \/ CheckCredits(r) \/ InsufficientCredits(r) \/ PayRun(r) \/ DeductFails(r)
  \/ CreateLog(r) \/ AddJob(r)
  \/ FinishSync(r) \/ PersistFailure(r) \/ ReplyFailure(r)

Step(p) ==
  \/ LoadAgent(p) \/ MarkRunning(p) \/ Dispatch(p)
  \/ PersistResult(p) \/ ResultPersisted(p) \/ PersistThrows(p)
  \/ CreateInvoice(p) \/ CreatePayout(p) \/ FinishQueued(p)

Next ==
  \/ \E r \in Runs : Request(r) \/ Handle(r) \/ Take(r) \/ Stall(r)
  \/ \E p \in Procs : Step(p) \/ Crash(p)
  \/ \E w \in writes : Land(w) \/ Lose(w)
  \/ DeleteAgent \/ GrantCredits

(* A job whose worker is gone is certain to be found stalled.              *)
(* Slip: no stalled-job check runs.                                        *)
NeverReclaim(r) == FALSE
Reclaim(r)      == pc[<<r, starts[r]>>] = "done" /\ Stall(r)

(* Awaited calls settle (with a result or an error), workers poll the      *)
(* queue, and the stalled-job check runs.  No request has to arrive, and   *)
(* nothing has to crash, stall or be deleted.                              *)
Fairness ==
  /\ \A r \in Runs : WF_vars(Handle(r)) /\ WF_vars(Take(r)) /\ WF_vars(Reclaim(r))
  /\ \A p \in Procs : WF_vars(Step(p))

Spec == Init /\ [][Next]_vars

-----------------------------------------------------------------------------
(* Type invariant of the pipeline's state.                                 *)
RunTypeOK ==
  /\ mode     \in [Runs -> {"none", "sync", "queued"}]
  /\ pc       \in [Procs -> PC]
  /\ result   \in [Procs -> BOOLEAN]
  /\ log      \in [Runs -> LogStatus]
  /\ writes   \subseteq Write
  /\ tallies  \subseteq Tally
  /\ wins     \subseteq Procs
  /\ paid     \in [Runs -> Nat]
  /\ invoices \subseteq Procs
  /\ payouts  \subseteq Procs
  /\ notices  \in [Runs -> SUBSET {"completed", "failed"}]
  /\ reply    \in [Runs -> {"none", "ok", "rejected", "error", "dropped"}]
  /\ job      \in [Runs -> {"none", "waiting", "active", "completed", "failed"}]
  /\ attempts \in [Runs -> 0 .. MaxAttempts]
  /\ stalls   \in [Runs -> 0 .. MaxStalled]
  /\ starts   \in [Runs -> 0 .. MaxExec]
  /\ agentExists \in BOOLEAN

(* Whatever fails, a run is charged at most once; a synchronous run is     *)
(* charged before anything records or executes it, and a run that was      *)
(* turned away is not charged.                                             *)
ChargedOnce ==
  \A r \in Runs :
    /\ paid[r] \in {0, CostOf[r]}
    /\ mode[r] = "sync" /\ log[r] # "NONE" => paid[r] = CostOf[r]
    /\ reply[r] = "rejected" => paid[r] = 0

(* Retries and reclaimed jobs together never run an agent more often than  *)
(* the two limits of the queue allow, and an invoice beyond the first is   *)
(* always the price of a retry or of a reclaimed job.                      *)
InvoicesOf(r) == {p \in invoices : p[1] = r}

ExecutionsBounded ==
  \A r \in Runs :
    /\ starts[r] <= attempts[r] + stalls[r] + 1
    /\ starts[r] <= MaxExec
    /\ Cardinality(InvoicesOf(r)) <= 1 + attempts[r] + stalls[r]

(* A creator is paid only against an invoice, a consumer invoiced only for *)
(* an execution whose adapter succeeded, and a run is COMPLETED only if    *)
(* one of its executions did succeed, however late its writes land.        *)
ChargesBacked ==
  /\ payouts \subseteq invoices
  /\ invoices \subseteq wins
  /\ \A r \in Runs : log[r] = "COMPLETED" => \E p \in wins : p[1] = r

(* What an answered synchronous request can rely on: the log is final and  *)
(* says what the answer says, the agent counted the run exactly once, and  *)
(* a billable success was invoiced and paid out.                           *)
TalliesOf(p) == {t \in tallies : t.proc = p}

AnsweredRunsSettled ==
  \A r \in Runs :
    mode[r] = "sync" /\ reply[r] = "ok" /\ agentExists =>
      LET p == API(r)
          billed == result[p] /\ r \in Billable
      IN /\ log[r] = IF result[p] THEN "COMPLETED" ELSE "FAILED"
         /\ TalliesOf(p) = {[proc |-> p, success |-> result[p], by |-> "persistResult"]}
         /\ p \in invoices <=> billed
         /\ p \in payouts <=> billed

(* A job that completed without ever being reclaimed leaves a final log,   *)
(* although writes of its earlier attempts may still be on their way.      *)
CompletedJobsSettled ==
  \A r \in Runs :
    job[r] = "completed" /\ stalls[r] = 0 /\ agentExists =>
      log[r] \in {"COMPLETED", "FAILED"}

(* Only another execution of the job reopens a finished run: the log of a  *)
(* synchronous run never goes back from a final status to RUNNING.         *)
OnlyReexecutionReopens ==
  [][\A r \in Runs :
       log[r] \in {"COMPLETED", "FAILED"} /\ log'[r] \notin {"COMPLETED", "FAILED"}
         => ~agentExists' \/ (log'[r] = "RUNNING" /\ starts[r] > 1)]_vars

(* Every queued job ends, whatever workers crash or lose their locks.      *)
JobsEnd ==
  \A r \in Runs : job[r] = "waiting" ~> job[r] \in {"completed", "failed"}

(* Every request that is being handled is answered, or its process dies.   *)
RequestsAnswered ==
  \A r \in Runs : pc[API(r)] # "idle" ~> reply[r] # "none"

(* executeQueued skips the credit check because credits "are checked at    *)
(* enqueue time": a queued run with a price was paid before it is run.     *)
QueuedRunsPrepaid ==
  \A r \in Runs : starts[r] > 0 => paid[r] = CostOf[r]

(* The pipeline spends credits only by the wallet's own transactions.      *)
ImplementsWallet == WalletSpec

(* The pipeline, with its retries, keeps the promises of RunLedger.        *)
Count(procs) == [r \in Runs |-> Cardinality({p \in procs : p[1] = r})]

Ledger == INSTANCE RunLedger WITH
  Price <- CostOf, charged <- paid, succeeded <- Count(wins),
  billed <- Count(invoices), settled <- Count(payouts)

ImplementsLedger == Ledger!LedgerSpec
=============================================================================
