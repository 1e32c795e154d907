-------------------------- MODULE RunPipelineProofs --------------------------
(***************************************************************************)
(* The run pipeline for every number of runs, wallets, retries and         *)
(* reclaims: its inductive invariant, and what follows from it.            *)
(***************************************************************************)
EXTENDS RunInvariant, CreditWalletProofs

USE WalletOfIsTotal, CostOfIsBounded, BillableAreRuns, AttemptsPositive

(* Processes are pairs of a run and the number of an execution.            *)
LEMMA ProcsFacts ==
  /\ MaxExec \in Nat /\ MaxExec >= 1
  /\ \A r \in Runs : CostOf[r] \in Nat
  /\ \A r \in Runs : API(r) \in Procs /\ API(r)[1] = r /\ API(r)[2] = 0
  /\ \A r \in Runs, k \in 1 .. MaxExec :
       <<r, k>> \in Procs /\ \A q \in Runs : <<r, k>> # API(q)
  /\ \A p \in Procs : /\ p[1] \in Runs /\ p[2] \in 0 .. MaxExec
                       /\ p = <<p[1], p[2]>>
                       /\ p[2] = 0 => p = API(p[1])
BY DEF Procs, API, MaxExec, Runs

(* A process belongs to a run.                                             *)
LEMMA ProcRun ==
  ASSUME NEW p \in Procs
  PROVE  p[1] \in Runs /\ p[2] \in 0 .. MaxExec
BY DEF Procs

(* Number 0 is the HTTP handler of its run.                                *)
LEMMA HandlerProc ==
  ASSUME NEW p \in Procs, p[2] = 0
  PROVE  p = API(p[1]) /\ p[1] \in Runs
BY DEF Procs, API

(* The other numbers are the executions of the job.                        *)
LEMMA WorkerProc ==
  ASSUME NEW p \in Procs, p[2] # 0
  PROVE  p[1] \in Runs /\ p[2] \in 1 .. MaxExec /\ p = <<p[1], p[2]>>
BY DEF Procs, MaxExec

(* Goto moves one process and leaves the others where they are.            *)
LEMMA GotoFacts ==
  ASSUME NEW p \in Procs, NEW label \in PC, pc \in [Procs -> PC], Goto(p, label)
  PROVE  /\ pc' \in [Procs -> PC]
         /\ pc'[p] = label
         /\ \A q \in Procs : q # p => pc'[q] = pc[q]
BY DEF Goto

-----------------------------------------------------------------------------
(* Type correctness and the queue's counters, which bound each other.      *)
Typed == RunTypeOK /\ \A r \in Runs : QueueCounters(r) /\ HandlerPlace(r)

Counted == \A r \in Runs : QueueCounters(r)

(* Before any request every counter is zero and every process idle.        *)
LEMMA TypedInit == Init => Typed
BY ProcsFacts
DEF Init, Typed, RunTypeOK, QueueCounters, HandlerPlace, Procs, PC, LogStatus, MaxExec, Runs

(* A handler's step that leaves the queue alone.                           *)
LEMMA HandlerTyped ==
  ASSUME Typed, NEW r \in Runs, NEW label \in PC, Goto(API(r), label),
         UNCHANGED queueVars
  PROVE  pc' \in [Procs -> PC] /\ Counted'
<1>1. /\ pc' \in [Procs -> PC]
      /\ \A q \in Procs : q # API(r) => pc'[q] = pc[q]
  BY ProcsFacts, GotoFacts DEF Typed, RunTypeOK
<1>2. ASSUME NEW q \in Runs, NEW k \in 1 .. MaxExec
      PROVE  pc'[<<q, k>>] = pc[<<q, k>>]
  <2>1. <<q, k>> \in Procs /\ <<q, k>> # API(r)
    BY ProcsFacts
  <2> QED
    BY <1>1, <2>1
<1> QED
  BY <1>1, <1>2 DEF Typed, Counted, QueueCounters, queueVars

(* A step of an execution of the job that leaves the queue alone.          *)
LEMMA WorkerTyped ==
  ASSUME Typed, NEW p \in Procs, NEW label \in PC, Goto(p, label), pc[p] # "idle",
         UNCHANGED queueVars
  PROVE  pc' \in [Procs -> PC] /\ Counted'
<1>1. /\ pc' \in [Procs -> PC]
      /\ \A q \in Procs : q # p => pc'[q] = pc[q]
  BY GotoFacts DEF Typed, RunTypeOK
<1>2. ASSUME NEW q \in Runs, NEW k \in 1 .. MaxExec, pc[<<q, k>>] = "idle"
      PROVE  pc'[<<q, k>>] = "idle"
  <2>1. <<q, k>> \in Procs /\ <<q, k>> # p
    BY ProcsFacts, <1>2
  <2> QED
    BY <1>1, <1>2, <2>1
<1> QED
  BY <1>1, <1>2 DEF Typed, Counted, QueueCounters, queueVars

(* The processor of p rejects, with whatever that does to its job.         *)
LEMMA RejectTyped ==
  ASSUME Typed, NEW p \in Procs, NEW unrecoverable \in BOOLEAN, pc[p] # "idle",
         Goto(p, "done"), RejectJob(p, unrecoverable)
  PROVE  /\ pc' \in [Procs -> PC]
         /\ job' \in [Runs -> {"none", "waiting", "active", "completed", "failed"}]
         /\ attempts' \in [Runs -> 0 .. MaxAttempts]
         /\ UNCHANGED <<stalls, starts>>
         /\ Counted'
<1>1. /\ pc' \in [Procs -> PC]
      /\ \A q \in Procs : q # p => pc'[q] = pc[q]
  BY GotoFacts DEF Typed, RunTypeOK, PC
<1>2. ASSUME NEW q \in Runs, NEW k \in 1 .. MaxExec, pc[<<q, k>>] = "idle"
      PROVE  pc'[<<q, k>>] = "idle"
  <2>1. <<q, k>> \in Procs /\ <<q, k>> # p
    BY ProcsFacts, <1>2
  <2> QED
    BY <1>1, <1>2, <2>1
<1>3. CASE HoldsLock(p)
  <2> DEFINE r == p[1]
  <2>1. r \in Runs /\ job[r] = "active"
    BY <1>3, ProcRun DEF HoldsLock
  <2>2. /\ attempts' = [attempts EXCEPT ![r] = attempts[r] + 1]
        /\ \E j \in {"waiting", "failed"} :
             /\ job' = [job EXCEPT ![r] = j]
             /\ j = "waiting" => attempts[r] + 1 < MaxAttempts
        /\ UNCHANGED <<stalls, starts>>
    BY <1>3 DEF RejectJob
  <2>3. attempts[r] < MaxAttempts /\ starts[r] = attempts[r] + stalls[r] + 1
    BY <2>1 DEF Typed, QueueCounters
  <2> HIDE DEF r
  <2>4. /\ job' \in [Runs -> {"none", "waiting", "active", "completed", "failed"}]
        /\ attempts' \in [Runs -> 0 .. MaxAttempts]
    BY <2>1, <2>2, <2>3 DEF Typed, RunTypeOK
  <2>5. ASSUME NEW q \in Runs
        PROVE  QueueCounters(q)'
    <3>1. CASE q = r
      <4>1. /\ attempts'[r] = attempts[r] + 1 /\ stalls'[r] = stalls[r]
            /\ starts'[r] = starts[r] /\ starts[r] \in Nat
            /\ attempts[r] \in Nat /\ stalls[r] \in Nat
            /\ job'[r] \in {"waiting", "failed"}
            /\ job'[r] = "waiting" => attempts[r] + 1 < MaxAttempts
        BY <2>1, <2>2 DEF Typed, RunTypeOK
      <4>2. \A k \in 1 .. MaxExec : k > starts[r] => pc'[<<r, k>>] = "idle"
        BY <1>2, <2>1 DEF Typed, QueueCounters
      <4> QED
        BY <2>3, <3>1, <4>1, <4>2 DEF QueueCounters
    <3>2. CASE q # r
      BY <1>2, <2>1, <2>2, <2>4, <3>2 DEF Typed, RunTypeOK, QueueCounters
    <3> QED
      BY <3>1, <3>2
  <2> QED
    BY <1>1, <2>2, <2>4, <2>5 DEF Counted
<1>4. CASE ~HoldsLock(p)
  <2>1. UNCHANGED queueVars
    BY <1>4 DEF RejectJob, queueVars
  <2> QED
    BY <1>1, <1>2, <2>1 DEF Typed, RunTypeOK, Counted, QueueCounters, queueVars
<1> QED
  BY <1>3, <1>4

(* The three ways a process moves on: within its code, by rejecting, or by *)
(* completing its job.                                                     *)
Completes(p) ==
  /\ Goto(p, "done")
  /\ job' = IF HoldsLock(p) THEN [job EXCEPT ![p[1]] = "completed"] ELSE job
  /\ UNCHANGED <<attempts, stalls, starts>>

Moves(p) ==
  \/ \E label \in PC : Continue(p, label)
  \/ Goto(p, "done") /\ \E u \in BOOLEAN : RejectJob(p, u)
  \/ Completes(p)

(* A worker that ends an execution well completes only its own job.        *)
LEMMA CompletesTyped ==
  ASSUME Typed, NEW p \in Procs, pc[p] # "idle", Completes(p)
  PROVE  /\ pc' \in [Procs -> PC]
         /\ job' \in [Runs -> {"none", "waiting", "active", "completed", "failed"}]
         /\ UNCHANGED <<attempts, stalls, starts>>
         /\ Counted'
<1>1. /\ pc' \in [Procs -> PC]
      /\ \A q \in Procs : q # p => pc'[q] = pc[q]
  BY GotoFacts DEF Typed, RunTypeOK, PC, Completes
<1>2. ASSUME NEW q \in Runs, NEW k \in 1 .. MaxExec, pc[<<q, k>>] = "idle"
      PROVE  pc'[<<q, k>>] = "idle"
  <2>1. <<q, k>> \in Procs /\ <<q, k>> # p
    BY ProcsFacts, <1>2
  <2> QED
    BY <1>1, <1>2, <2>1
<1>3. /\ UNCHANGED <<attempts, stalls, starts>>
      /\ \A q \in Runs : job'[q] = job[q] \/ job'[q] = "completed"
      /\ job' \in [Runs -> {"none", "waiting", "active", "completed", "failed"}]
  BY ProcRun DEF Completes, Typed, RunTypeOK
<1> QED
  BY <1>1, <1>2, <1>3 DEF Typed, Counted, QueueCounters

(* A step of an execution changes at most one attempt of its own job.      *)
LEMMA MovesTyped ==
  ASSUME Typed, NEW p \in Procs, pc[p] # "idle", Moves(p)
  PROVE  /\ pc' \in [Procs -> PC]
         /\ job' \in [Runs -> {"none", "waiting", "active", "completed", "failed"}]
         /\ attempts' \in [Runs -> 0 .. MaxAttempts]
         /\ UNCHANGED <<stalls, starts>>
         /\ Counted'
<1>1. CASE \E label \in PC : Continue(p, label)
  BY <1>1, WorkerTyped DEF Continue, queueVars, Typed, RunTypeOK
<1>2. CASE Goto(p, "done") /\ \E u \in BOOLEAN : RejectJob(p, u)
  BY <1>2, RejectTyped
<1>3. CASE Completes(p)
  BY <1>3, CompletesTyped DEF Typed, RunTypeOK
<1> QED
  BY <1>1, <1>2, <1>3 DEF Moves

(* An await that throws is such a step.                                    *)
LEMMA ThrowMoves ==
  ASSUME NEW p \in Procs, Throw(p)
  PROVE  Moves(p)
BY DEF Throw, Moves, PC

(* And so is every step of executeQueued.                                  *)
LEMMA StepMoves ==
  ASSUME NEW p \in Procs, Step(p)
  PROVE  pc[p] # "idle" /\ Moves(p)
<1>1. CASE LoadAgent(p)
  BY <1>1, ThrowMoves DEF LoadAgent, Moves, PC
<1>2. CASE MarkRunning(p) \/ Dispatch(p)
  BY <1>2, ThrowMoves DEF MarkRunning, Dispatch, Moves, PC
<1>3. CASE PersistResult(p) \/ ResultPersisted(p) \/ PersistThrows(p)
  BY <1>3, ThrowMoves DEF PersistResult, ResultPersisted, PersistThrows, Moves, PC
<1>4. CASE CreateInvoice(p) \/ CreatePayout(p)
  BY <1>4, ThrowMoves DEF CreateInvoice, CreatePayout, Moves, PC
<1>5. CASE FinishQueued(p)
  BY <1>5, ThrowMoves DEF FinishQueued, Completes, Moves
<1> QED
  BY <1>1, <1>2, <1>3, <1>4, <1>5 DEF Step

(* Each step keeps the types and the limits of the queue's options.        *)
LEMMA RunTypeStep == Typed /\ [Next]_vars => RunTypeOK' /\ Counted'
<1> SUFFICES ASSUME Typed, [Next]_vars
             PROVE  RunTypeOK' /\ Counted'
  OBVIOUS
<1> USE DEF logVars, chargeVars
<1>1. ASSUME NEW r \in Runs, Request(r)
      PROVE  RunTypeOK' /\ Counted'
  <2>1. PICK label \in PC : Goto(API(r), label)
    BY <1>1 DEF Request, Reject, Execute, Enqueue, Reply, PC
  <2>2. UNCHANGED queueVars
    BY <1>1 DEF Request, Reject, Execute, Enqueue
  <2>3. pc' \in [Procs -> PC] /\ Counted'
    BY <2>1, <2>2, HandlerTyped
  <2> QED
    BY <1>1, <2>2, <2>3
    DEF Request, Reject, Execute, Enqueue, Reply, Typed, RunTypeOK, queueVars
<1>2. ASSUME NEW r \in Runs, Handle(r)
      PROVE  RunTypeOK' /\ Counted'
  <2>1. PICK label \in PC : Goto(API(r), label)
    BY <1>2 DEF Handle, CheckCredits, InsufficientCredits, PayRun, DeductFails, CreateLog,
         AddJob, FinishSync, PersistFailure, ReplyFailure, Continue, Reply, PC
  <2>2. CASE AddJob(r)
    <3>1. job[r] = "none"
      BY <2>2 DEF AddJob, Typed, HandlerPlace
    <3>2. /\ pc' \in [Procs -> PC]
          /\ \A q \in Procs : q # API(r) => pc'[q] = pc[q]
      BY <2>1, ProcsFacts, GotoFacts DEF Typed, RunTypeOK
    <3>3. ASSUME NEW q \in Runs, NEW k \in 1 .. MaxExec
          PROVE  pc'[<<q, k>>] = pc[<<q, k>>]
      <4>1. <<q, k>> \in Procs /\ <<q, k>> # API(r)
        BY ProcsFacts
      <4> QED
        BY <3>2, <4>1
    <3>4. RunTypeOK'
      BY <2>2, <3>2 DEF AddJob, Reply, Typed, RunTypeOK
    <3>5. Counted'
      <4>1. /\ job' = job \/ job' = [job EXCEPT ![r] = "waiting"]
            /\ UNCHANGED <<attempts, stalls, starts>>
        BY <2>2 DEF AddJob
      <4>2. starts[r] = 0 /\ attempts[r] = 0 /\ stalls[r] = 0
        BY <3>1 DEF Typed, QueueCounters
      <4>3. ASSUME NEW q \in Runs
            PROVE  QueueCounters(q)'
        <5>1. CASE q = r
          <6>1. job'[r] \in {"none", "waiting"}
            BY <3>1, <4>1 DEF Typed, RunTypeOK
          <6>2. \A k \in 1 .. MaxExec : k > starts[r] => pc[<<r, k>>] = "idle"
            BY DEF Typed, QueueCounters
          <6> QED
            BY <3>3, <4>1, <4>2, <5>1, <6>1, <6>2 DEF QueueCounters
        <5>2. CASE q # r
          <6>1. job'[q] = job[q]
            BY <4>1, <5>2 DEF Typed, RunTypeOK
          <6> QED
            BY <3>3, <4>1, <6>1 DEF Typed, QueueCounters
        <5> QED
          BY <5>1, <5>2
      <4> QED
        BY <4>3 DEF Counted
    <3> QED
      BY <3>4, <3>5
  <2>3. CASE ~AddJob(r)
    <3>1. UNCHANGED queueVars
      BY <1>2, <2>3 DEF Handle, CheckCredits, InsufficientCredits, PayRun, DeductFails,
           CreateLog, FinishSync, PersistFailure, ReplyFailure, Continue, Reply
    <3>2. pc' \in [Procs -> PC] /\ Counted'
      BY <2>1, <3>1, HandlerTyped
    <3>3. CASE CheckCredits(r) \/ InsufficientCredits(r) \/ PayRun(r) \/ DeductFails(r)
      <4>1. paid' \in [Runs -> Nat]
        BY <3>3, ProcsFacts
        DEF CheckCredits, InsufficientCredits, PayRun, DeductFails, Typed, RunTypeOK
      <4>2. /\ reply' = reply \/ \E a \in {"rejected", "error"} : reply' = [reply EXCEPT ![r] = a]
            /\ UNCHANGED <<mode, logVars, chargeVars, notices, agentExists>>
        BY <3>3 DEF CheckCredits, InsufficientCredits, PayRun, DeductFails, Reply
      <4> QED
        BY <3>1, <3>2, <4>1, <4>2 DEF Typed, RunTypeOK, queueVars
    <3>4. CASE CreateLog(r) \/ FinishSync(r)
      BY <3>1, <3>2, <3>4
      DEF CreateLog, FinishSync, Reply, Typed, RunTypeOK, queueVars, LogStatus
    <3>5. CASE PersistFailure(r) \/ ReplyFailure(r)
      <4>1. writes' \subseteq Write
        BY <3>5, ProcsFacts
        DEF PersistFailure, ReplyFailure, Send, Write, Typed, RunTypeOK
      <4> QED
        BY <3>1, <3>2, <3>5, <4>1
        DEF PersistFailure, ReplyFailure, Reply, Typed, RunTypeOK, queueVars
    <3> QED
      BY <1>2, <2>3, <3>2, <3>3, <3>4, <3>5 DEF Handle
  <2> QED
    BY <2>2, <2>3
<1>3. ASSUME NEW r \in Runs, Take(r)
      PROVE  RunTypeOK' /\ Counted'
  <2> DEFINE n == starts[r] + 1
  <2>1. /\ job[r] = "waiting" /\ starts[r] = attempts[r] + stalls[r]
        /\ attempts[r] < MaxAttempts /\ stalls[r] <= MaxStalled
        /\ starts[r] \in Nat /\ n \in 1 .. MaxExec
    BY <1>3 DEF Take, Typed, RunTypeOK, QueueCounters, MaxExec
  <2>2. /\ pc' \in [Procs -> PC]
        /\ \A q \in Procs : q # <<r, n>> => pc'[q] = pc[q]
    BY <1>3, <2>1, ProcsFacts, GotoFacts DEF Take, Typed, RunTypeOK, PC
  <2>3. ASSUME NEW q \in Runs, NEW k \in 1 .. MaxExec, q # r \/ k # n
        PROVE  pc'[<<q, k>>] = pc[<<q, k>>]
    <3>1. <<q, k>> \in Procs /\ <<q, k>> # <<r, n>>
      BY <2>3, ProcsFacts
    <3> QED
      BY <2>2, <3>1
  <2>4. /\ job' = [job EXCEPT ![r] = "active"] /\ starts' = [starts EXCEPT ![r] = n]
        /\ UNCHANGED <<attempts, stalls>>
    BY <1>3 DEF Take
  <2> HIDE DEF n
  <2>5. RunTypeOK'
    BY <1>3, <2>1, <2>2, <2>4, ProcsFacts DEF Take, Typed, RunTypeOK
  <2>6. ASSUME NEW q \in Runs
        PROVE  QueueCounters(q)'
    <3>1. CASE q = r
      <4>1. \A k \in 1 .. MaxExec : k > n => pc'[<<r, k>>] = "idle"
        BY <2>1, <2>3 DEF Typed, QueueCounters, n
      <4>2. /\ starts'[r] = n /\ job'[r] = "active" /\ n = attempts[r] + stalls[r] + 1
            /\ attempts'[r] = attempts[r] /\ stalls'[r] = stalls[r]
            /\ attempts[r] \in Nat /\ stalls[r] \in Nat
        BY <2>1, <2>4 DEF n, Typed, RunTypeOK
      <4> QED
        BY <2>1, <3>1, <4>1, <4>2 DEF QueueCounters
    <3>2. CASE q # r
      <4>1. job'[q] = job[q] /\ starts'[q] = starts[q]
        BY <2>4, <3>2 DEF Typed, RunTypeOK
      <4>2. \A k \in 1 .. MaxExec : pc'[<<q, k>>] = pc[<<q, k>>]
        BY <2>3, <3>2
      <4> QED
        BY <2>4, <4>1, <4>2 DEF Typed, QueueCounters
    <3> QED
      BY <3>1, <3>2
  <2> QED
    BY <2>5, <2>6 DEF Counted
<1>4. ASSUME NEW r \in Runs, Stall(r)
      PROVE  RunTypeOK' /\ Counted'
  <2>1. job[r] = "active" /\ UNCHANGED <<pc, attempts, starts>>
    BY <1>4 DEF Stall
  <2>2. \/ /\ stalls[r] < MaxStalled
           /\ job'    = [job EXCEPT ![r] = "waiting"]
           /\ stalls' = [stalls EXCEPT ![r] = stalls[r] + 1]
        \/ job' = [job EXCEPT ![r] = "failed"] /\ UNCHANGED stalls
    BY <1>4 DEF Stall, Reclaimable
  <2>3. RunTypeOK'
    BY <1>4, <2>1, <2>2 DEF Stall, Typed, RunTypeOK
  <2>4. ASSUME NEW q \in Runs
        PROVE  QueueCounters(q)'
    <3>1. CASE q = r
      <4>1. /\ starts[r] = attempts[r] + stalls[r] + 1 /\ attempts[r] < MaxAttempts
            /\ attempts[r] \in Nat /\ stalls[r] \in Nat
        BY <2>1 DEF Typed, RunTypeOK, QueueCounters
      <4>2. \/ job'[r] = "waiting" /\ stalls'[r] = stalls[r] + 1
            \/ job'[r] = "failed" /\ stalls'[r] = stalls[r]
        BY <2>2 DEF Typed, RunTypeOK
      <4>3. \A k \in 1 .. MaxExec : k > starts[r] => pc[<<r, k>>] = "idle"
        BY DEF Typed, QueueCounters
      <4> QED
        BY <2>1, <3>1, <4>1, <4>2, <4>3 DEF QueueCounters
    <3>2. CASE q # r
      BY <2>1, <2>2, <3>2 DEF Typed, RunTypeOK, QueueCounters
    <3> QED
      BY <3>1, <3>2
  <2> QED
    BY <2>3, <2>4 DEF Counted
<1>5. ASSUME NEW p \in Procs, Step(p)
      PROVE  RunTypeOK' /\ Counted'
  <2>1. /\ pc' \in [Procs -> PC]
        /\ job' \in [Runs -> {"none", "waiting", "active", "completed", "failed"}]
        /\ attempts' \in [Runs -> 0 .. MaxAttempts]
        /\ UNCHANGED <<stalls, starts>>
        /\ Counted'
    BY <1>5, StepMoves, MovesTyped
  <2>2. p[1] \in Runs
    BY ProcRun
  <2>3. CASE LoadAgent(p) \/ MarkRunning(p) \/ Dispatch(p)
    BY <2>1, <2>2, <2>3
    DEF LoadAgent, MarkRunning, Dispatch, Typed, RunTypeOK, LogStatus
  <2>4. CASE PersistResult(p)
    <3>1. writes' \subseteq Write
      BY <2>4 DEF PersistResult, Send, Write, Typed, RunTypeOK
    <3> QED
      BY <2>1, <2>4, <3>1 DEF PersistResult, Typed, RunTypeOK
  <2>5. CASE ResultPersisted(p) \/ PersistThrows(p)
    BY <2>1, <2>5 DEF ResultPersisted, PersistThrows, Typed, RunTypeOK
  <2>6. CASE CreateInvoice(p) \/ CreatePayout(p) \/ FinishQueued(p)
    BY <2>1, <2>6 DEF CreateInvoice, CreatePayout, FinishQueued, Typed, RunTypeOK
  <2> QED
    BY <1>5, <2>1, <2>3, <2>4, <2>5, <2>6 DEF Step
<1>6. ASSUME NEW p \in Procs, Crash(p)
      PROVE  RunTypeOK' /\ Counted'
  <2>1. pc[p] # "idle" /\ Moves(p)
    BY <1>6 DEF Crash, Moves, PC
  <2> QED
    BY <1>6, <2>1, MovesTyped, ProcRun DEF Crash, Typed, RunTypeOK, Continue, queueVars
<1>7. ASSUME NEW w \in writes, Land(w)
      PROVE  RunTypeOK' /\ Counted'
  <2>1. w \in Write /\ w.proc[1] \in Runs /\ w.val \in LogStatus
    BY ProcRun DEF Typed, RunTypeOK, Write, LogStatus
  <2>2. tallies' \subseteq Tally
    <3>1. [proc |-> w.proc, success |-> w.val = "COMPLETED", by |-> w.by] \in Tally
      BY <2>1 DEF Write, Tally
    <3> QED
      BY <1>7, <3>1 DEF Land, Typed, RunTypeOK
  <2> QED
    BY <1>7, <2>1, <2>2
    DEF Land, Typed, RunTypeOK, queueVars, Counted, QueueCounters
<1>8. ASSUME NEW w \in writes, Lose(w)
      PROVE  RunTypeOK' /\ Counted'
  <2>1. w.proc \in Procs
    BY DEF Typed, RunTypeOK, Write
  <2>2. CASE pc[w.proc] = "persisting" /\ w.by = "persistResult"
    <3>1. Moves(w.proc)
      BY <1>8, <2>1, <2>2, ThrowMoves DEF Lose
    <3> QED
      BY <1>8, <2>1, <2>2, <3>1, MovesTyped DEF Lose, Typed, RunTypeOK
  <2>3. CASE ~(pc[w.proc] = "persisting" /\ w.by = "persistResult")
    BY <1>8, <2>3 DEF Lose, Typed, RunTypeOK, queueVars, Counted, QueueCounters
  <2> QED
    BY <2>2, <2>3
<1>9. CASE DeleteAgent
  BY <1>9 DEF DeleteAgent, Typed, RunTypeOK, LogStatus, queueVars, Counted, QueueCounters
<1>10. CASE GrantCredits
  BY <1>10 DEF GrantCredits, Typed, RunTypeOK, queueVars, Counted, QueueCounters
<1>11. CASE UNCHANGED vars
  BY <1>11 DEF vars, Typed, RunTypeOK, queueVars, Counted, QueueCounters
<1> QED
  BY <1>1, <1>2, <1>3, <1>4, <1>5, <1>6, <1>7, <1>8, <1>9, <1>10, <1>11 DEF Next

-----------------------------------------------------------------------------
(* A handler does only what its mode allows.                               *)
WorkerPC == {"mark", "dispatch", "persist", "persisting", "invoice", "payout", "finish", "done"}

(* Where a shared step leads, and that only the owner of a job's lock      *)
(* changes the job.                                                        *)
LEMMA ThrowLabel ==
  ASSUME NEW p \in Procs, Throw(p)
  PROVE  /\ \E label \in WorkerPC \cup {"failing"} :
              Goto(p, label) /\ (label = "failing" <=> p[2] = 0)
         /\ HoldsLock(p) \/ job' = job
BY DEF Throw, WorkerPC, Continue, RejectJob, queueVars

(* Where a step of an execution may lead.                                  *)
LEMMA StepLabel ==
  ASSUME NEW p \in Procs, Step(p)
  PROVE  /\ \E label \in WorkerPC \cup {"failing"} :
              Goto(p, label) /\ (label = "failing" => p[2] = 0)
         /\ HoldsLock(p) \/ job' = job
         /\ pc[p] \in {"load", "finish", "mark", "dispatch", "persist", "persisting",
                       "invoice", "payout"}
         /\ mode' = mode
<1>1. CASE LoadAgent(p)
  BY <1>1, ThrowLabel DEF LoadAgent, WorkerPC, Continue, queueVars, RejectJob
<1>2. CASE MarkRunning(p)
  BY <1>2, ThrowLabel DEF MarkRunning, WorkerPC, Continue, queueVars
<1>3. CASE Dispatch(p)
  BY <1>3, ThrowLabel DEF Dispatch, WorkerPC, Continue, queueVars
<1>4. CASE PersistResult(p) \/ ResultPersisted(p) \/ PersistThrows(p)
  BY <1>4, ThrowLabel DEF PersistResult, ResultPersisted, PersistThrows, WorkerPC, Continue,
     queueVars
<1>5. CASE CreateInvoice(p) \/ CreatePayout(p)
  BY <1>5, ThrowLabel DEF CreateInvoice, CreatePayout, WorkerPC, Continue, queueVars
<1>6. CASE FinishQueued(p)
  BY <1>6, ThrowLabel DEF FinishQueued, WorkerPC
<1> QED
  BY <1>1, <1>2, <1>3, <1>4, <1>5, <1>6 DEF Step

Placed == \A r \in Runs : HandlerPlace(r)

(* A process moves to a place its handler may be in.                       *)
LEMMA MovePlaced ==
  ASSUME Typed, NEW p \in Procs, NEW label \in PC, Goto(p, label), mode' = mode,
         pc[p] # "idle", pc[p] # "add" \/ p[2] > 0,
         label \in WorkerPC \cup {"failing"},
         label = "failing" => p[2] = 0,
         p[2] = 0 /\ mode[p[1]] = "queued" => label = "done",
         HoldsLock(p) \/ job' = job,
         job' \in [Runs -> {"none", "waiting", "active", "completed", "failed"}],
         \A q \in Runs : q # p[1] => job'[q] = job[q]
  PROVE  Placed'
<1>1. /\ pc' \in [Procs -> PC] /\ pc'[p] = label
      /\ \A q \in Procs : q # p => pc'[q] = pc[q]
  BY GotoFacts DEF Typed, RunTypeOK
<1> SUFFICES ASSUME NEW r \in Runs
             PROVE  HandlerPlace(r)'
  BY DEF Placed
<1>2. ASSUME NEW k \in 1 .. MaxExec
      PROVE  pc'[<<r, k>>] \notin {"deduct", "deducting", "create", "add", "failing", "failpersist"}
  <2>1. <<r, k>> \in Procs /\ <<r, k>>[2] = k /\ k # 0
    BY ProcsFacts
  <2>2. CASE <<r, k>> = p
    BY <1>1, <2>1, <2>2 DEF WorkerPC
  <2>3. CASE <<r, k>> # p
    BY <1>1, <2>1, <2>3 DEF Typed, HandlerPlace
  <2> QED
    BY <2>2, <2>3
<1>3. CASE p = API(r)
  <2>1. p[1] = r /\ p[2] = 0 /\ API(r) \in Procs
    BY <1>3, ProcsFacts
  <2>2. mode[r] \in {"sync", "queued"}
    BY <1>3, <2>1 DEF Typed, HandlerPlace, RunTypeOK
  <2>3. job' = job /\ (mode[r] = "sync" => job[r] = "none")
    <3>1. pc[API(r)] # "done" \/ mode[r] = "sync" => job[r] = "none"
      BY DEF Typed, HandlerPlace
    <3>2. job[r] = "active" => starts[r] # 0
      BY DEF Typed, QueueCounters, RunTypeOK
    <3> QED
      BY <2>1, <3>1, <3>2 DEF HoldsLock
  <2>4. pc'[API(r)] = label
    BY <1>1, <1>3
  <2>5. mode[r] = "queued" => pc[API(r)] = "done" \/ job[r] = "none"
    BY DEF Typed, HandlerPlace
  <2> QED
    BY <1>2, <2>1, <2>2, <2>3, <2>4, <2>5 DEF HandlerPlace, WorkerPC
<1>4. CASE p # API(r)
  <2>1. pc'[API(r)] = pc[API(r)]
    BY <1>1, <1>4, ProcsFacts
  <2>2. job[r] = "none" => job'[r] = "none"
    <3>1. CASE p[1] = r
      BY <3>1 DEF HoldsLock
    <3>2. CASE p[1] # r
      BY <3>2
    <3> QED
      BY <3>1, <3>2
  <2> QED
    BY <1>2, <2>1, <2>2 DEF Typed, HandlerPlace
<1> QED
  BY <1>3, <1>4

(* A handler's own step: only its pc, its mode and its job can change.     *)
LEMMA HandlerPlaced ==
  ASSUME Typed, NEW r \in Runs, NEW label \in PC, Goto(API(r), label),
         mode' \in [Runs -> {"none", "sync", "queued"}],
         \A q \in Runs : q # r => mode'[q] = mode[q] /\ job'[q] = job[q],
         mode'[r] # "none",
         mode'[r] = "queued" => label \in {"create", "add", "done"},
         mode'[r] = "sync" => label \notin {"idle", "add", "load"},
         mode'[r] # "queued" \/ label # "done" => job'[r] = "none"
  PROVE  Placed'
<1>1. /\ pc' \in [Procs -> PC] /\ pc'[API(r)] = label
      /\ \A q \in Procs : q # API(r) => pc'[q] = pc[q]
  BY ProcsFacts, GotoFacts DEF Typed, RunTypeOK
<1> SUFFICES ASSUME NEW q \in Runs
             PROVE  HandlerPlace(q)'
  BY DEF Placed
<1>2. ASSUME NEW k \in 1 .. MaxExec
      PROVE  pc'[<<q, k>>] = pc[<<q, k>>]
  <2>1. <<q, k>> \in Procs /\ <<q, k>> # API(r)
    BY ProcsFacts
  <2> QED
    BY <1>1, <2>1
<1>3. CASE q = r
  <2>1. mode'[r] \in {"sync", "queued"}
    OBVIOUS
  <2> QED
    BY <1>1, <1>2, <1>3, <2>1 DEF Typed, HandlerPlace
<1>4. CASE q # r
  <2>1. API(q) # API(r) /\ API(q) \in Procs
    BY <1>4, ProcsFacts
  <2> QED
    BY <1>1, <1>2, <1>4, <2>1 DEF Typed, HandlerPlace
<1> QED
  BY <1>3, <1>4

(* Each step keeps a handler's place in line with its run's entry point.   *)
LEMMA PlacedStep == Typed /\ [Next]_vars => Placed'
<1> SUFFICES ASSUME Typed, [Next]_vars
             PROVE  Placed'
  OBVIOUS
<1>0. RunTypeOK' /\ RunTypeOK
  BY RunTypeStep DEF Typed
<1>1. ASSUME NEW r \in Runs, Request(r)
      PROVE  Placed'
  <2>1. job[r] = "none" /\ job' = job
    BY <1>1 DEF Request, Reject, Execute, Enqueue, queueVars, Typed, HandlerPlace
  <2>2. PICK label \in PC, m \in {"sync", "queued"} :
          /\ Goto(API(r), label) /\ mode' = [mode EXCEPT ![r] = m]
          /\ m = "queued" => label \in {"create", "done"}
          /\ label \in {"create", "deduct", "done"}
    BY <1>1 DEF Request, Reject, Execute, Enqueue, Reply, PC
  <2>3. mode'[r] = m /\ \A q \in Runs : q # r => mode'[q] = mode[q]
    BY <1>0, <2>2 DEF RunTypeOK
  <2> QED
    BY <1>0, <2>1, <2>2, <2>3, HandlerPlaced DEF RunTypeOK
<1>2. ASSUME NEW r \in Runs, Handle(r)
      PROVE  Placed'
  <2>1. /\ mode' = mode
        /\ \A q \in Runs : q # r => job'[q] = job[q]
    BY <1>2, <1>0 DEF Handle, CheckCredits, InsufficientCredits, PayRun, DeductFails, CreateLog,
       AddJob, FinishSync, PersistFailure, ReplyFailure, Continue, queueVars, RunTypeOK
  <2>2. pc[API(r)] \notin {"idle", "done"} /\ job[r] = "none"
    BY <1>2 DEF Handle, CheckCredits, InsufficientCredits, PayRun, DeductFails, CreateLog,
       AddJob, FinishSync, PersistFailure, ReplyFailure, Typed, HandlerPlace
  <2>3. mode[r] \in {"sync", "queued"}
    BY <2>2 DEF Typed, RunTypeOK, HandlerPlace
  <2>4. PICK label \in PC :
          /\ Goto(API(r), label) /\ label \in {"deducting", "create", "mark", "add", "failpersist", "done"}
          /\ mode[r] = "queued" => label \in {"create", "add", "done"}
          /\ mode[r] = "sync" => label # "add"
          /\ job' = job \/ (label = "done" /\ mode[r] = "queued")
    <3>1. CASE CheckCredits(r) \/ InsufficientCredits(r) \/ PayRun(r) \/ DeductFails(r)
      <4>1. mode[r] = "sync" /\ job' = job
        BY <2>3, <3>1 DEF CheckCredits, InsufficientCredits, PayRun, DeductFails, Typed,
           HandlerPlace, queueVars
      <4> QED
        BY <3>1, <4>1 DEF CheckCredits, InsufficientCredits, PayRun, DeductFails, Reply, PC
    <3>2. CASE CreateLog(r)
      BY <2>3, <3>2 DEF CreateLog, Reply, PC, queueVars
    <3>3. CASE AddJob(r)
      <4>1. mode[r] = "queued"
        BY <2>3, <3>3 DEF AddJob, Typed, HandlerPlace
      <4> QED
        BY <3>3, <4>1 DEF AddJob, Reply, PC
    <3>4. CASE FinishSync(r) \/ PersistFailure(r) \/ ReplyFailure(r)
      <4>1. mode[r] = "sync" /\ job' = job
        BY <2>3, <3>4 DEF FinishSync, PersistFailure, ReplyFailure, Typed, HandlerPlace,
           queueVars, Continue
      <4> QED
        BY <3>4, <4>1 DEF FinishSync, PersistFailure, ReplyFailure, Continue, Reply, PC
    <3> QED
      BY <1>2, <3>1, <3>2, <3>3, <3>4 DEF Handle
  <2> QED
    BY <1>0, <2>1, <2>2, <2>3, <2>4, HandlerPlaced DEF RunTypeOK
<1>3. ASSUME NEW r \in Runs, Take(r)
      PROVE  Placed'
  <2> DEFINE p == <<r, starts[r] + 1>>
  <2>1. /\ job[r] = "waiting" /\ mode' = mode
        /\ \A q \in Runs : job[q] = "none" => job'[q] = "none"
    BY <1>3 DEF Take, Typed, RunTypeOK
  <2>2. starts[r] + 1 \in 1 .. MaxExec
    BY <2>1 DEF Typed, RunTypeOK, QueueCounters, MaxExec
  <2>3. p \in Procs /\ \A q \in Runs : p # API(q)
    BY <2>2, ProcsFacts
  <2>4. pc'[p] = "load" /\ \A q \in Procs : q # p => pc'[q] = pc[q]
    BY <1>3, <2>3, GotoFacts DEF Take, Typed, RunTypeOK, PC
  <2> HIDE DEF p
  <2>5. ASSUME NEW q \in Runs
        PROVE  HandlerPlace(q)'
    <3>1. pc'[API(q)] = pc[API(q)]
      BY <2>3, <2>4, ProcsFacts
    <3>2. ASSUME NEW k \in 1 .. MaxExec
          PROVE  pc'[<<q, k>>] = pc[<<q, k>>] \/ pc'[<<q, k>>] = "load"
      BY <2>4, ProcsFacts
    <3> QED
      BY <2>1, <3>1, <3>2 DEF Typed, HandlerPlace
  <2> QED
    BY <2>5 DEF Placed
<1>4. ASSUME NEW r \in Runs, Stall(r)
      PROVE  Placed'
  <2>1. /\ UNCHANGED <<pc, mode>>
        /\ \A q \in Runs : job[q] = "none" => job'[q] = "none"
    BY <1>4 DEF Stall, Typed, RunTypeOK
  <2> QED
    BY <2>1 DEF Placed, Typed, HandlerPlace
<1>5. ASSUME NEW p \in Procs, Crash(p)
      PROVE  Placed'
  <2>1. mode' = mode /\ job' = job /\ pc[p] # "idle" /\ Goto(p, "done")
    BY <1>5 DEF Crash, Continue, queueVars
  <2>2. /\ pc' \in [Procs -> PC] /\ pc'[p] = "done"
        /\ \A q \in Procs : q # p => pc'[q] = pc[q]
    BY <2>1, GotoFacts DEF Typed, RunTypeOK, PC
  <2>3. ASSUME NEW r \in Runs
        PROVE  HandlerPlace(r)'
    <3>1. pc'[API(r)] = pc[API(r)] \/ (p = API(r) /\ pc'[API(r)] = "done")
      BY <2>2, ProcsFacts
    <3>2. ASSUME NEW k \in 1 .. MaxExec
          PROVE  pc'[<<r, k>>] = pc[<<r, k>>] \/ pc'[<<r, k>>] = "done"
      BY <2>2, ProcsFacts
    <3>3. p = API(r) => mode[r] # "none"
      BY <2>1 DEF Typed, HandlerPlace
    <3> QED
      BY <2>1, <3>1, <3>2, <3>3 DEF Typed, HandlerPlace
  <2> QED
    BY <2>3 DEF Placed
<1>6. ASSUME NEW p \in Procs, Step(p)
      PROVE  Placed'
  <2>1. PICK label \in WorkerPC \cup {"failing"} :
          Goto(p, label) /\ (label = "failing" => p[2] = 0)
    BY <1>6, StepLabel
  <2>2. label \in PC
    BY DEF WorkerPC, PC
  <2>3. /\ mode' = mode /\ pc[p] \notin {"idle", "add"}
        /\ HoldsLock(p) \/ job' = job
        /\ pc[p] \in {"load", "finish", "mark", "dispatch", "persist", "persisting",
                      "invoice", "payout"}
    BY <1>6, StepLabel
  <2>4. p[2] = 0 => mode[p[1]] # "queued"
    <3>1. ASSUME p[2] = 0, mode[p[1]] = "queued"
          PROVE  FALSE
      <4>1. p = API(p[1]) /\ p[1] \in Runs
        BY <3>1, HandlerProc
      <4> QED
        BY <2>3, <3>1, <4>1 DEF Typed, HandlerPlace
    <3> QED
      BY <3>1
  <2>5. job' \in [Runs -> {"none", "waiting", "active", "completed", "failed"}]
    BY <1>0 DEF RunTypeOK
  <2>6. \A q \in Runs : q # p[1] => job'[q] = job[q]
    BY <1>6, <1>0, StepMoves DEF Moves, Completes, RejectJob, Continue, queueVars, RunTypeOK
  <2> QED
    BY <2>1, <2>2, <2>3, <2>4, <2>5, <2>6, MovePlaced
<1>7. ASSUME NEW w \in writes, Land(w)
      PROVE  Placed'
  BY <1>7 DEF Land, Placed, Typed, HandlerPlace, queueVars
<1>8. ASSUME NEW w \in writes, Lose(w)
      PROVE  Placed'
  <2> DEFINE p == w.proc
  <2>1. p \in Procs /\ mode' = mode
    BY <1>8 DEF Typed, RunTypeOK, Write, Lose
  <2>2. CASE pc[p] = "persisting" /\ w.by = "persistResult"
    <3>1. Throw(p)
      BY <1>8, <2>2 DEF Lose
    <3> HIDE DEF p
    <3>2. PICK label \in WorkerPC \cup {"failing"} :
            Goto(p, label) /\ (label = "failing" => p[2] = 0)
      BY <2>1, <3>1, ThrowLabel
    <3>3. label \in PC
      BY DEF WorkerPC, PC
    <3>4. p[2] = 0 => mode[p[1]] # "queued"
      <4>1. ASSUME p[2] = 0, mode[p[1]] = "queued"
            PROVE  FALSE
        <5>1. p = API(p[1]) /\ p[1] \in Runs
          BY <2>1, <4>1, HandlerProc
        <5> QED
          BY <2>2, <4>1, <5>1 DEF Typed, HandlerPlace
      <4> QED
        BY <4>1
    <3>5. job' \in [Runs -> {"none", "waiting", "active", "completed", "failed"}]
      BY <1>0 DEF RunTypeOK
    <3>6. \A q \in Runs : q # p[1] => job'[q] = job[q]
      BY <2>1, <3>1, <1>0, ThrowMoves
      DEF Moves, Completes, RejectJob, Continue, queueVars, RunTypeOK
    <3>7. HoldsLock(p) \/ job' = job
      BY <2>1, <3>1, ThrowLabel
    <3> QED
      BY <2>1, <2>2, <3>2, <3>3, <3>4, <3>5, <3>6, <3>7, MovePlaced
  <2>3. CASE ~(pc[p] = "persisting" /\ w.by = "persistResult")
    BY <1>8, <2>3 DEF Lose, queueVars, Placed, Typed, HandlerPlace
  <2> QED
    BY <2>2, <2>3
<1>9. CASE DeleteAgent \/ GrantCredits \/ UNCHANGED vars
  <2>1. UNCHANGED <<mode, pc, job>>
    BY <1>9 DEF DeleteAgent, GrantCredits, vars, queueVars
  <2> QED
    BY <2>1 DEF Placed, Typed, HandlerPlace
<1> QED
  BY <1>1, <1>2, <1>3, <1>4, <1>5, <1>6, <1>7, <1>8, <1>9 DEF Next

(* Every state of the pipeline is well typed, and the attempts and stalls  *)
(* of a job stay within the options of its queue.                          *)
THEOREM RunTypes == Spec => []RunTypeOK
<1>1. Init => Typed
  BY TypedInit
<1>2. Typed /\ [Next]_vars => Typed'
  <2>1. RunTypeOK' /\ Counted' /\ Placed' => Typed'
    BY DEF Typed, Counted, Placed
  <2> QED
    BY <2>1, RunTypeStep, PlacedStep
<1>3. Typed => RunTypeOK
  BY DEF Typed
<1> QED
  BY <1>1, <1>2, <1>3, PTL DEF Spec

-----------------------------------------------------------------------------
(* A run that nothing has executed yet has an open log, if any.            *)
LEMMA TypedInductive == Typed /\ [Next]_vars => Typed'
<1>1. RunTypeOK' /\ Counted' /\ Placed' => Typed'
  BY DEF Typed, Counted, Placed
<1> QED
  BY <1>1, RunTypeStep, PlacedStep

(* A worker runs only a queued run whose handler has answered.             *)
LEMMA WorkerFacts ==
  ASSUME Typed, NEW p \in Procs, p[2] # 0, pc[p] # "idle"
  PROVE  /\ mode[p[1]] = "queued" /\ pc[API(p[1])] = "done"
         /\ p[2] \in 1 .. starts[p[1]] /\ p = <<p[1], p[2]>>
<1>1. p[1] \in Runs /\ p[2] \in 1 .. MaxExec /\ p = <<p[1], p[2]>>
  BY WorkerProc
<1>2. p[2] <= starts[p[1]]
  BY <1>1 DEF Typed, QueueCounters, RunTypeOK
<1>3. starts[p[1]] # 0
  BY <1>1, <1>2
<1>4. job[p[1]] # "none"
  BY <1>1, <1>3 DEF Typed, QueueCounters
<1> QED
  BY <1>1, <1>2, <1>4 DEF Typed, HandlerPlace, RunTypeOK

Early(r) == pc[API(r)] \in {"idle", "deduct", "deducting", "create"}

(* An execution past markRunning is no longer unexecuted.                 *)
LEMMA Executing ==
  ASSUME Typed, NEW p \in Procs,
         pc[p] \in {"dispatch", "persist", "persisting", "invoice", "payout", "finish",
                   "failing", "failpersist"}
  PROVE  ~Unexecuted(p[1])
<1>1. CASE p[2] = 0
  <2>1. p = API(p[1]) /\ p[1] \in Runs
    BY <1>1, HandlerProc
  <2>2. mode[p[1]] # "queued"
    BY <2>1 DEF Typed, HandlerPlace
  <2> QED
    BY <2>1, <2>2 DEF Unexecuted
<1>2. CASE p[2] # 0
  <2>1. /\ pc[API(p[1])] = "done" /\ p[2] \in 1 .. starts[p[1]] /\ p = <<p[1], p[2]>>
        /\ starts[p[1]] \in Nat
    BY <1>2, WorkerFacts, ProcRun DEF Typed, RunTypeOK
  <2>2. starts[p[1]] = 1 => p = <<p[1], 1>>
    BY <2>1
  <2> QED
    BY <2>1, <2>2 DEF Unexecuted
<1> QED
  BY <1>1, <1>2

(* executeQueued marks the log RUNNING before it runs the agent.           *)
LEMMA MarkExecutes ==
  ASSUME Typed, NEW p \in Procs, MarkRunning(p)
  PROVE  ~Unexecuted(p[1])'
<1>1. PICK label \in {"dispatch", "failing", "done"} :
        Goto(p, label) /\ (label = "done" => p[2] # 0)
  BY DEF MarkRunning, Throw, Continue
<1>2. pc'[p] = label /\ \A q \in Procs : q # p => pc'[q] = pc[q]
  BY <1>1, GotoFacts DEF Typed, RunTypeOK, PC
<1>3. /\ mode' = mode /\ pc[p] = "mark"
      /\ starts' = starts
  BY DEF MarkRunning, Throw, Continue, RejectJob, queueVars
<1>4. CASE p[2] = 0
  <2>1. p = API(p[1]) /\ p[1] \in Runs
    BY <1>4, HandlerProc
  <2>2. mode[p[1]] # "queued"
    BY <1>3, <2>1 DEF Typed, HandlerPlace
  <2>3. label # "done"
    BY <1>1, <1>4
  <2>4. pc'[API(p[1])] \in {"dispatch", "failing"}
    BY <1>2, <2>1, <2>3
  <2> QED
    BY <1>3, <2>2, <2>4 DEF Unexecuted, API
<1>5. CASE p[2] # 0
  <2>1. /\ pc[API(p[1])] = "done" /\ p[2] \in 1 .. starts[p[1]] /\ p = <<p[1], p[2]>>
        /\ starts[p[1]] \in Nat /\ p[1] \in Runs
    BY <1>3, <1>5, WorkerFacts, ProcRun DEF Typed, RunTypeOK
  <2>2. starts[p[1]] = 1 => p = <<p[1], 1>>
    BY <2>1
  <2>3. API(p[1]) # p /\ API(p[1]) \in Procs
    BY <1>5, <2>1, ProcsFacts
  <2>4. pc'[API(p[1])] = "done"
    BY <1>2, <2>1, <2>3
  <2> QED
    BY <1>2, <1>3, <2>1, <2>2, <2>4 DEF Unexecuted, API
<1> QED
  BY <1>4, <1>5

(* No step makes a run unexecuted or early again.                          *)
EarlyPC == {"idle", "deduct", "deducting", "create"}

Shrinks(r) == (Unexecuted(r)' => Unexecuted(r)) /\ (Early(r)' => Early(r))

(* A process that moves on does not return to an earlier phase.            *)
LEMMA MoveShrinks ==
  ASSUME Typed, NEW p \in Procs, NEW label \in PC, Goto(p, label), pc[p] # "idle",
         mode' = mode, starts' = starts,
         label \in EarlyPC => pc[p] \in EarlyPC,
         label \in {"load", "add", "mark"} => pc[p] \in EarlyPC \cup {"load"},
         NEW r \in Runs
  PROVE  Shrinks(r)
<1>1. pc'[p] = label /\ \A q \in Procs : q # p => pc'[q] = pc[q]
  BY GotoFacts DEF Typed, RunTypeOK
<1>2. CASE p[2] = 0
  <2>1. p = API(p[1]) /\ p[1] \in Runs
    BY <1>2, HandlerProc
  <2>2. pc[p] # "load"
    BY <2>1 DEF Typed, HandlerPlace
  <2>3. CASE p[1] = r
    <3>1. pc[API(r)] = pc[p] /\ pc'[API(r)] = label
      BY <1>1, <2>1, <2>3
    <3>2. CASE label \in EarlyPC \cup {"add", "mark"}
      BY <2>2, <3>1, <3>2 DEF Shrinks, Unexecuted, Early, EarlyPC
    <3>3. CASE label \notin EarlyPC \cup {"add", "mark"}
      <4>1. CASE pc[API(r)] \in EarlyPC \cup {"add", "mark"}
        BY <3>1, <3>3, <4>1 DEF Shrinks, Unexecuted, Early, EarlyPC, API
      <4>2. CASE pc[API(r)] \notin EarlyPC \cup {"add", "mark"}
        <5>2. <<r, 1>> \in Procs /\ <<r, 1>> # p
          BY <2>1, ProcsFacts
        <5> QED
          <6>1. ~Early(r)'
            BY <3>1, <3>3 DEF Early, EarlyPC, API
          <6>2. pc'[<<r, 1>>] = pc[<<r, 1>>]
            BY <1>1, <5>2
          <6>3. Unexecuted(r)' => Unexecuted(r)
            BY <3>1, <3>3, <6>2 DEF Unexecuted, EarlyPC, API
          <6> QED
            BY <6>1, <6>3 DEF Shrinks
      <4> QED
        BY <4>1, <4>2
    <3> QED
      BY <3>2, <3>3
  <2>4. CASE p[1] # r
    <3>1. /\ API(r) \in Procs /\ API(r) # p /\ <<r, 1>> \in Procs /\ <<r, 1>> # p
      BY <2>1, <2>4, ProcsFacts
    <3> QED
      BY <1>1, <3>1 DEF Shrinks, Unexecuted, Early, API
  <2> QED
    BY <2>3, <2>4
<1>3. CASE p[2] # 0
  <2>1. API(r) \in Procs /\ API(r) # p /\ <<r, 1>> \in Procs
    BY <1>3, ProcsFacts
  <2>2. pc'[API(r)] = pc[API(r)]
    BY <1>1, <2>1
  <2>3. CASE <<r, 1>> = p
    <3>1. pc[p] \notin EarlyPC
      BY <2>3, ProcsFacts DEF Typed, HandlerPlace, EarlyPC
    <3>2. pc'[<<r, 1>>] \in {"load", "mark"} => pc[<<r, 1>>] \in {"load", "mark"}
      BY <1>1, <2>3, <3>1
    <3> QED
      BY <2>2, <3>2 DEF Shrinks, Unexecuted, Early, API
  <2>4. CASE <<r, 1>> # p
    BY <1>1, <2>1, <2>2, <2>4 DEF Shrinks, Unexecuted, Early, API
  <2> QED
    BY <2>3, <2>4
<1> QED
  BY <1>2, <1>3

(* No step of the system takes a run back to an earlier phase.             *)
LEMMA AllShrink == Typed /\ [Next]_vars => \A r \in Runs : Shrinks(r)
<1> SUFFICES ASSUME Typed, [Next]_vars, NEW r \in Runs
             PROVE  Shrinks(r)
  OBVIOUS
<1>0. RunTypeOK /\ RunTypeOK'
  BY RunTypeStep DEF Typed
<1>1. ASSUME NEW q \in Runs, Request(q)
      PROVE  Shrinks(r)
  <2>1. PICK label \in PC : Goto(API(q), label)
    BY <1>1 DEF Request, Reject, Execute, Enqueue, Reply, PC
  <2>2. /\ starts' = starts /\ pc[API(q)] = "idle"
        /\ \A s \in Runs : s # q => mode'[s] = mode[s]
    BY <1>0, <1>1 DEF Request, Reject, Execute, Enqueue, queueVars, RunTypeOK
  <2>3. CASE r = q
    BY <2>2, <2>3 DEF Shrinks, Unexecuted, Early
  <2>4. CASE r # q
    <3>1. API(q) \in Procs /\ API(r) \in Procs /\ <<r, 1>> \in Procs
          /\ API(r) # API(q) /\ <<r, 1>> # API(q)
      BY <2>4, ProcsFacts
    <3>2. pc'[API(r)] = pc[API(r)] /\ pc'[<<r, 1>>] = pc[<<r, 1>>]
      BY <2>1, <3>1, GotoFacts, <1>0 DEF RunTypeOK
    <3> QED
      BY <2>2, <2>4, <3>2 DEF Shrinks, Unexecuted, Early, API
  <2> QED
    BY <2>3, <2>4
<1>2. ASSUME NEW q \in Runs, Handle(q)
      PROVE  Shrinks(r)
  <2>1. /\ mode' = mode /\ starts' = starts /\ pc[API(q)] # "idle"
    BY <1>2 DEF Handle, CheckCredits, InsufficientCredits, PayRun, DeductFails, CreateLog,
       AddJob, FinishSync, PersistFailure, ReplyFailure, Continue, queueVars
  <2>2. PICK label \in PC :
          /\ Goto(API(q), label)
          /\ label \in EarlyPC \cup {"add", "mark"} => pc[API(q)] \in EarlyPC
          /\ label # "load"
    <3>1. CASE CheckCredits(q) \/ InsufficientCredits(q) \/ PayRun(q) \/ DeductFails(q)
      BY <3>1 DEF CheckCredits, InsufficientCredits, PayRun, DeductFails, Reply, PC, EarlyPC
    <3>2. CASE CreateLog(q) \/ AddJob(q)
      BY <3>2 DEF CreateLog, AddJob, Reply, PC, EarlyPC
    <3>3. CASE FinishSync(q) \/ PersistFailure(q) \/ ReplyFailure(q)
      BY <3>3 DEF FinishSync, PersistFailure, ReplyFailure, Continue, Reply, PC, EarlyPC
    <3> QED
      BY <1>2, <3>1, <3>2, <3>3 DEF Handle
  <2> QED
    BY <2>1, <2>2, MoveShrinks, ProcsFacts
<1>3. ASSUME NEW q \in Runs, Take(q)
      PROVE  Shrinks(r)
  <2> DEFINE p == <<q, starts[q] + 1>>
  <2>1. /\ starts[q] + 1 \in 1 .. MaxExec /\ job[q] = "waiting" /\ mode' = mode
        /\ starts' = [starts EXCEPT ![q] = starts[q] + 1] /\ starts[q] \in Nat
        /\ Goto(p, "load")
    BY <1>0, <1>3 DEF Take, Typed, RunTypeOK, QueueCounters, MaxExec
  <2>2. p \in Procs /\ API(r) # p /\ API(r) \in Procs /\ <<r, 1>> \in Procs
    BY <2>1, ProcsFacts
  <2>3. \A s \in Procs : s # p => pc'[s] = pc[s]
    BY <1>0, <2>1, <2>2, GotoFacts DEF RunTypeOK, PC
  <2>4. pc'[API(r)] = pc[API(r)]
    BY <2>2, <2>3
  <2>5. CASE r = q
    <3>1. starts'[r] = starts[r] + 1
      BY <1>0, <2>1, <2>5 DEF RunTypeOK
    <3>2. starts'[r] = 1 => starts[r] = 0
      BY <2>1, <2>5, <3>1
    <3>3. starts'[r] # 0
      BY <2>1, <2>5, <3>1
    <3> QED
      BY <2>1, <2>4, <3>2, <3>3 DEF Shrinks, Unexecuted, Early, API
  <2>6. CASE r # q
    <3>1. starts'[r] = starts[r] /\ <<r, 1>> # p
      BY <1>0, <2>1, <2>6 DEF RunTypeOK
    <3> QED
      BY <2>1, <2>2, <2>3, <2>4, <3>1 DEF Shrinks, Unexecuted, Early, API
  <2> QED
    BY <2>5, <2>6
<1>4. ASSUME NEW p \in Procs, Step(p)
      PROVE  Shrinks(r)
  <2>1. CASE LoadAgent(p)
    <3>1. PICK label \in {"mark", "done", "failing"} : Goto(p, label)
      BY <2>1 DEF LoadAgent, Throw, Continue
    <3>2. mode' = mode /\ starts' = starts /\ pc[p] = "load"
      BY <2>1 DEF LoadAgent, Throw, Continue, RejectJob, queueVars
    <3> QED
      BY <3>1, <3>2, MoveShrinks DEF PC, EarlyPC
  <2>2. CASE ~LoadAgent(p)
    <3>1. PICK label \in (WorkerPC \cup {"failing"}) \ {"mark"} : Goto(p, label)
      BY <1>4, <2>2 DEF Step, MarkRunning, Dispatch, PersistResult, ResultPersisted,
         PersistThrows, CreateInvoice, CreatePayout, FinishQueued, Throw, Continue, WorkerPC
    <3>2. mode' = mode /\ starts' = starts /\ pc[p] # "idle"
      BY <1>4, StepMoves, StepLabel DEF Moves, Completes, RejectJob, Continue, queueVars
    <3>3. label \in PC /\ label \notin EarlyPC /\ label \notin {"load", "add", "mark"}
      BY DEF PC, EarlyPC, WorkerPC
    <3> QED
      BY <3>1, <3>2, <3>3, MoveShrinks
  <2> QED
    BY <2>1, <2>2
<1>5. ASSUME NEW p \in Procs, Crash(p)
      PROVE  Shrinks(r)
  <2>1. mode' = mode /\ starts' = starts /\ pc[p] # "idle" /\ Goto(p, "done")
    BY <1>5 DEF Crash, Continue, queueVars
  <2> QED
    BY <2>1, MoveShrinks DEF PC, EarlyPC
<1>6. ASSUME NEW w \in writes, Lose(w)
      PROVE  Shrinks(r)
  <2>1. w.proc \in Procs /\ mode' = mode
    BY <1>0, <1>6 DEF RunTypeOK, Write, Lose
  <2>2. CASE pc[w.proc] = "persisting" /\ w.by = "persistResult"
    <3>1. PICK label \in {"failing", "done"} : Goto(w.proc, label)
      BY <1>6, <2>2 DEF Lose, Throw, Continue
    <3>2. starts' = starts
      BY <1>6, <2>2 DEF Lose, Throw, Continue, RejectJob, queueVars
    <3> QED
      BY <2>1, <2>2, <3>1, <3>2, MoveShrinks DEF PC, EarlyPC
  <2>3. CASE ~(pc[w.proc] = "persisting" /\ w.by = "persistResult")
    BY <1>6, <2>3 DEF Lose, queueVars, Shrinks, Unexecuted, Early, API
  <2> QED
    BY <2>2, <2>3
<1>7. CASE (\E q \in Runs : Stall(q)) \/ (\E w \in writes : Land(w)) \/ DeleteAgent
           \/ GrantCredits \/ UNCHANGED vars
  <2>1. UNCHANGED <<pc, mode, starts>>
    BY <1>7 DEF Stall, Land, DeleteAgent, GrantCredits, vars, queueVars
  <2> QED
    BY <2>1 DEF Shrinks, Unexecuted, Early, API
<1> QED
  BY <1>1, <1>2, <1>3, <1>4, <1>5, <1>6, <1>7 DEF Next

(* Where a write comes from, and who writes the log.                       *)
LEMMA WriteSource ==
  ASSUME Typed, [Next]_vars, NEW w \in writes', w \notin writes
  PROVE  /\ w.proc \in Procs /\ w.proc[1] \in Runs
         /\ pc[w.proc] \in {"persist", "failing"}
         /\ w.val = "COMPLETED" => result[w.proc]
         /\ ~Unexecuted(w.proc[1])
         /\ UNCHANGED <<mode, paid, reply>>
<1>1. PICK p \in Procs : PersistResult(p) \/ \E r \in Runs : p = API(r) /\ PersistFailure(r)
  <2>1. CASE \E r \in Runs : PersistFailure(r)
    BY <2>1, ProcsFacts
  <2>2. CASE \E p \in Procs : PersistResult(p)
    BY <2>2
  <2>3. CASE UNCHANGED vars
    BY <2>3 DEF vars, logVars
  <2>4. CASE Next /\ ~(\E r \in Runs : PersistFailure(r)) /\ ~(\E p \in Procs : PersistResult(p))
    BY <2>4 DEF Next, Request, Reject, Execute, Enqueue, Handle, CheckCredits,
       InsufficientCredits, PayRun, DeductFails, CreateLog, AddJob, FinishSync, ReplyFailure,
       Take, Stall, Step, LoadAgent, MarkRunning, Dispatch, ResultPersisted, PersistThrows,
       CreateInvoice, CreatePayout, FinishQueued, Crash, Land, Lose, DeleteAgent,
       GrantCredits, logVars
  <2> QED
    BY <2>1, <2>2, <2>3, <2>4
<1>2. /\ w \in [proc: {p}, column: {"log", "stats"}, val: LogStatus,
                by: {"persistResult", "persistFailure"}]
      /\ pc[p] \in {"persist", "failing"}
      /\ w.val = "COMPLETED" => result[p]
      /\ UNCHANGED <<mode, paid, reply>>
  BY <1>1 DEF PersistResult, PersistFailure, Send, LogStatus
<1>3. w.proc = p
  BY <1>2
<1> QED
  BY <1>2, <1>3, Executing, ProcRun

(* The only steps that change the status of a log.                         *)
LEMMA LogSource ==
  ASSUME Typed, [Next]_vars, NEW r \in Runs
  PROVE  \/ log'[r] = log[r]
         \/ log'[r] = "NONE" /\ DeleteAgent
         \/ CreateLog(r) /\ log'[r] = "PENDING" /\ ~Early(r)'
         \/ /\ log'[r] = "RUNNING"
            /\ \E p \in Procs : p[1] = r /\ MarkRunning(p)
         \/ \E w \in writes : w.proc[1] = r /\ w.column = "log" /\ log'[r] = w.val /\ Land(w)
<1>1. CASE \E q \in Runs : CreateLog(q)
  <2>1. PICK q \in Runs : CreateLog(q)
    BY <1>1
  <2>2. CASE q = r
    <3>1. CASE log' = log
      BY <3>1
    <3>2. CASE log' # log
      <4>1. log' = [log EXCEPT ![r] = "PENDING"]
            /\ \E label \in {"mark", "add"} : Goto(API(r), label)
        BY <2>1, <2>2, <3>2 DEF CreateLog
      <4>2. pc'[API(r)] \in {"mark", "add"}
        BY <4>1, GotoFacts, ProcsFacts DEF Typed, RunTypeOK, PC
      <4> QED
        BY <2>1, <2>2, <4>1, <4>2 DEF Typed, RunTypeOK, Early, API
    <3> QED
      BY <3>1, <3>2
  <2>3. CASE q # r
    BY <2>1, <2>3 DEF CreateLog, Typed, RunTypeOK
  <2> QED
    BY <2>2, <2>3
<1>2. CASE \E p \in Procs : MarkRunning(p)
  BY <1>2, ProcRun DEF MarkRunning, Typed, RunTypeOK
<1>3. CASE \E w \in writes : Land(w)
  <2>1. PICK w \in writes : Land(w)
    BY <1>3
  <2>2. CASE w.column = "log" /\ w.proc[1] = r
    BY <2>1, <2>2 DEF Land, Typed, RunTypeOK
  <2>3. CASE ~(w.column = "log" /\ w.proc[1] = r)
    BY <2>1, <2>3 DEF Land, Typed, RunTypeOK
  <2> QED
    BY <2>2, <2>3
<1>4. CASE DeleteAgent
  BY <1>4 DEF DeleteAgent
<1>5. CASE \/ UNCHANGED vars
           \/ /\ Next /\ ~DeleteAgent /\ ~(\E q \in Runs : CreateLog(q))
              /\ ~(\E p \in Procs : MarkRunning(p)) /\ ~(\E w \in writes : Land(w))
  <2>1. log' = log
    BY <1>5 DEF vars, Next, Request, Reject, Execute, Enqueue, Handle, CheckCredits,
       InsufficientCredits, PayRun, DeductFails, AddJob, FinishSync, PersistFailure,
       ReplyFailure, Take, Stall, Step, LoadAgent, Dispatch, PersistResult, ResultPersisted,
       PersistThrows, CreateInvoice, CreatePayout, FinishQueued, Crash, Lose,
       GrantCredits, logVars
  <2> QED
    BY <2>1
<1> QED
  BY <1>1, <1>2, <1>3, <1>4, <1>5

LogsPlaced == \A r \in Runs : LogPlace(r)

(* Each step keeps the logs and the pending writes where they belong.      *)
LEMMA LogStep == Typed /\ LogsPlaced /\ [Next]_vars => LogsPlaced'
<1> SUFFICES ASSUME Typed, LogsPlaced, [Next]_vars, NEW r \in Runs
             PROVE  LogPlace(r)'
  BY DEF LogsPlaced
<1>1. Shrinks(r) /\ LogPlace(r) /\ (Early(r) => Unexecuted(r))
  BY AllShrink DEF LogsPlaced, Early, Unexecuted
<1>2. ASSUME Early(r)'
      PROVE  log'[r] = "NONE"
  <2>1. Early(r) /\ Unexecuted(r) /\ log[r] = "NONE"
    BY <1>1, <1>2 DEF Shrinks, LogPlace, Early
  <2>2. ASSUME NEW p \in Procs, p[1] = r, MarkRunning(p)
        PROVE  FALSE
    BY <1>2, <2>2, MarkExecutes DEF Early, Unexecuted
  <2> QED
    BY <1>1, <1>2, <2>1, <2>2, LogSource DEF LogPlace
<1>3. ASSUME Unexecuted(r)'
      PROVE  log'[r] \in {"NONE", "PENDING"} /\ \A w \in writes' : w.proc[1] # r
  <2>1. /\ Unexecuted(r) /\ log[r] \in {"NONE", "PENDING"}
        /\ \A w \in writes : w.proc[1] # r
    BY <1>1, <1>3 DEF Shrinks, LogPlace
  <2>2. log'[r] \in {"NONE", "PENDING"}
    <3>1. ASSUME NEW p \in Procs, p[1] = r, MarkRunning(p)
          PROVE  FALSE
      BY <1>3, <3>1, MarkExecutes
    <3> QED
      BY <2>1, <3>1, LogSource
  <2>3. ASSUME NEW w \in writes', w.proc[1] = r
        PROVE  FALSE
    BY <2>1, <2>3, WriteSource
  <2> QED
    BY <2>2, <2>3
<1> QED
  BY <1>2, <1>3 DEF LogPlace, Early, API

-----------------------------------------------------------------------------
(* What was charged follows from where the handler is.                     *)
Elsewhere(r) ==
  /\ mode'[r] = mode[r] /\ paid'[r] = paid[r]
  /\ reply'[r] = reply[r] \/ (reply'[r] = "dropped" /\ pc'[API(r)] = "done")
  /\ \/ pc'[API(r)] = pc[API(r)]
     \/ pc[API(r)] \notin {"idle", "done"} /\ pc'[API(r)] = "done"
     \/ /\ pc[API(r)] \notin EarlyPC \cup {"add", "done"}
        /\ pc'[API(r)] \in WorkerPC \cup {"failing"}

(* A step that is not the handler's own hardly touches the handler.        *)
LEMMA StepElsewhere ==
  ASSUME Typed, [Next]_vars, NEW r \in Runs
  PROVE  Request(r) \/ Handle(r) \/ Elsewhere(r)
<1>0. RunTypeOK /\ API(r) \in Procs
  BY ProcsFacts DEF Typed
<1>1. ASSUME NEW q \in Runs, Request(q) \/ Handle(q), q # r
      PROVE  Elsewhere(r)
  <2>1. \E label \in PC : Goto(API(q), label)
    <3>1. CASE Request(q)
      BY <3>1 DEF Request, Reject, Execute, Enqueue, Reply, PC
    <3>2. CASE Handle(q)
      BY <3>2 DEF Handle, CheckCredits, InsufficientCredits, PayRun, DeductFails, CreateLog,
         AddJob, FinishSync, PersistFailure, ReplyFailure, Continue, Reply, PC
    <3> QED
      BY <1>1, <3>1, <3>2
  <2>2. API(q) \in Procs /\ API(q) # API(r)
    BY <1>1, ProcsFacts
  <2>3. pc'[API(r)] = pc[API(r)]
    BY <1>0, <2>1, <2>2, GotoFacts DEF RunTypeOK
  <2>4. mode'[r] = mode[r] /\ paid'[r] = paid[r] /\ reply'[r] = reply[r]
    <3>1. CASE Request(q)
      BY <1>0, <1>1, <3>1 DEF Request, Reject, Execute, Enqueue, Reply, RunTypeOK
    <3>2. CASE Handle(q)
      BY <1>0, <1>1, <3>2 DEF Handle, CheckCredits, InsufficientCredits, PayRun, DeductFails,
         CreateLog, AddJob, FinishSync, PersistFailure, ReplyFailure, Reply, RunTypeOK
    <3> QED
      BY <1>1, <3>1, <3>2
  <2> QED
    BY <2>3, <2>4 DEF Elsewhere
<1>2. ASSUME NEW p \in Procs, Step(p)
      PROVE  Elsewhere(r)
  <2>1. PICK label \in WorkerPC \cup {"failing"} : Goto(p, label)
    BY <1>2, StepLabel
  <2>2. label \in PC
    BY DEF PC, WorkerPC
  <2>3. pc'[p] = label /\ \A q \in Procs : q # p => pc'[q] = pc[q]
    BY <1>0, <2>1, <2>2, GotoFacts DEF RunTypeOK
  <2>4. pc[p] \notin EarlyPC \cup {"add", "done"}
    BY <1>2, StepLabel DEF EarlyPC
  <2>5. mode' = mode /\ paid' = paid /\ reply' = reply
    BY <1>2 DEF Step, LoadAgent, MarkRunning, Dispatch, PersistResult, ResultPersisted,
       PersistThrows, CreateInvoice, CreatePayout, FinishQueued
  <2> QED
    BY <1>0, <2>3, <2>4, <2>5 DEF Elsewhere
<1>3. ASSUME NEW p \in Procs, Crash(p)
      PROVE  Elsewhere(r)
  <2>1. /\ mode' = mode /\ paid' = paid /\ Goto(p, "done") /\ pc[p] \notin {"idle", "done"}
        /\ reply' = IF p[2] = 0 THEN [reply EXCEPT ![p[1]] = "dropped"] ELSE reply
    BY <1>3 DEF Crash, Continue
  <2>2. pc'[p] = "done" /\ \A q \in Procs : q # p => pc'[q] = pc[q]
    BY <1>0, <2>1, GotoFacts DEF RunTypeOK, PC
  <2>3. reply'[r] = reply[r] \/ (reply'[r] = "dropped" /\ p = API(r))
    BY <1>0, <2>1, HandlerProc DEF RunTypeOK
  <2> QED
    BY <1>0, <2>1, <2>2, <2>3 DEF Elsewhere
<1>4. ASSUME NEW w \in writes, Lose(w)
      PROVE  Elsewhere(r)
  <2>1. w.proc \in Procs /\ mode' = mode /\ paid' = paid /\ reply' = reply
    BY <1>0, <1>4 DEF RunTypeOK, Write, Lose
  <2>2. CASE pc[w.proc] = "persisting" /\ w.by = "persistResult"
    <3>1. PICK label \in {"failing", "done"} : Goto(w.proc, label)
      BY <1>4, <2>2 DEF Lose, Throw, Continue
    <3>2. pc'[w.proc] = label /\ \A q \in Procs : q # w.proc => pc'[q] = pc[q]
      BY <1>0, <2>1, <3>1, GotoFacts DEF RunTypeOK, PC
    <3> QED
      BY <1>0, <2>1, <2>2, <3>2 DEF Elsewhere, EarlyPC
  <2>3. CASE ~(pc[w.proc] = "persisting" /\ w.by = "persistResult")
    BY <1>4, <2>1, <2>3 DEF Lose, Elsewhere
  <2> QED
    BY <2>2, <2>3
<1>5. ASSUME NEW q \in Runs, Take(q)
      PROVE  Elsewhere(r)
  <2>1. /\ starts[q] + 1 \in 1 .. MaxExec /\ Goto(<<q, starts[q] + 1>>, "load")
        /\ mode' = mode /\ paid' = paid /\ reply' = reply
    BY <1>0, <1>5 DEF Take, Typed, RunTypeOK, QueueCounters, MaxExec
  <2>2. <<q, starts[q] + 1>> \in Procs /\ API(r) # <<q, starts[q] + 1>>
    BY <2>1, ProcsFacts
  <2>3. pc'[API(r)] = pc[API(r)]
    BY <1>0, <2>1, <2>2, GotoFacts DEF RunTypeOK, PC
  <2> QED
    BY <2>1, <2>3 DEF Elsewhere
<1>6. CASE (\E q \in Runs : Stall(q)) \/ (\E w \in writes : Land(w)) \/ DeleteAgent
           \/ GrantCredits \/ UNCHANGED vars
  BY <1>6 DEF Stall, Land, DeleteAgent, GrantCredits, vars, Elsewhere
<1> QED
  BY <1>1, <1>2, <1>3, <1>4, <1>5, <1>6 DEF Next

ChargesPlaced == ChargedOnce /\ \A r \in Runs : Charged(r)

(* Each step charges a run at most once, and before its log exists.        *)
LEMMA ChargedStep ==
  Typed /\ LogsPlaced /\ ChargesPlaced /\ [Next]_vars => ChargesPlaced'
<1> SUFFICES ASSUME Typed, LogsPlaced, ChargesPlaced, [Next]_vars, NEW r \in Runs
             PROVE  /\ Charged(r)'
                    /\ paid'[r] \in {0, CostOf[r]}
                    /\ mode'[r] = "sync" /\ log'[r] # "NONE" => paid'[r] = CostOf[r]
                    /\ reply'[r] = "rejected" => paid'[r] = 0
  BY DEF ChargesPlaced, ChargedOnce
<1>0. /\ RunTypeOK /\ API(r) \in Procs /\ HandlerPlace(r) /\ Charged(r) /\ LogPlace(r)
      /\ paid[r] \in {0, CostOf[r]} /\ CostOf[r] \in Nat
      /\ mode[r] = "sync" /\ log[r] # "NONE" => paid[r] = CostOf[r]
      /\ reply[r] = "rejected" => paid[r] = 0
  BY ProcsFacts DEF Typed, LogsPlaced, ChargesPlaced, ChargedOnce
<1>1. ASSUME NEW w \in writes', w.proc[1] = r, mode[r] = "sync"
      PROVE  paid[r] = CostOf[r] /\ ~Early(r)
  <2>1. CASE w \in writes
    <3>1. ~Early(r)
      BY <1>0, <1>1, <2>1 DEF LogPlace, Unexecuted, Early
    <3> QED
      BY <1>0, <1>1, <2>1, <3>1 DEF Charged
  <2>2. CASE w \notin writes
    <3>1. w.proc \in Procs /\ pc[w.proc] \in {"persist", "failing"}
      BY <2>2, WriteSource
    <3>2. w.proc[2] = 0
      BY <1>1, <3>1, WorkerFacts
    <3>3. w.proc = API(r)
      BY <1>1, <3>1, <3>2, HandlerProc
    <3> QED
      BY <1>0, <1>1, <3>1, <3>3 DEF Charged, Early
  <2> QED
    BY <2>1, <2>2
<1>2. ASSUME NEW p \in Procs, p[1] = r, MarkRunning(p), mode[r] = "sync"
      PROVE  paid[r] = CostOf[r] /\ ~Early(r)
  <2>1. pc[p] = "mark"
    BY <1>2 DEF MarkRunning
  <2>2. p = API(r)
    BY <1>2, <2>1, WorkerFacts, HandlerProc
  <2> QED
    BY <1>0, <1>2, <2>1, <2>2 DEF Charged, Early
<1>3. CASE Request(r)
  <2>1. /\ pc[API(r)] = "idle" /\ paid' = paid /\ log' = log /\ writes' = writes
        /\ mode[r] # "sync" /\ paid[r] = 0 /\ log[r] = "NONE"
    <3>1. pc[API(r)] = "idle" /\ paid' = paid /\ log' = log /\ writes' = writes
      BY <1>3 DEF Request, Reject, Execute, Enqueue, logVars
    <3>2. mode[r] # "sync"
      BY <1>0, <3>1 DEF HandlerPlace
    <3> QED
      BY <1>0, <3>1, <3>2 DEF Charged, LogPlace
  <2>2. \A w \in writes : w.proc[1] # r
    BY <1>0, <2>1 DEF LogPlace, Unexecuted
  <2>3. \/ pc'[API(r)] = "done"
        \/ pc'[API(r)] = "create" /\ CostOf[r] = 0 /\ reply' = reply
        \/ pc'[API(r)] = "create" /\ mode'[r] = "queued" /\ reply' = reply
        \/ pc'[API(r)] = "deduct" /\ CostOf[r] > 0 /\ mode'[r] = "sync" /\ reply' = reply
    BY <1>0, <1>3 DEF Request, Reject, Execute, Enqueue, Reply, Goto, RunTypeOK
  <2>4. reply[r] = "none"
    BY <1>0, <2>1 DEF Charged
  <2> QED
    BY <1>0, <2>1, <2>2, <2>3, <2>4 DEF Charged, API
<1>4. CASE Handle(r)
  <2>1. mode' = mode /\ reply[r] = "none" /\ mode[r] # "none"
    <3>1. mode' = mode /\ pc[API(r)] \notin {"idle", "done"}
      BY <1>4 DEF Handle, CheckCredits, InsufficientCredits, PayRun, DeductFails, CreateLog,
         AddJob, FinishSync, PersistFailure, ReplyFailure
    <3> QED
      BY <1>0, <3>1 DEF Charged, HandlerPlace
  <2>2. CASE CheckCredits(r)
    <3>1. /\ pc[API(r)] = "deduct" /\ pc'[API(r)] = "deducting"
          /\ UNCHANGED <<paid, log, writes, reply>>
      BY <1>0, <2>2 DEF CheckCredits, Goto, RunTypeOK, logVars
    <3> QED
      BY <1>0, <1>1, <2>1, <3>1 DEF Charged, Early, API
  <2>3. CASE InsufficientCredits(r) \/ DeductFails(r)
    <3>1. /\ pc[API(r)] \in {"deduct", "deducting"} /\ pc'[API(r)] = "done"
          /\ UNCHANGED <<paid, log, writes>>
      BY <1>0, <2>3 DEF InsufficientCredits, DeductFails, Reply, Goto, RunTypeOK, logVars
    <3>2. paid[r] = 0 /\ log[r] = "NONE"
      BY <1>0, <3>1 DEF Charged, LogPlace
    <3> QED
      BY <1>0, <1>1, <2>1, <3>1, <3>2 DEF Charged, Early, API
  <2>4. CASE PayRun(r)
    <3>1. /\ pc[API(r)] = "deducting" /\ UNCHANGED <<log, writes>>
          /\ \/ pc'[API(r)] = "create" /\ reply' = reply
             \/ pc'[API(r)] = "done" /\ reply' = [reply EXCEPT ![r] = "error"]
          /\ paid'[r] = paid[r] + CostOf[r]
      BY <1>0, <2>4 DEF PayRun, Reply, Goto, RunTypeOK, logVars
    <3>2. paid[r] = 0 /\ log[r] = "NONE" /\ mode[r] = "sync"
      BY <1>0, <2>1, <3>1 DEF Charged, LogPlace, HandlerPlace, RunTypeOK
    <3>3. paid'[r] = CostOf[r]
      BY <1>0, <3>1, <3>2
    <3>4. reply'[r] # "rejected"
      BY <1>0, <2>1, <3>1 DEF RunTypeOK
    <3>5. reply'[r] # "none" => pc'[API(r)] = "done"
      BY <2>1, <3>1
    <3> QED
      BY <1>0, <2>1, <3>1, <3>2, <3>3, <3>4, <3>5 DEF Charged, API
  <2>5. CASE CreateLog(r)
    <3>1. /\ pc[API(r)] = "create" /\ UNCHANGED <<paid, writes>>
          /\ \/ pc'[API(r)] \in {"mark", "add"} /\ reply' = reply
             \/ pc'[API(r)] = "done" /\ reply' = [reply EXCEPT ![r] = "error"]
      BY <1>0, <2>5 DEF CreateLog, Reply, Goto, RunTypeOK
    <3>2. mode[r] = "sync" => paid[r] = CostOf[r]
      BY <1>0, <3>1 DEF Charged
    <3>3. /\ reply'[r] # "rejected"
          /\ reply'[r] # "none" => pc'[API(r)] = "done"
      BY <1>0, <2>1, <3>1 DEF RunTypeOK
    <3> QED
      BY <1>0, <2>1, <3>1, <3>2, <3>3 DEF Charged, API
  <2>6. CASE AddJob(r)
    <3>1. /\ pc[API(r)] = "add" /\ pc'[API(r)] = "done" /\ UNCHANGED <<paid, log, writes>>
          /\ \E a \in {"ok", "error"} : reply' = [reply EXCEPT ![r] = a]
      BY <1>0, <2>6 DEF AddJob, Reply, Goto, RunTypeOK, logVars
    <3>2. mode[r] # "sync" /\ reply'[r] # "rejected"
      BY <1>0, <3>1 DEF HandlerPlace, RunTypeOK
    <3> QED
      BY <1>0, <2>1, <3>1, <3>2 DEF Charged, API
  <2>7. CASE FinishSync(r) \/ PersistFailure(r) \/ ReplyFailure(r)
    <3>1. /\ pc[API(r)] \in {"finish", "failing", "failpersist"}
          /\ UNCHANGED <<paid, log>>
          /\ \/ pc'[API(r)] = "failpersist" /\ reply' = reply
             \/ pc'[API(r)] = "done" /\ \E a \in {"ok", "error"} : reply' = [reply EXCEPT ![r] = a]
      BY <1>0, <2>7
      DEF FinishSync, PersistFailure, ReplyFailure, Continue, Reply, Goto, RunTypeOK, logVars
    <3>2. mode[r] = "sync" => paid[r] = CostOf[r]
      BY <1>0, <3>1 DEF Charged
    <3>3. /\ reply'[r] # "rejected"
          /\ reply'[r] # "none" => pc'[API(r)] = "done"
      BY <1>0, <2>1, <3>1 DEF RunTypeOK
    <3> QED
      BY <1>0, <2>1, <3>1, <3>2, <3>3 DEF Charged, API
  <2> QED
    BY <1>4, <2>2, <2>3, <2>4, <2>5, <2>6, <2>7 DEF Handle
<1>5. CASE Elsewhere(r)
  <2>1. /\ mode'[r] = mode[r] /\ paid'[r] = paid[r]
        /\ reply'[r] = reply[r] \/ (reply'[r] = "dropped" /\ pc'[API(r)] = "done")
    BY <1>5 DEF Elsewhere
  <2>2. /\ pc'[API(r)] \in {"deduct", "deducting"} => pc'[API(r)] = pc[API(r)]
        /\ pc[API(r)] = "done" => pc'[API(r)] = "done"
        /\ pc'[API(r)] \notin {"deduct", "deducting", "done"}
              => pc[API(r)] \notin {"deduct", "deducting", "done"}
    BY <1>5 DEF Elsewhere, WorkerPC, EarlyPC
  <2>3. Charged(r)'
    BY <1>0, <1>1, <2>1, <2>2 DEF Charged, API
  <2>4. mode'[r] = "sync" /\ log'[r] # "NONE" => paid'[r] = CostOf[r]
    <3>1. ASSUME CreateLog(r), mode[r] = "sync"
          PROVE  paid[r] = CostOf[r]
      BY <1>0, <3>1 DEF CreateLog, Charged
    <3>2. ASSUME NEW w \in writes, w.proc[1] = r, mode[r] = "sync"
          PROVE  paid[r] = CostOf[r]
      BY <1>0, <3>2 DEF Charged
    <3> QED
      BY <1>0, <1>2, <2>1, <3>1, <3>2, LogSource
  <2> QED
    BY <1>0, <2>1, <2>3, <2>4
<1> QED
  BY <1>3, <1>4, <1>5, StepElsewhere

-----------------------------------------------------------------------------
(* The invariant the theorems below rest on.                               *)
PipelineInv == Typed /\ LogsPlaced /\ ChargesPlaced

(* The inductive invariant holds before any request.                       *)
LEMMA PipelineInit == Init => PipelineInv
<1> SUFFICES ASSUME Init
             PROVE  PipelineInv
  OBVIOUS
<1>1. Typed
  BY TypedInit
<1>2. /\ \A r \in Runs : /\ pc[API(r)] = "idle" /\ mode[r] = "none" /\ log[r] = "NONE"
                         /\ paid[r] = 0 /\ reply[r] = "none"
      /\ writes = {}
  BY ProcsFacts DEF Init
<1>3. LogsPlaced
  BY <1>2 DEF LogsPlaced, LogPlace
<1>4. ChargesPlaced
  BY <1>2 DEF ChargesPlaced, ChargedOnce, Charged
<1> QED
  BY <1>1, <1>3, <1>4 DEF PipelineInv

(* And each step preserves it.                                             *)
LEMMA PipelineStep == PipelineInv /\ [Next]_vars => PipelineInv'
BY TypedInductive, LogStep, ChargedStep DEF PipelineInv

(* So it holds in every reachable state.                                   *)
LEMMA PipelineInvariant == Spec => []PipelineInv
BY PipelineInit, PipelineStep, PTL DEF Spec

(* RuntimeEngine charges a run at most once, a synchronous run before it   *)
(* is logged or executed, and never a run it turned away.                  *)
THEOREM ChargedAtMostOnce == Spec => []ChargedOnce
<1>1. PipelineInv => ChargedOnce
  BY DEF PipelineInv, ChargesPlaced
<1> QED
  BY <1>1, PipelineInvariant, PTL

(* Only a second or later execution of a job takes a finished log back to  *)
(* RUNNING; execute, and a job's first execution, never do.                *)
LEMMA ReopenStep ==
  ASSUME PipelineInv, [Next]_vars, NEW r \in Runs,
         log[r] \in {"COMPLETED", "FAILED"}, log'[r] \notin {"COMPLETED", "FAILED"}
  PROVE  ~agentExists' \/ (log'[r] = "RUNNING" /\ starts[r] > 1)
<1>1. Typed /\ LogPlace(r)
  BY DEF PipelineInv, LogsPlaced
<1>2. ~Unexecuted(r) /\ pc[API(r)] # "create"
  BY <1>1 DEF LogPlace
<1>3. CASE DeleteAgent
  BY <1>3 DEF DeleteAgent
<1>4. CASE CreateLog(r)
  BY <1>2, <1>4 DEF CreateLog
<1>5. ASSUME log'[r] = "RUNNING", NEW p \in Procs, p[1] = r, MarkRunning(p)
      PROVE  starts[r] > 1
  <2>1. pc[p] = "mark"
    BY <1>5 DEF MarkRunning
  <2>2. p[2] # 0
    BY <1>2, <1>5, <2>1, HandlerProc DEF Unexecuted
  <2>3. mode[r] = "queued" /\ p[2] \in 1 .. starts[r] /\ p = <<r, p[2]>>
    BY <1>1, <1>5, <2>1, <2>2, WorkerFacts
  <2>4. starts[r] \in Nat
    BY <1>1 DEF Typed, RunTypeOK
  <2>5. starts[r] # 0
    BY <2>3
  <2>6. starts[r] = 1 => p = <<r, 1>>
    BY <2>3
  <2>7. starts[r] # 1
    BY <1>2, <2>1, <2>3, <2>6 DEF Unexecuted
  <2> QED
    BY <2>4, <2>5, <2>7
<1>6. ASSUME NEW w \in writes, log'[r] = w.val
      PROVE  FALSE
  <2>1. w.val \in {"COMPLETED", "FAILED"}
    BY <1>1, <1>6 DEF Typed, RunTypeOK, Write
  <2> QED
    BY <1>6, <2>1
<1> QED
  BY <1>1, <1>3, <1>4, <1>5, <1>6, LogSource

(* A finished log goes back to RUNNING only when executeQueued takes the   *)
(* job again: no late write of RuntimeEngine reopens a run.                *)
THEOREM ReopenedByReexecution == Spec => OnlyReexecutionReopens
<1> DEFINE Kept == \A r \in Runs :
      log[r] \in {"COMPLETED", "FAILED"} /\ log'[r] \notin {"COMPLETED", "FAILED"}
        => ~agentExists' \/ (log'[r] = "RUNNING" /\ starts[r] > 1)
<1>1. PipelineInv /\ [Next]_vars => Kept
  BY ReopenStep
<1>2. PipelineInv /\ [Next]_vars => [Kept]_vars
  BY <1>1
<1>3. Spec => [][Kept]_vars
  <2> HIDE DEF Kept
  <2> QED
    BY <1>2, PipelineInvariant, PTL DEF Spec
<1> QED
  BY <1>3 DEF OnlyReexecutionReopens

-----------------------------------------------------------------------------
(* The pipeline implements the wallet.                                     *)
LEMMA WalletStep == PipelineInv /\ [Next]_vars => [WalletNext]_walletVars
<1> SUFFICES ASSUME PipelineInv, [Next]_vars
             PROVE  [WalletNext]_walletVars
  OBVIOUS
<1>1. ASSUME NEW r \in Runs, CheckCredits(r)
      PROVE  WalletNext
  <2>1. CostOf[r] \in 1 .. MaxCost /\ WalletOf[r] \in Wallets /\ r \in Requests
    <3>1. CostOf[r] > 0
      BY <1>1 DEF CheckCredits, PipelineInv, ChargesPlaced, Charged
    <3> QED
      BY <3>1, MaxCostPositive DEF Runs
  <2>2. BeginDeduct(r, WalletOf[r], CostOf[r])
    BY <1>1 DEF CheckCredits
  <2> QED
    BY <2>1, <2>2 DEF WalletNext
<1>2. ASSUME NEW r \in Runs, PayRun(r)
      PROVE  WalletNext
  BY <1>2 DEF PayRun, WalletNext, Runs
<1>3. ASSUME NEW r \in Runs, DeductFails(r)
      PROVE  WalletNext
  BY <1>3 DEF DeductFails, WalletNext, Runs
<1>4. ASSUME NEW p \in Procs, Crash(p)
      PROVE  [WalletNext]_walletVars
  <2>1. CASE pc[p] = "deducting"
    BY <1>4, <2>1, ProcRun DEF Crash, WalletNext, Runs
  <2>2. CASE pc[p] # "deducting"
    BY <1>4, <2>2 DEF Crash
  <2> QED
    BY <2>1, <2>2
<1>5. ASSUME GrantCredits
      PROVE  WalletNext
  BY <1>5 DEF GrantCredits, WalletNext
<1>6. CASE UNCHANGED walletVars
  BY <1>6
<1>7. \/ \E r \in Runs : CheckCredits(r) \/ PayRun(r) \/ DeductFails(r)
      \/ \E p \in Procs : Crash(p)
      \/ GrantCredits
      \/ UNCHANGED walletVars
  BY DEF vars, Next, Request, Reject, Execute, Enqueue, Handle, InsufficientCredits,
     CreateLog, AddJob, FinishSync, PersistFailure, ReplyFailure, Take, Stall, Step,
     LoadAgent, MarkRunning, Dispatch, PersistResult, ResultPersisted, PersistThrows,
     CreateInvoice, CreatePayout, FinishQueued, Land, Lose, DeleteAgent
<1> QED
  BY <1>1, <1>2, <1>3, <1>4, <1>5, <1>6, <1>7

(* Whatever the pipeline does with a run, its credits move only by the     *)
(* wallet's own checked and rolled-back transactions.                      *)
THEOREM PipelineImplementsWallet == Spec => ImplementsWallet
<1>1. Init => WalletInit
  BY DEF Init
<1> QED
  BY <1>1, WalletStep, PipelineInvariant, PTL DEF Spec, WalletSpec, ImplementsWallet

(* So the wallet's theorems hold of the pipeline: no credit of a run is    *)
(* created or lost, and concurrent runs overdraw by a bounded amount.      *)
THEOREM PipelineConserves == Spec => [](Conservation /\ BoundedOverdraft)
<1>1. WalletSpec => [](Conservation /\ BoundedOverdraft)
  BY CreditsConserved, OverdraftBounded, PTL
<1> QED
  BY <1>1, PipelineImplementsWallet, PTL DEF ImplementsWallet

-----------------------------------------------------------------------------
(* Money moves forward along the path of an execution.                     *)
ChargedPlaced == \A p \in Procs : ChargePlace(p)

Ended == {"finish", "failing", "failpersist", "done"}

Charging == {"persist", "persisting", "invoice"} \cup Paying

(* A process moves, and nothing that concerns money changes.               *)
MoneyMove(p, label) ==
  /\ Goto(p, label)
  /\ \/ label \in Ended
     \/ pc[p] \notin Charging /\ label \notin {"invoice", "payout"}
     \/ pc[p] = "persist" /\ label = "persisting"
     \/ pc[p] = "persisting" /\ label = "invoice" /\ result[p]

(* Moving a process that records no money keeps the charges backed.        *)
LEMMA MoneyMoves ==
  ASSUME Typed, ChargedPlaced, NEW p \in Procs, NEW label \in PC, MoneyMove(p, label),
         UNCHANGED chargeVars
  PROVE  ChargedPlaced'
<1> SUFFICES ASSUME NEW q \in Procs
             PROVE  ChargePlace(q)'
  BY DEF ChargedPlaced
<1>1. ChargePlace(q) /\ UNCHANGED <<result, wins, invoices, payouts>>
  BY DEF ChargedPlaced, chargeVars
<1>2. pc'[p] = label /\ (q # p => pc'[q] = pc[q])
  BY GotoFacts DEF MoneyMove, Typed, RunTypeOK
<1>3. CASE q # p
  BY <1>1, <1>2, <1>3 DEF ChargePlace
<1>4. CASE q = p
  BY <1>1, <1>2, <1>4 DEF ChargePlace, MoneyMove, Ended, Charging, Paying
<1> QED
  BY <1>3, <1>4

(* An await that throws ends the execution or enters the catch block.      *)
LEMMA ThrowEnds ==
  ASSUME NEW p \in Procs, Throw(p)
  PROVE  \E label \in {"failing", "done"} : Goto(p, label)
BY DEF Throw, Continue

(* The steps that record a success, an invoice or a payout.                *)
LEMMA DispatchCharges ==
  ASSUME Typed, ChargedPlaced, ChargesBacked, NEW p \in Procs, Dispatch(p)
  PROVE  ChargedPlaced' /\ wins \subseteq wins' /\ UNCHANGED <<invoices, payouts>>
<1>1. CASE UNCHANGED <<result, wins>> /\ Throw(p)
  <2>1. \E label \in {"failing", "done"} : MoneyMove(p, label)
    BY <1>1, ThrowEnds DEF MoneyMove, Ended
  <2>2. UNCHANGED chargeVars
    BY <1>1 DEF Dispatch, chargeVars
  <2> QED
    BY <2>1, <2>2, MoneyMoves DEF PC, chargeVars
<1>2. ASSUME NEW success \in BOOLEAN, result' = [result EXCEPT ![p] = success],
             wins' = IF success THEN wins \cup {p} ELSE wins, Continue(p, "persist")
      PROVE  ChargedPlaced' /\ wins \subseteq wins' /\ UNCHANGED <<invoices, payouts>>
  <2>1. /\ pc[p] = "dispatch" /\ UNCHANGED <<invoices, payouts>>
        /\ pc'[p] = "persist"
        /\ \A q \in Procs : q # p => pc'[q] = pc[q]
    BY <1>2, GotoFacts DEF Dispatch, Continue, Typed, RunTypeOK, PC
  <2>2. ASSUME NEW q \in Procs
        PROVE  ChargePlace(q)'
    <3>1. ChargePlace(q)
      BY DEF ChargedPlaced
    <3>2. CASE q = p
      <4>1. result'[p] = success
        BY <1>2 DEF Typed, RunTypeOK
      <4> QED
        BY <1>2, <2>1, <3>1, <3>2, <4>1 DEF ChargePlace, Paying
    <3>3. CASE q # p
      <4>1. result'[q] = result[q] /\ (q \in wins' <=> q \in wins)
        BY <1>2, <3>3 DEF Typed, RunTypeOK
      <4> QED
        BY <2>1, <3>1, <3>3, <4>1 DEF ChargePlace, Paying
    <3> QED
      BY <3>2, <3>3
  <2> QED
    BY <1>2, <2>1, <2>2 DEF ChargedPlaced
<1> QED
  BY <1>1, <1>2 DEF Dispatch

(* An invoice is created for a success that has none yet.                  *)
LEMMA InvoiceCharges ==
  ASSUME Typed, ChargedPlaced, NEW p \in Procs, CreateInvoice(p)
  PROVE  /\ ChargedPlaced' /\ UNCHANGED <<wins, payouts>>
         /\ p \in wins /\ p \notin invoices /\ invoices' \in {invoices, invoices \cup {p}}
<1>1. /\ pc[p] = "invoice" /\ UNCHANGED <<result, wins, payouts>>
      /\ invoices' \in {invoices, invoices \cup {p}}
  BY DEF CreateInvoice
<1>2. PICK label \in {"payout", "failing", "done"} :
        Goto(p, label) /\ (label = "payout" => invoices' = invoices \cup {p})
  BY ThrowEnds DEF CreateInvoice, Continue
<1>3. pc'[p] = label /\ \A q \in Procs : q # p => pc'[q] = pc[q]
  BY <1>2, GotoFacts DEF Typed, RunTypeOK, PC
<1>4. ChargePlace(p)
  BY DEF ChargedPlaced
<1>5. p \in wins /\ p \notin invoices /\ p \notin payouts
  BY <1>1, <1>4 DEF ChargePlace, Paying
<1>6. ASSUME NEW q \in Procs
      PROVE  ChargePlace(q)'
  <2>1. CASE q = p
    BY <1>1, <1>2, <1>3, <1>4, <1>5, <2>1 DEF ChargePlace, Paying
  <2>2. CASE q # p
    <3>1. ChargePlace(q) /\ (q \in invoices' <=> q \in invoices)
      BY <1>1, <2>2 DEF ChargedPlaced
    <3> QED
      BY <1>1, <1>3, <2>2, <3>1 DEF ChargePlace
  <2> QED
    BY <2>1, <2>2
<1> QED
  BY <1>1, <1>5, <1>6 DEF ChargedPlaced

(* A payout is created for an invoice that has none yet.                   *)
LEMMA PayoutCharges ==
  ASSUME Typed, ChargedPlaced, NEW p \in Procs, CreatePayout(p)
  PROVE  /\ ChargedPlaced' /\ UNCHANGED <<wins, invoices>>
         /\ p \in invoices /\ p \notin payouts /\ payouts' \in {payouts, payouts \cup {p}}
<1>1. /\ pc[p] = "payout" /\ UNCHANGED <<result, wins, invoices>>
      /\ payouts' \in {payouts, payouts \cup {p}}
  BY DEF CreatePayout
<1>2. PICK label \in {"finish", "failing", "done"} : Goto(p, label)
  BY ThrowEnds DEF CreatePayout, Continue
<1>3. pc'[p] = label /\ \A q \in Procs : q # p => pc'[q] = pc[q]
  BY <1>2, GotoFacts DEF Typed, RunTypeOK, PC
<1>4. ChargePlace(p)
  BY DEF ChargedPlaced
<1>5. p \in invoices /\ p \notin payouts
  BY <1>1, <1>4 DEF ChargePlace, Paying
<1>6. ASSUME NEW q \in Procs
      PROVE  ChargePlace(q)'
  <2>1. CASE q = p
    BY <1>1, <1>2, <1>3, <1>4, <1>5, <2>1 DEF ChargePlace, Paying
  <2>2. CASE q # p
    <3>1. ChargePlace(q) /\ (q \in payouts' <=> q \in payouts)
      BY <1>1, <2>2 DEF ChargedPlaced
    <3> QED
      BY <1>1, <1>3, <2>2, <3>1 DEF ChargePlace
  <2> QED
    BY <2>1, <2>2
<1> QED
  BY <1>1, <1>5, <1>6 DEF ChargedPlaced

(* Every other step leaves results, invoices and payouts alone.            *)
Earning(p) == Dispatch(p) \/ CreateInvoice(p) \/ CreatePayout(p)

(* The other steps of an execution record no money.                        *)
LEMMA QuietStep ==
  ASSUME Typed, ChargedPlaced, NEW p \in Procs, Step(p), ~Earning(p)
  PROVE  UNCHANGED chargeVars /\ ChargedPlaced'
<1>1. UNCHANGED chargeVars
  BY DEF Step, Earning, LoadAgent, MarkRunning, PersistResult, ResultPersisted, PersistThrows,
     FinishQueued, chargeVars
<1>2. \E label \in PC : MoneyMove(p, label)
  <2>1. CASE Throw(p)
    BY <2>1, ThrowEnds DEF MoneyMove, Ended, PC
  <2>2. CASE LoadAgent(p) /\ ~Throw(p)
    BY <2>2 DEF LoadAgent, Continue, MoneyMove, Ended, Charging, Paying, PC
  <2>3. CASE MarkRunning(p) /\ ~Throw(p)
    BY <2>3 DEF MarkRunning, Continue, MoneyMove, Charging, Paying, PC
  <2>4. CASE PersistResult(p)
    BY <2>4 DEF PersistResult, Continue, MoneyMove, PC
  <2>5. CASE ResultPersisted(p)
    BY <2>5 DEF ResultPersisted, Continue, MoneyMove, Ended, Charges, PC
  <2>6. CASE FinishQueued(p) /\ ~Throw(p)
    BY <2>6 DEF FinishQueued, MoneyMove, Ended, PC
  <2> QED
    BY <2>1, <2>2, <2>3, <2>4, <2>5, <2>6 DEF Step, Earning, PersistThrows
<1> QED
  BY <1>1, <1>2, MoneyMoves

(* Neither do the handlers, nor a worker taking a job.                     *)
LEMMA QuietHandler ==
  ASSUME Typed, ChargedPlaced, NEW r \in Runs, Request(r) \/ Handle(r) \/ Take(r)
  PROVE  UNCHANGED chargeVars /\ ChargedPlaced'
<1>1. UNCHANGED chargeVars
  BY DEF Request, Reject, Execute, Enqueue, Handle, CheckCredits, InsufficientCredits, PayRun,
     DeductFails, CreateLog, AddJob, FinishSync, PersistFailure, ReplyFailure, Take, chargeVars
<1>2. \E p \in Procs, label \in PC : MoneyMove(p, label)
  <2>1. API(r) \in Procs
    BY ProcsFacts
  <2>2. CASE Request(r) \/ CheckCredits(r) \/ InsufficientCredits(r) \/ PayRun(r)
             \/ DeductFails(r) \/ CreateLog(r) \/ AddJob(r)
    <3>1. pc[API(r)] \notin Charging
      BY <2>2 DEF Request, Reject, Execute, Enqueue, CheckCredits, InsufficientCredits, PayRun,
         DeductFails, CreateLog, AddJob, Charging, Paying
    <3>2. \E label \in PC \ {"invoice", "payout"} : Goto(API(r), label)
      BY <2>2 DEF Request, Reject, Execute, Enqueue, CheckCredits, InsufficientCredits, PayRun,
         DeductFails, CreateLog, AddJob, Reply, PC
    <3> QED
      BY <2>1, <3>1, <3>2 DEF MoneyMove
  <2>3. CASE FinishSync(r) \/ PersistFailure(r) \/ ReplyFailure(r)
    BY <2>1, <2>3 DEF FinishSync, PersistFailure, ReplyFailure, Reply, Continue, MoneyMove,
       Ended, PC
  <2>4. CASE Take(r)
    <3>1. starts[r] + 1 \in 1 .. MaxExec
      BY <2>4 DEF Take, Typed, RunTypeOK, QueueCounters, MaxExec
    <3>2. <<r, starts[r] + 1>> \in Procs /\ pc[<<r, starts[r] + 1>>] = "idle"
      BY <3>1, ProcsFacts DEF Typed, RunTypeOK, QueueCounters
    <3> QED
      BY <2>4, <3>2 DEF Take, MoneyMove, Charging, Paying, PC
  <2> QED
    BY <2>2, <2>3, <2>4 DEF Handle
<1> QED
  BY <1>1, <1>2, MoneyMoves

(* Neither do reclaims, crashes, landing writes or the wallet's owner.     *)
LEMMA QuietElsewhere ==
  ASSUME Typed, ChargedPlaced, [Next]_vars, ~\E p \in Procs : Step(p),
         ~\E r \in Runs : Request(r) \/ Handle(r) \/ Take(r)
  PROVE  UNCHANGED chargeVars /\ ChargedPlaced'
<1>1. UNCHANGED chargeVars
  BY DEF Next, Stall, Crash, Land, Lose, DeleteAgent, GrantCredits, chargeVars, vars
<1>2. CASE pc' = pc
  BY <1>1, <1>2 DEF ChargedPlaced, ChargePlace, chargeVars
<1>3. CASE pc' # pc
  <2>1. (\E p \in Procs : Crash(p)) \/ \E w \in writes : Lose(w)
    BY <1>3 DEF Next, Stall, Land, DeleteAgent, GrantCredits, vars
  <2>2. CASE \E p \in Procs : Crash(p)
    <3>1. \E p \in Procs : MoneyMove(p, "done")
      BY <2>2 DEF Crash, Continue, MoneyMove, Ended
    <3> QED
      BY <1>1, <3>1, MoneyMoves DEF PC
  <2>3. CASE \E w \in writes : Lose(w)
    <3>1. PICK w \in writes : Throw(w.proc) /\ w.proc \in Procs
      BY <1>3, <2>3 DEF Lose, Typed, RunTypeOK, Write
    <3>2. \E label \in {"failing", "done"} : MoneyMove(w.proc, label)
      BY <3>1, ThrowEnds DEF MoneyMove, Ended
    <3> QED
      BY <1>1, <3>1, <3>2, MoneyMoves DEF PC
  <2> QED
    BY <2>1, <2>2, <2>3
<1> QED
  BY <1>2, <1>3

(* So only the earning steps change what is charged.                       *)
LEMMA Quiet ==
  ASSUME Typed, ChargedPlaced, [Next]_vars, ~\E p \in Procs : Earning(p)
  PROVE  UNCHANGED chargeVars /\ ChargedPlaced'
BY QuietStep, QuietHandler, QuietElsewhere

-----------------------------------------------------------------------------
(* What is invoiced, paid out or logged as a success is a success of that  *)
(* run, and a handler wins only for a synchronous run.                     *)
Backed ==
  /\ ChargedPlaced
  /\ \A w \in writes : w.val = "COMPLETED" => w.proc \in wins
  /\ ChargesBacked
  /\ \A p \in wins : p[2] = 0 => mode[p[1]] = "sync"

(* Nothing is charged before any request.                                  *)
LEMMA BackedInit == Init => Backed
BY DEF Init, Backed, ChargedPlaced, ChargePlace, ChargesBacked

(* Each step keeps payouts within invoices and invoices within successes.  *)
LEMMA MoneyStep ==
  ASSUME Typed, Backed, [Next]_vars
  PROVE  /\ ChargedPlaced' /\ wins \subseteq wins'
         /\ payouts' \subseteq invoices' /\ invoices' \subseteq wins'
<1>0. ChargedPlaced /\ payouts \subseteq invoices /\ invoices \subseteq wins
  BY DEF Backed, ChargesBacked
<1>1. ASSUME NEW p \in Procs, Dispatch(p)
      PROVE  /\ ChargedPlaced' /\ wins \subseteq wins'
             /\ payouts' \subseteq invoices' /\ invoices' \subseteq wins'
  BY <1>0, <1>1, DispatchCharges DEF Backed
<1>2. ASSUME NEW p \in Procs, CreateInvoice(p)
      PROVE  /\ ChargedPlaced' /\ wins \subseteq wins'
             /\ payouts' \subseteq invoices' /\ invoices' \subseteq wins'
  BY <1>0, <1>2, InvoiceCharges
<1>3. ASSUME NEW p \in Procs, CreatePayout(p)
      PROVE  /\ ChargedPlaced' /\ wins \subseteq wins'
             /\ payouts' \subseteq invoices' /\ invoices' \subseteq wins'
  BY <1>0, <1>3, PayoutCharges
<1>4. CASE ~\E p \in Procs : Earning(p)
  BY <1>0, <1>4, Quiet DEF chargeVars
<1> QED
  BY <1>1, <1>2, <1>3, <1>4 DEF Earning

(* A step by which an execution succeeds, and the modes it leaves alone.   *)
LEMMA WinSource ==
  ASSUME Typed, Backed, [Next]_vars, NEW p \in wins', p[2] = 0
  PROVE  mode'[p[1]] = "sync"
<1>1. CASE p \notin wins
  <2>1. PICK q \in Procs : Dispatch(q)
    BY <1>1, Quiet, InvoiceCharges, PayoutCharges DEF Backed, Earning, chargeVars
  <2>2. p = q /\ pc[p] = "dispatch" /\ mode' = mode
    BY <1>1, <2>1 DEF Dispatch
  <2>3. p = API(p[1]) /\ p[1] \in Runs
    BY <2>1, <2>2, HandlerProc
  <2> QED
    BY <2>2, <2>3 DEF Typed, RunTypeOK, HandlerPlace
<1>2. CASE p \in wins
  <2>1. p \in Procs /\ p = API(p[1]) /\ p[1] \in Runs
    BY <1>2, HandlerProc DEF Typed, RunTypeOK
  <2>2. pc[p] # "idle" /\ mode[p[1]] = "sync"
    BY <1>2, <2>1 DEF Backed, ChargedPlaced, ChargePlace, Paying
  <2>3. CASE mode' = mode
    BY <2>2, <2>3
  <2>4. CASE mode' # mode
    <3>1. PICK r \in Runs : Request(r)
      BY <2>4 DEF vars, Next, Handle, CheckCredits, InsufficientCredits, PayRun,
         DeductFails, CreateLog, AddJob, FinishSync, PersistFailure, ReplyFailure, Take, Stall,
         Step, LoadAgent, MarkRunning, Dispatch, PersistResult, ResultPersisted, PersistThrows,
         CreateInvoice, CreatePayout, FinishQueued, Crash, Land, Lose, DeleteAgent,
         GrantCredits
    <3>2. pc[API(r)] = "idle" /\ \E m \in {"sync", "queued"} : mode' = [mode EXCEPT ![r] = m]
      BY <3>1 DEF Request, Reject, Execute, Enqueue
    <3>3. r # p[1]
      BY <2>1, <2>2, <3>2
    <3> QED
      BY <2>1, <2>2, <3>2, <3>3 DEF Typed, RunTypeOK
  <2> QED
    BY <2>3, <2>4
<1> QED
  BY <1>1, <1>2

(* And the logs and pending writes within the successes.                   *)
LEMMA BackedStep == Typed /\ Backed /\ [Next]_vars => Backed'
<1> SUFFICES ASSUME Typed, Backed, [Next]_vars
             PROVE  Backed'
  OBVIOUS
<1>1. /\ ChargedPlaced' /\ wins \subseteq wins'
      /\ payouts' \subseteq invoices' /\ invoices' \subseteq wins'
  BY MoneyStep
<1>2. ASSUME NEW w \in writes', w.val = "COMPLETED"
      PROVE  w.proc \in wins'
  <2>1. CASE w \in writes
    BY <1>1, <1>2, <2>1 DEF Backed
  <2>2. CASE w \notin writes
    <3>1. w.proc \in Procs /\ result[w.proc]
      BY <1>2, <2>2, WriteSource
    <3> QED
      BY <1>1, <3>1 DEF Backed, ChargedPlaced, ChargePlace
  <2> QED
    BY <2>1, <2>2
<1>3. ASSUME NEW r \in Runs, log'[r] = "COMPLETED"
      PROVE  \E p \in wins' : p[1] = r
  <2>1. CASE log'[r] = log[r]
    BY <1>1, <1>3, <2>1 DEF Backed, ChargesBacked
  <2>2. CASE log'[r] # log[r]
    <3>1. PICK w \in writes : w.proc[1] = r /\ w.val = "COMPLETED"
      BY <1>3, <2>2, LogSource
    <3> QED
      BY <1>1, <3>1 DEF Backed
  <2> QED
    BY <2>1, <2>2
<1>4. \A p \in wins' : p[2] = 0 => mode'[p[1]] = "sync"
  BY WinSource
<1> QED
  BY <1>1, <1>2, <1>3, <1>4 DEF Backed, ChargesBacked

(* So in every reachable state charges are backed.                         *)
LEMMA BackedInvariant == Spec => [](Typed /\ Backed)
<1>1. Init => Typed /\ Backed
  BY TypedInit, BackedInit
<1>2. (Typed /\ Backed) /\ [Next]_vars => (Typed /\ Backed)'
  BY TypedInductive, BackedStep
<1> QED
  BY <1>1, <1>2, PTL DEF Spec

(* A creator is paid only against an invoice, a consumer invoiced only for *)
(* a success, and a log is COMPLETED only if an execution succeeded.       *)
THEOREM ChargesAreBacked == Spec => []ChargesBacked
<1>1. Backed => ChargesBacked
  BY DEF Backed
<1> QED
  BY <1>1, BackedInvariant, PTL

-----------------------------------------------------------------------------
(* Counting: the executions of a run differ in their number.               *)
LEMMA NumberedApart ==
  ASSUME NEW r \in Runs, NEW S \in SUBSET Procs, NEW a \in Nat, NEW b \in Nat,
         \A p \in S : p[1] = r /\ p[2] \in a .. b
  PROVE  /\ IsFiniteSet(S)
         /\ Cardinality(S) \in Nat
         /\ a <= b => Cardinality(S) <= b - a + 1
         /\ a > b => Cardinality(S) = 0
<1> DEFINE f == [p \in S |-> p[2]]
<1>1. f \in Injection(S, a .. b)
  <2>1. f \in [S -> a .. b]
    OBVIOUS
  <2>2. ASSUME NEW p \in S, NEW q \in S, p[2] = q[2]
        PROVE  p = q
    BY <2>2 DEF Procs
  <2> QED
    BY <2>1, <2>2 DEF Injection, IsInjective
<1>2. IsFiniteSet(a .. b) /\ Cardinality(a .. b) = IF a > b THEN 0 ELSE b - a + 1
  BY FS_Interval
<1> HIDE DEF f
<1>3. IsFiniteSet(S) /\ Cardinality(S) <= Cardinality(a .. b)
  BY <1>1, <1>2, FS_Injection
<1>4. Cardinality(S) \in Nat
  BY <1>3, FS_CardinalityType
<1> QED
  BY <1>2, <1>3, <1>4

(* The executions of a job are counted by its attempts and stalls.         *)
LEMMA FewExecutions ==
  ASSUME Typed, Backed, NEW r \in Runs
  PROVE  /\ starts[r] <= attempts[r] + stalls[r] + 1
         /\ starts[r] <= MaxExec
         /\ Cardinality(InvoicesOf(r)) <= 1 + attempts[r] + stalls[r]
<1>1. /\ starts[r] \in 0 .. MaxExec /\ starts[r] <= attempts[r] + stalls[r] + 1
      /\ attempts[r] \in Nat /\ stalls[r] \in Nat /\ starts[r] \in Nat
  BY ProcsFacts DEF Typed, RunTypeOK, QueueCounters
<1>2. /\ InvoicesOf(r) \in SUBSET Procs
      /\ \A p \in InvoicesOf(r) : p \in wins /\ p[1] = r /\ pc[p] # "idle"
  BY DEF InvoicesOf, Typed, RunTypeOK, Backed, ChargesBacked, ChargedPlaced, ChargePlace, Paying
<1>3. CASE mode[r] = "queued"
  <2>1. \A p \in InvoicesOf(r) : p[1] = r /\ p[2] \in 1 .. starts[r]
    BY <1>2, <1>3, WorkerFacts DEF Backed
  <2>2. /\ Cardinality(InvoicesOf(r)) \in Nat
        /\ 1 <= starts[r] => Cardinality(InvoicesOf(r)) <= starts[r] - 1 + 1
        /\ 1 > starts[r] => Cardinality(InvoicesOf(r)) = 0
    BY <1>1, <1>2, <2>1, NumberedApart
  <2> QED
    BY <1>1, <2>2
<1>4. CASE mode[r] # "queued"
  <2>1. \A p \in InvoicesOf(r) : p[1] = r /\ p[2] \in 0 .. 0
    BY <1>2, <1>4, WorkerFacts
  <2>2. Cardinality(InvoicesOf(r)) <= 0 - 0 + 1 /\ Cardinality(InvoicesOf(r)) \in Nat
    <3>1. 0 \in Nat /\ 0 <= 0
      OBVIOUS
    <3> QED
      BY <1>2, <2>1, <3>1, NumberedApart
  <2> QED
    BY <1>1, <2>2
<1> QED
  BY <1>1, <1>3, <1>4

(* Retries and reclaims together never run an agent, or invoice a run,     *)
(* more often than the options of the queue allow.                         *)
THEOREM ExecutionsAreBounded == Spec => []ExecutionsBounded
<1>1. Typed /\ Backed => ExecutionsBounded
  BY FewExecutions DEF ExecutionsBounded
<1> QED
  BY <1>1, BackedInvariant, PTL

-----------------------------------------------------------------------------
(* The pipeline keeps the promises of RunLedger.                           *)
LEMMA CountFinite ==
  ASSUME NEW S \in SUBSET Procs, NEW r \in Runs
  PROVE  /\ IsFiniteSet({p \in S : p[1] = r})
         /\ Count(S)[r] = Cardinality({p \in S : p[1] = r})
         /\ Count(S)[r] \in Nat
<1>1. {p \in S : p[1] = r} \in SUBSET Procs
  OBVIOUS
<1>2. \A p \in {q \in S : q[1] = r} : p[1] = r /\ p[2] \in 0 .. MaxExec
  BY ProcRun
<1>3. MaxExec \in Nat /\ 0 \in Nat
  BY ProcsFacts
<1>4. /\ IsFiniteSet({p \in S : p[1] = r})
      /\ Cardinality({p \in S : p[1] = r}) \in Nat
  BY <1>1, <1>2, <1>3, NumberedApart
<1> QED
  BY <1>4 DEF Count

(* One more execution is one more for its run.                             *)
LEMMA CountAdd ==
  ASSUME NEW S \in SUBSET Procs, NEW p \in Procs, p \notin S
  PROVE  Count(S \cup {p}) = [Count(S) EXCEPT ![p[1]] = @ + 1]
<1>1. p[1] \in Runs
  BY ProcRun
<1>2. ASSUME NEW r \in Runs
      PROVE  Count(S \cup {p})[r] = IF r = p[1] THEN Count(S)[r] + 1 ELSE Count(S)[r]
  <2>1. CASE r = p[1]
    <3>1. {q \in S \cup {p} : q[1] = r} = {q \in S : q[1] = r} \cup {p}
      BY <2>1
    <3>2. p \notin {q \in S : q[1] = r} /\ IsFiniteSet({q \in S : q[1] = r})
      BY CountFinite
    <3>3. Cardinality({q \in S : q[1] = r} \cup {p}) = Cardinality({q \in S : q[1] = r}) + 1
      BY <3>2, FS_AddElement
    <3> QED
      BY <2>1, <3>1, <3>3 DEF Count
  <2>2. CASE r # p[1]
    <3>1. {q \in S \cup {p} : q[1] = r} = {q \in S : q[1] = r}
      BY <2>2
    <3> QED
      BY <2>2, <3>1 DEF Count
  <2> QED
    BY <2>1, <2>2
<1> QED
  BY <1>1, <1>2 DEF Count

(* A missing execution is one less for its run.                            *)
LEMMA CountLess ==
  ASSUME NEW S \in SUBSET Procs, NEW T \in SUBSET S, NEW p \in S \ T
  PROVE  Count(T)[p[1]] < Count(S)[p[1]]
<1> DEFINE InS == {q \in S : q[1] = p[1]}
           InT == {q \in T : q[1] = p[1]}
<1>1. p[1] \in Runs /\ T \in SUBSET Procs
  BY ProcRun
<1>2. /\ IsFiniteSet(InS) /\ Count(S)[p[1]] = Cardinality(InS) /\ Count(S)[p[1]] \in Nat
      /\ Count(T)[p[1]] = Cardinality(InT) /\ Count(T)[p[1]] \in Nat
  BY <1>1, CountFinite
<1>3. InT \in SUBSET InS /\ InT # InS
  OBVIOUS
<1> HIDE DEF InS, InT
<1>4. Cardinality(InT) <= Cardinality(InS) /\ Cardinality(InT) # Cardinality(InS)
  BY <1>2, <1>3, FS_Subset
<1> QED
  BY <1>2, <1>4

(* Each step is a step of the money contract or leaves it unchanged.       *)
LEMMA LedgerStep ==
  ASSUME PipelineInv, Backed, [Next]_vars
  PROVE  [Ledger!LedgerNext]_(Ledger!ledger)
<1>0. /\ Typed /\ ChargedPlaced /\ \A r \in Runs : Charged(r)
      /\ payouts \subseteq invoices /\ invoices \subseteq wins
      /\ wins \in SUBSET Procs /\ invoices \in SUBSET Procs /\ payouts \in SUBSET Procs
  BY DEF PipelineInv, ChargesPlaced, Backed, ChargesBacked, Typed, RunTypeOK
<1>1. ASSUME NEW r \in Runs, PayRun(r)
      PROVE  Ledger!Charge(r)
  <2>1. pc[API(r)] = "deducting" /\ mode[r] # "queued"
    BY <1>0, <1>1 DEF PayRun, Typed, HandlerPlace
  <2>2. paid[r] = 0 /\ CostOf[r] \in Nat /\ paid \in [Runs -> Nat]
    BY <1>0, <2>1, ProcsFacts DEF Charged, Typed, RunTypeOK
  <2>3. ASSUME NEW p \in wins, p[1] = r
        PROVE  FALSE
    <3>1. p \in Procs /\ pc[p] \notin {"idle", "deducting"}
      BY <1>0, <2>3 DEF ChargedPlaced, ChargePlace, Paying
    <3>2. p[2] # 0
      BY <2>1, <2>3, <3>1, HandlerProc
    <3> QED
      BY <1>0, <2>1, <2>3, <3>1, <3>2, WorkerFacts
  <2>4. {p \in wins : p[1] = r} = {}
    BY <2>3
  <2>5. Count(wins)[r] = 0
    BY <2>4, FS_EmptySet DEF Count
  <2>6. paid' = [paid EXCEPT ![r] = CostOf[r]]
    <3>1. paid[r] + CostOf[r] = CostOf[r]
      BY <2>2
    <3>2. paid' = [paid EXCEPT ![r] = paid[r] + CostOf[r]]
      BY <1>1 DEF PayRun
    <3> QED
      BY <3>1, <3>2
  <2>7. UNCHANGED <<wins, invoices, payouts>>
    BY <1>1 DEF PayRun, chargeVars
  <2> QED
    BY <2>2, <2>5, <2>6, <2>7 DEF Ledger!Charge, Count
<1>2. ASSUME NEW p \in Procs, Dispatch(p)
      PROVE  UNCHANGED Ledger!ledger \/ Ledger!Succeed(p[1])
  <2>1. paid' = paid /\ UNCHANGED <<invoices, payouts>> /\ wins' \in {wins, wins \cup {p}}
    BY <1>2 DEF Dispatch
  <2>2. p \notin wins
    BY <1>0, <1>2 DEF Dispatch, ChargedPlaced, ChargePlace, Paying
  <2>3. CASE wins' = wins
    BY <2>1, <2>3 DEF Ledger!ledger, Count
  <2>4. CASE wins' = wins \cup {p}
    <3>1. Count(wins') = [Count(wins) EXCEPT ![p[1]] = @ + 1]
      BY <1>0, <2>2, <2>4, CountAdd
    <3> QED
      BY <2>1, <3>1 DEF Ledger!Succeed, Count
  <2> QED
    BY <2>1, <2>3, <2>4
<1>3. ASSUME NEW p \in Procs, CreateInvoice(p)
      PROVE  UNCHANGED Ledger!ledger \/ Ledger!Bill(p[1])
  <2>1. /\ paid' = paid /\ UNCHANGED <<wins, payouts>>
        /\ p \in wins /\ p \notin invoices /\ invoices' \in {invoices, invoices \cup {p}}
    BY <1>0, <1>3, InvoiceCharges DEF CreateInvoice
  <2>2. CASE invoices' = invoices
    BY <2>1, <2>2 DEF Ledger!ledger, Count
  <2>3. CASE invoices' = invoices \cup {p}
    <3>1. Count(invoices') = [Count(invoices) EXCEPT ![p[1]] = @ + 1]
      BY <1>0, <2>1, <2>3, CountAdd
    <3>2. Count(invoices)[p[1]] < Count(wins)[p[1]]
      BY <1>0, <2>1, CountLess
    <3> QED
      BY <2>1, <3>1, <3>2 DEF Ledger!Bill, Count
  <2> QED
    BY <2>1, <2>2, <2>3
<1>4. ASSUME NEW p \in Procs, CreatePayout(p)
      PROVE  UNCHANGED Ledger!ledger \/ Ledger!Settle(p[1])
  <2>1. /\ paid' = paid /\ UNCHANGED <<wins, invoices>>
        /\ p \in invoices /\ p \notin payouts /\ payouts' \in {payouts, payouts \cup {p}}
    BY <1>0, <1>4, PayoutCharges DEF CreatePayout
  <2>2. CASE payouts' = payouts
    BY <2>1, <2>2 DEF Ledger!ledger, Count
  <2>3. CASE payouts' = payouts \cup {p}
    <3>1. Count(payouts') = [Count(payouts) EXCEPT ![p[1]] = @ + 1]
      BY <1>0, <2>1, <2>3, CountAdd
    <3>2. Count(payouts)[p[1]] < Count(invoices)[p[1]]
      BY <1>0, <2>1, CountLess
    <3> QED
      BY <2>1, <3>1, <3>2 DEF Ledger!Settle, Count
  <2> QED
    BY <2>1, <2>2, <2>3
<1>5. CASE /\ ~\E p \in Procs : Earning(p)
           /\ ~\E r \in Runs : PayRun(r)
  <2>1. UNCHANGED <<wins, invoices, payouts>>
    BY <1>0, <1>5, Quiet DEF chargeVars
  <2>2. paid' = paid
    BY <1>5 DEF vars, Next, Request, Reject, Execute, Enqueue, Handle, CheckCredits,
       InsufficientCredits, DeductFails, CreateLog, AddJob, FinishSync, PersistFailure,
       ReplyFailure, Take, Stall, Step, Earning, LoadAgent, MarkRunning, PersistResult,
       ResultPersisted, PersistThrows, FinishQueued, Crash, Land, Lose, DeleteAgent,
       GrantCredits
  <2> QED
    BY <2>1, <2>2 DEF Ledger!ledger, Count
<1>6. \A p \in Procs : p[1] \in Runs
  BY ProcRun
<1> QED
  BY <1>1, <1>2, <1>3, <1>4, <1>5, <1>6 DEF Earning, Ledger!LedgerNext

(* RuntimeEngine, with its retries and reclaimed jobs, implements the      *)
(* money contract: credits taken at most once and before the run succeeds, *)
(* each success invoiced at most once, each invoice paid out at most once. *)
THEOREM PipelineImplementsLedger == Spec => ImplementsLedger
<1>1. Init => Ledger!LedgerInit
  <2> SUFFICES ASSUME Init
               PROVE  Ledger!LedgerInit
    OBVIOUS
  <2>1. paid = [r \in Runs |-> 0] /\ wins = {} /\ invoices = {} /\ payouts = {}
    BY DEF Init
  <2>2. Count({}) = [r \in Runs |-> 0]
    BY FS_EmptySet DEF Count
  <2> QED
    BY <2>1, <2>2 DEF Ledger!LedgerInit
<1>2. PipelineInv /\ (Typed /\ Backed) /\ [Next]_vars => [Ledger!LedgerNext]_(Ledger!ledger)
  BY LedgerStep
<1> QED
  BY <1>1, <1>2, PipelineInvariant, BackedInvariant, PTL
  DEF Spec, ImplementsLedger, Ledger!LedgerSpec

-----------------------------------------------------------------------------
(* What is settled once a run is answered or its job completed.             *)

(* What a step of another run, or of the wallet, leaves to a handler.      *)
Frozen(r) ==
  /\ mode'[r] = mode[r] /\ pc'[API(r)] = pc[API(r)] /\ reply'[r] = reply[r]
  /\ result'[API(r)] = result[API(r)]
  /\ log'[r] = log[r] /\ agentExists' = agentExists
  /\ \A w \in Write : w.proc[1] = r => (w \in writes' <=> w \in writes)
  /\ \A t \in Tally : t.proc = API(r) => (t \in tallies' <=> t \in tallies)
  /\ API(r) \in invoices' <=> API(r) \in invoices
  /\ API(r) \in payouts' <=> API(r) \in payouts

(* The sets that a handler's place speaks of, without comprehensions.      *)
LEMMA TalliesFacts ==
  ASSUME RunTypeOK, NEW p \in Procs
  PROVE  /\ TalliesOf(p) = {} <=> \A t \in Tally : t.proc = p => t \notin tallies
         /\ TalliesOf(p) = {ResultTally(p)} <=>
              \A t \in Tally : t.proc = p => (t \in tallies <=> t = ResultTally(p))
         /\ ResultTally(p) \in Tally /\ ResultTally(p).proc = p
         /\ \A column \in {"log", "stats"} :
              ResultWrite(p, column) \in Write /\ ResultWrite(p, column).proc = p
         /\ ResultWrite(p, "log") # ResultWrite(p, "stats")
<1>1. result[p] \in BOOLEAN /\ tallies \subseteq Tally
  BY DEF RunTypeOK
<1>2. ResultTally(p) \in Tally /\ ResultTally(p).proc = p
  BY <1>1 DEF ResultTally, Tally
<1>3. \A column \in {"log", "stats"} :
        ResultWrite(p, column) \in Write /\ ResultWrite(p, column).proc = p
              /\ ResultWrite(p, column).column = column
  BY <1>1 DEF ResultWrite, Write, Outcome
<1>4. TalliesOf(p) = {} <=> \A t \in Tally : t.proc = p => t \notin tallies
  BY <1>1 DEF TalliesOf
<1>5. TalliesOf(p) = {ResultTally(p)} <=>
        \A t \in Tally : t.proc = p => (t \in tallies <=> t = ResultTally(p))
  <2>1. ASSUME TalliesOf(p) = {ResultTally(p)}, NEW t \in Tally, t.proc = p
        PROVE  t \in tallies <=> t = ResultTally(p)
    <3>1. t \in TalliesOf(p) <=> t \in tallies
      BY <2>1 DEF TalliesOf
    <3> QED
      BY <2>1, <3>1
  <2>2. ASSUME \A t \in Tally : t.proc = p => (t \in tallies <=> t = ResultTally(p))
        PROVE  TalliesOf(p) = {ResultTally(p)}
    <3>1. \A t : t \in TalliesOf(p) <=> t \in tallies /\ t \in Tally /\ t.proc = p
      BY <1>1 DEF TalliesOf
    <3>2. \A t : t \in TalliesOf(p) <=> t = ResultTally(p)
      BY <1>2, <2>2, <3>1
    <3> QED
      BY <3>2
  <2> QED
    BY <2>1, <2>2
<1> QED
  BY <1>2, <1>3, <1>4, <1>5

(* A handler that nothing touches stays in its place.                      *)
LEMMA FrozenPlace ==
  ASSUME RunTypeOK, RunTypeOK', NEW r \in Runs, SyncPlace(r), Frozen(r)
  PROVE  SyncPlace(r)'
<1> DEFINE p == API(r)
<1>1. p \in Procs /\ p[1] = r
  BY ProcsFacts
<1>2. /\ Outcome(p)' = Outcome(p) /\ ResultTally(p)' = ResultTally(p)
      /\ \A column : ResultWrite(p, column)' = ResultWrite(p, column)
      /\ Billed(p)' = Billed(p)
  BY DEF Frozen, Outcome, ResultTally, ResultWrite, Billed
<1>3. writes \subseteq Write /\ writes' \subseteq Write
  BY DEF RunTypeOK
<1>4. /\ NoWrites(p)' <=> NoWrites(p)
      /\ \A w \in writes' : w.proc[1] = r => w \in writes
      /\ \A w \in writes' : w.proc = p => w \in writes
      /\ \A column \in {"log", "stats"} :
           ResultWrite(p, column) \in writes' <=> ResultWrite(p, column) \in writes
  BY <1>1, <1>3, TalliesFacts DEF Frozen, NoWrites
<1>5. TalliesOf(p)' = TalliesOf(p)
  <2>1. \A t : t \in TalliesOf(p)' <=> t \in TalliesOf(p)
    <3>1. \A t : t \in TalliesOf(p) <=> t \in tallies /\ t \in Tally /\ t.proc = p
      BY DEF TalliesOf, RunTypeOK
    <3>2. \A t : t \in TalliesOf(p)' <=> t \in tallies' /\ t \in Tally /\ t.proc = p
      BY DEF TalliesOf, RunTypeOK
    <3> QED
      BY <3>1, <3>2 DEF Frozen
  <2> QED
    BY <2>1
<1>6. Landing(p)' <=> Landing(p)
  BY <1>1, <1>2, <1>3, <1>4, <1>5 DEF Landing, Frozen
<1> QED
  BY <1>1, <1>2, <1>4, <1>5, <1>6 DEF SyncPlace, Frozen

(* In a run that is not queued only the handler is at work.                *)
LEMMA SyncAlone ==
  ASSUME Typed, NEW r \in Runs, mode[r] # "queued"
  PROVE  /\ job[r] = "none" /\ pc[API(r)] \notin {"load", "add"}
         /\ mode[r] = "none" <=> pc[API(r)] = "idle"
         /\ \A p \in Procs : p[1] = r /\ pc[p] # "idle" => p = API(r)
<1>1. /\ job[r] = "none" /\ pc[API(r)] \notin {"load", "add"}
      /\ mode[r] = "none" <=> pc[API(r)] = "idle"
  BY DEF Typed, RunTypeOK, HandlerPlace
<1>2. ASSUME NEW p \in Procs, p[1] = r, pc[p] # "idle"
      PROVE  p = API(r)
  BY <1>2, WorkerFacts, HandlerProc
<1> QED
  BY <1>1, <1>2

(* A step of a process of another run touches nothing of the handler.      *)
LEMMA ElsewhereFrozen ==
  ASSUME Typed, NEW r \in Runs, NEW p \in Procs, p[1] # r, Step(p)
  PROVE  Frozen(r)
<1>1. /\ API(r) \in Procs /\ API(r) # p /\ API(r)[1] = r
  BY ProcsFacts
<1>2. pc'[API(r)] = pc[API(r)]
  <2>1. PICK label \in WorkerPC \cup {"failing"} : Goto(p, label)
    BY StepLabel
  <2>2. label \in PC
    BY DEF PC, WorkerPC
  <2> QED
    BY <1>1, <2>1, <2>2, GotoFacts DEF Typed, RunTypeOK
<1>3. /\ UNCHANGED <<mode, reply, tallies, agentExists>>
      /\ log' = log \/ log' = [log EXCEPT ![p[1]] = "RUNNING"]
      /\ writes' = writes \/ \E val \in LogStatus : Send(p, val, "persistResult")
      /\ result' = result \/ \E s \in BOOLEAN : result' = [result EXCEPT ![p] = s]
      /\ invoices' = invoices \/ invoices' = invoices \cup {p}
      /\ payouts' = payouts \/ payouts' = payouts \cup {p}
  <2> USE DEF logVars, chargeVars
  <2>1. CASE LoadAgent(p) \/ MarkRunning(p)
    BY <2>1 DEF LoadAgent, MarkRunning
  <2>2. CASE Dispatch(p)
    BY <2>2 DEF Dispatch
  <2>3. CASE PersistResult(p)
    BY <2>3 DEF PersistResult, LogStatus
  <2>4. CASE ResultPersisted(p) \/ PersistThrows(p) \/ FinishQueued(p)
    BY <2>4 DEF ResultPersisted, PersistThrows, FinishQueued
  <2>5. CASE CreateInvoice(p) \/ CreatePayout(p)
    BY <2>5 DEF CreateInvoice, CreatePayout
  <2> QED
    BY <2>1, <2>2, <2>3, <2>4, <2>5 DEF Step
<1>4. log'[r] = log[r] /\ result'[API(r)] = result[API(r)]
  BY <1>1, <1>3 DEF Typed, RunTypeOK
<1>5. \A w \in Write : w.proc[1] = r => (w \in writes' <=> w \in writes)
  BY <1>3 DEF Send, Write
<1> QED
  BY <1>1, <1>2, <1>3, <1>4, <1>5 DEF Frozen

(* Nor does a request of another run, ...                                  *)
LEMMA HandlerFrozen ==
  ASSUME Typed, NEW r \in Runs, NEW q \in Runs, q # r, Request(q) \/ Handle(q)
  PROVE  Frozen(r)
<1>1. API(r) \in Procs /\ API(q) \in Procs /\ API(r) # API(q) /\ API(q)[1] = q
  BY ProcsFacts
<1> USE DEF logVars, chargeVars
<1>2. CASE Request(q)
  <2>1. \E label \in PC : Goto(API(q), label)
    BY <1>2 DEF Request, Reject, Execute, Enqueue, Reply, PC
  <2>2. pc'[API(r)] = pc[API(r)]
    BY <1>1, <2>1, GotoFacts DEF Typed, RunTypeOK
  <2>3. mode'[r] = mode[r] /\ reply'[r] = reply[r]
    BY <1>2 DEF Request, Reject, Execute, Enqueue, Reply, Typed, RunTypeOK
  <2>4. UNCHANGED <<logVars, chargeVars, agentExists>>
    BY <1>2 DEF Request, Reject, Execute, Enqueue
  <2> QED
    BY <2>2, <2>3, <2>4 DEF Frozen
<1>3. CASE Handle(q)
  <2>1. \E label \in PC : Goto(API(q), label)
    BY <1>3 DEF Handle, CheckCredits, InsufficientCredits, PayRun, DeductFails, CreateLog,
       AddJob, FinishSync, PersistFailure, ReplyFailure, Continue, Reply, PC
  <2>2. pc'[API(r)] = pc[API(r)]
    BY <1>1, <2>1, GotoFacts DEF Typed, RunTypeOK
  <2>3. mode' = mode /\ reply'[r] = reply[r]
    BY <1>3 DEF Handle, CheckCredits, InsufficientCredits, PayRun, DeductFails, CreateLog,
       AddJob, FinishSync, PersistFailure, ReplyFailure, Reply, Typed, RunTypeOK
  <2>4. /\ UNCHANGED <<tallies, chargeVars, agentExists>>
        /\ log' = log \/ log' = [log EXCEPT ![q] = "PENDING"]
        /\ writes' = writes \/ Send(API(q), "FAILED", "persistFailure")
    BY <1>3 DEF Handle, CheckCredits, InsufficientCredits, PayRun, DeductFails, CreateLog,
       AddJob, FinishSync, PersistFailure, ReplyFailure, Reply
  <2>5. log'[r] = log[r]
    BY <2>4 DEF Typed, RunTypeOK
  <2>6. \A w \in Write : w.proc[1] = r => (w \in writes' <=> w \in writes)
    BY <1>1, <2>4 DEF Send, Write
  <2> QED
    BY <2>2, <2>3, <2>4, <2>5, <2>6 DEF Frozen
<1> QED
  BY <1>2, <1>3

(* ... a worker that takes a job, or a process that dies.                  *)
LEMMA OutsideFrozen ==
  ASSUME Typed, NEW r \in Runs,
         \/ \E q \in Runs : Take(q) \/ Stall(q)
         \/ \E p \in Procs : p # API(r) /\ Crash(p)
         \/ GrantCredits \/ UNCHANGED vars
  PROVE  Frozen(r)
<1> USE DEF logVars, chargeVars
<1>1. API(r) \in Procs /\ API(r)[1] = r
  BY ProcsFacts
<1>2. ASSUME NEW q \in Runs, Take(q)
      PROVE  Frozen(r)
  <2>1. starts[q] + 1 \in 1 .. MaxExec /\ Goto(<<q, starts[q] + 1>>, "load")
    <3>1. RunTypeOK /\ QueueCounters(q) /\ job[q] = "waiting"
      BY <1>2 DEF Take, Typed
    <3>2. starts[q] + 1 \in 1 .. MaxExec
      BY <3>1 DEF RunTypeOK, QueueCounters, MaxExec
    <3> QED
      BY <1>2, <3>2 DEF Take
  <2>2. <<q, starts[q] + 1>> \in Procs /\ API(r) # <<q, starts[q] + 1>>
    BY <2>1, ProcsFacts
  <2>3. pc'[API(r)] = pc[API(r)]
    BY <1>1, <2>1, <2>2, GotoFacts DEF Typed, RunTypeOK, PC
  <2> QED
    BY <1>2, <2>3 DEF Take, Frozen
<1>3. ASSUME NEW p \in Procs, p # API(r), Crash(p)
      PROVE  Frozen(r)
  <2>1. Goto(p, "done")
    BY <1>3 DEF Crash, Continue
  <2>2. pc'[API(r)] = pc[API(r)]
    BY <1>1, <1>3, <2>1, GotoFacts DEF Typed, RunTypeOK, PC
  <2>3. reply'[r] = reply[r]
    BY <1>3, HandlerProc DEF Crash, Typed, RunTypeOK
  <2> QED
    BY <1>3, <2>2, <2>3 DEF Crash, Frozen
<1>4. CASE (\E q \in Runs : Stall(q)) \/ GrantCredits \/ UNCHANGED vars
  BY <1>4 DEF Stall, GrantCredits, vars, Frozen
<1> QED
  BY <1>2, <1>3, <1>4

(* A write of another process lands or is lost.                            *)
LEMMA WriteFrozen ==
  ASSUME Typed, NEW r \in Runs, NEW w \in writes, w.proc[1] # r, Land(w) \/ Lose(w)
  PROVE  Frozen(r)
<1> USE DEF logVars, chargeVars
<1>1. API(r) \in Procs /\ API(r)[1] = r /\ w.proc \in Procs /\ w.proc # API(r)
  BY ProcsFacts DEF Typed, RunTypeOK, Write
<1>2. \A v \in Write : v.proc[1] = r => (v \in writes' <=> v \in writes)
  BY DEF Land, Lose
<1>3. CASE Land(w)
  <2>1. log'[r] = log[r]
    BY <1>3 DEF Land, Typed, RunTypeOK
  <2>2. \A t \in Tally : t.proc = API(r) => (t \in tallies' <=> t \in tallies)
    BY <1>1, <1>3 DEF Land
  <2> QED
    BY <1>2, <1>3, <2>1, <2>2 DEF Land, Frozen
<1>4. CASE Lose(w)
  <2>1. pc'[API(r)] = pc[API(r)]
    <3>1. CASE pc' = pc
      BY <3>1
    <3>2. CASE pc' # pc
      <4>1. \E label \in {"failing", "done"} : Goto(w.proc, label)
        BY <1>4, <3>2, <1>1, ThrowEnds DEF Lose
      <4> QED
        BY <1>1, <4>1, GotoFacts DEF Typed, RunTypeOK, PC
    <3> QED
      BY <3>1, <3>2
  <2> QED
    BY <1>2, <1>4, <2>1 DEF Lose, Frozen
<1> QED
  BY <1>3, <1>4

(* What can touch the handler of a run that is not queued.                 *)
Touches(r) ==
  \/ Request(r) \/ Handle(r) \/ Step(API(r)) \/ Crash(API(r)) \/ DeleteAgent
  \/ \E w \in writes : w.proc[1] = r /\ (Land(w) \/ Lose(w))

LEMMA FrozenStep ==
  ASSUME Typed, [Next]_vars, NEW r \in Runs, mode[r] # "queued"
  PROVE  Frozen(r) \/ Touches(r)
<1>1. ASSUME NEW q \in Runs, Request(q) \/ Handle(q)
      PROVE  Frozen(r) \/ Touches(r)
  BY <1>1, HandlerFrozen DEF Touches
<1>2. ASSUME NEW p \in Procs, Step(p)
      PROVE  Frozen(r) \/ Touches(r)
  <2>1. CASE p[1] = r
    BY <1>2, <2>1, SyncAlone, StepMoves DEF Touches
  <2>2. CASE p[1] # r
    BY <1>2, <2>2, ElsewhereFrozen
  <2> QED
    BY <2>1, <2>2
<1>3. ASSUME NEW w \in writes, Land(w) \/ Lose(w)
      PROVE  Frozen(r) \/ Touches(r)
  BY <1>3, WriteFrozen DEF Touches
<1>4. ASSUME NEW p \in Procs, Crash(p)
      PROVE  Frozen(r) \/ Touches(r)
  BY <1>4, OutsideFrozen DEF Touches
<1>5. CASE (\E q \in Runs : Take(q) \/ Stall(q)) \/ GrantCredits \/ UNCHANGED vars
  BY <1>5, OutsideFrozen
<1>6. CASE DeleteAgent
  BY <1>6 DEF Touches
<1> QED
  BY <1>1, <1>2, <1>3, <1>4, <1>5, <1>6 DEF Next

-----------------------------------------------------------------------------
(* The handler moves on before it has sent any write, ...                  *)
LEMMA UnsentPlace ==
  ASSUME RunTypeOK, NEW r \in Runs, SyncPlace(r), mode[r] # "queued",
         pc[API(r)] \in Unsent, pc'[API(r)] \in Unsent, reply'[r] # "ok",
         UNCHANGED <<writes, tallies>>
  PROVE  SyncPlace(r)'
<1>1. NoWrites(API(r))' /\ (TalliesOf(API(r)) = {})'
  BY DEF SyncPlace, NoWrites, TalliesOf
<1>2. \A w \in writes' : w.proc[1] = r => w.proc = API(r)
  BY DEF SyncPlace
<1> QED
  BY <1>1, <1>2 DEF SyncPlace, Unsent

(* ... or gives up: then nothing is promised of the run.                   *)
LEMMA GivenUpPlace ==
  ASSUME NEW r \in Runs, pc'[API(r)] \in {"failing", "failpersist", "done"}, reply'[r] # "ok",
         \A w \in writes' : w.proc[1] = r => w.proc = API(r)
  PROVE  SyncPlace(r)'
BY DEF SyncPlace, Unsent

(* A request that begins, or is refused.                                   *)
LEMMA RequestPlace ==
  ASSUME Typed, NEW r \in Runs, SyncPlace(r), Charged(r), Request(r)
  PROVE  SyncPlace(r)'
<1>1. /\ pc[API(r)] = "idle" /\ mode[r] = "none" /\ reply[r] = "none"
      /\ API(r) \in Procs /\ API(r)[1] = r
  BY ProcsFacts DEF Request, Reject, Execute, Enqueue, Typed, RunTypeOK, HandlerPlace, Charged
<1>2. UNCHANGED <<writes, tallies>>
  BY DEF Request, Reject, Execute, Enqueue, logVars
<1>3. \A w \in writes' : w.proc[1] = r => w.proc = API(r)
  BY <1>1, <1>2 DEF SyncPlace
<1>4. CASE Reject(r)
  <2>1. pc'[API(r)] = "done" /\ reply'[r] = "rejected"
    BY <1>1, <1>4 DEF Reject, Reply, Goto, Typed, RunTypeOK
  <2> QED
    BY <1>3, <2>1, GivenUpPlace
<1>5. CASE Execute(r) \/ Enqueue(r)
  <2>1. pc'[API(r)] \in Unsent /\ reply'[r] = "none"
    BY <1>1, <1>5 DEF Execute, Enqueue, Goto, Typed, RunTypeOK, Unsent
  <2> QED
    BY <1>1, <1>2, <2>1, UnsentPlace DEF Typed, Unsent
<1> QED
  BY <1>4, <1>5 DEF Request

(* What the handler does itself, up to its answer.                         *)
LEMMA HandlePlace ==
  ASSUME Typed, NEW r \in Runs, SyncPlace(r), Charged(r), mode[r] # "queued", Handle(r)
  PROVE  SyncPlace(r)'
<1> DEFINE p == API(r)
<1>1. /\ p \in Procs /\ p[1] = r /\ pc[p] # "add" /\ RunTypeOK
      /\ pc[p] # "done" => reply[r] = "none"
  BY ProcsFacts, SyncAlone DEF Typed, Charged, RunTypeOK
<1>2. \A w \in writes : w.proc[1] = r => w.proc = p
  BY DEF SyncPlace
<1>3. CASE CheckCredits(r) \/ PayRun(r) \/ CreateLog(r)
  <2>1. /\ pc[p] \in Unsent /\ UNCHANGED <<writes, tallies, mode>>
        /\ \/ pc'[p] \in Unsent /\ reply'[r] = "none"
           \/ pc'[p] = "done" /\ reply'[r] = "error"
    <3>1. CASE CheckCredits(r)
      BY <1>1, <3>1 DEF CheckCredits, Goto, RunTypeOK, Unsent, logVars
    <3>2. CASE PayRun(r)
      BY <1>1, <3>2 DEF PayRun, Goto, Reply, RunTypeOK, Unsent, logVars
    <3>3. CASE CreateLog(r)
      <4>1. mode[r] = "sync"
        BY <1>1, <3>3, SyncAlone DEF CreateLog, RunTypeOK
      <4> QED
        BY <1>1, <3>3, <4>1 DEF CreateLog, Goto, Reply, RunTypeOK, Unsent
    <3> QED
      BY <1>3, <3>1, <3>2, <3>3
  <2> QED
    BY <1>1, <1>2, <2>1, UnsentPlace, GivenUpPlace
<1>4. CASE InsufficientCredits(r) \/ DeductFails(r) \/ ReplyFailure(r)
  <2>1. pc'[p] = "done" /\ reply'[r] # "ok" /\ writes' = writes
    BY <1>1, <1>4 DEF InsufficientCredits, DeductFails, ReplyFailure, Goto, Reply, RunTypeOK,
       logVars
  <2> QED
    BY <1>2, <2>1, GivenUpPlace
<1>5. CASE PersistFailure(r)
  <2>1. pc'[p] = "failpersist" /\ reply'[r] = "none"
    BY <1>1, <1>5 DEF PersistFailure, Continue, Goto, RunTypeOK
  <2>2. \A w \in writes' : w.proc[1] = r => w.proc = p
    BY <1>2, <1>5 DEF PersistFailure, Send
  <2> QED
    BY <2>1, <2>2, GivenUpPlace
<1>6. CASE FinishSync(r)
  <2>1. /\ pc[p] = "finish" /\ pc'[p] = "done"
        /\ UNCHANGED <<mode, logVars, chargeVars, agentExists>>
    BY <1>1, <1>6 DEF FinishSync, Goto, Reply, RunTypeOK
  <2>2. /\ NoWrites(p) /\ (agentExists => log[r] = Outcome(p) /\ TalliesOf(p) = {ResultTally(p)})
        /\ agentExists => (p \in invoices <=> Billed(p)) /\ (p \in payouts <=> Billed(p))
    BY <2>1 DEF SyncPlace
  <2>3. /\ NoWrites(p)' /\ Outcome(p)' = Outcome(p) /\ TalliesOf(p)' = TalliesOf(p)
        /\ ResultTally(p)' = ResultTally(p) /\ Billed(p)' = Billed(p)
    BY <2>1, <2>2 DEF NoWrites, Outcome, TalliesOf, ResultTally, Billed, logVars, chargeVars
  <2>4. UNCHANGED <<log, writes, invoices, payouts, agentExists>>
    BY <2>1 DEF logVars, chargeVars
  <2> QED
    BY <1>2, <2>1, <2>2, <2>3, <2>4 DEF SyncPlace, Unsent
<1> QED
  BY <1>1, <1>3, <1>4, <1>5, <1>6 DEF Handle, AddJob

(* The handler's part in the steps it shares with executeQueued.           *)
LEMMA SyncStepPlace ==
  ASSUME Typed, Typed', NEW r \in Runs, SyncPlace(r), Charged(r), ChargePlace(API(r)),
         mode[r] # "queued", Step(API(r))
  PROVE  SyncPlace(r)'
<1> DEFINE p == API(r)
<1>1. /\ p \in Procs /\ p[1] = r /\ p[2] = 0 /\ pc[p] # "load" /\ RunTypeOK /\ RunTypeOK'
      /\ pc[p] # "done" => reply[r] = "none"
  BY ProcsFacts, SyncAlone DEF Typed, Charged, RunTypeOK
<1>2. \A w \in writes : w.proc[1] = r => w.proc = p
  BY DEF SyncPlace
<1>3. UNCHANGED <<mode, reply, agentExists>> /\ reply[r] = "none"
  BY <1>1, StepLabel DEF Step, LoadAgent, MarkRunning, Dispatch, PersistResult, ResultPersisted,
     PersistThrows, CreateInvoice, CreatePayout, FinishQueued
<1>4. ASSUME Throw(p), \A w \in writes' : w.proc[1] = r => w.proc = p
      PROVE  SyncPlace(r)'
  <2>1. pc'[p] = "failing"
    BY <1>1, <1>4 DEF Throw, Continue, Goto, RunTypeOK
  <2> QED
    BY <1>3, <1>4, <2>1, GivenUpPlace
<1>5. CASE MarkRunning(p) \/ Dispatch(p)
  <2>1. UNCHANGED <<writes, tallies>> /\ pc[p] \in Unsent
    BY <1>5 DEF MarkRunning, Dispatch, logVars, Unsent
  <2>2. Throw(p) \/ pc'[p] \in Unsent
    BY <1>1, <1>5 DEF MarkRunning, Dispatch, Continue, Goto, RunTypeOK, Unsent
  <2> QED
    BY <1>1, <1>2, <1>3, <1>4, <2>1, <2>2, UnsentPlace
<1>6. CASE PersistResult(p)
  <2>1. /\ pc'[p] = "persisting" /\ UNCHANGED <<tallies, result>>
        /\ NoWrites(p) /\ TalliesOf(p) = {}
    BY <1>1, <1>6 DEF PersistResult, Continue, Goto, RunTypeOK, SyncPlace, Unsent, chargeVars
  <2>2. writes' = writes \cup {ResultWrite(p, "log"), ResultWrite(p, "stats")}
    BY <1>6 DEF PersistResult, Send, ResultWrite, Outcome
  <2>3. /\ Outcome(p)' = Outcome(p) /\ (TalliesOf(p) = {})'
        /\ \A column : ResultWrite(p, column)' = ResultWrite(p, column)
    BY <2>1 DEF Outcome, TalliesOf, ResultWrite
  <2>4. \A w \in writes' : w.proc = p => w.val = Outcome(p) /\ w.by = "persistResult"
    BY <2>1, <2>2 DEF NoWrites, ResultWrite
  <2>5. Landing(p)'
    BY <2>2, <2>3, <2>4 DEF Landing
  <2>6. \A w \in writes' : w.proc[1] = r => w.proc = p
    BY <1>1, <1>2, <2>2 DEF ResultWrite
  <2> QED
    BY <1>3, <2>1, <2>5, <2>6 DEF SyncPlace, Unsent
<1>7. CASE ResultPersisted(p)
  <2>1. /\ pc[p] = "persisting" /\ UNCHANGED <<log, writes, tallies, result, invoices, payouts>>
        /\ pc'[p] = IF Charges(p) THEN "invoice" ELSE "finish"
        /\ Landing(p) /\ NoWrites(p)
    BY <1>1, <1>7 DEF ResultPersisted, Continue, Goto, RunTypeOK, SyncPlace, logVars, chargeVars,
       Landing, NoWrites, BothLanded
  <2>2. \A column \in {"log", "stats"} : ResultWrite(p, column) \notin writes
    BY <2>1 DEF NoWrites, ResultWrite
  <2>3. agentExists => log[r] = Outcome(p) /\ TalliesOf(p) = {ResultTally(p)}
    BY <1>1, <2>1, <2>2 DEF Landing
  <2>4. p \notin invoices /\ p \notin payouts
    BY <2>1 DEF ChargePlace, Paying
  <2>5. /\ NoWrites(p)' /\ Outcome(p)' = Outcome(p) /\ TalliesOf(p)' = TalliesOf(p)
        /\ ResultTally(p)' = ResultTally(p) /\ Billed(p)' = Billed(p)
    BY <2>1 DEF NoWrites, Outcome, TalliesOf, ResultTally, Billed
  <2>6. pc'[p] = "invoice" => Billed(p)
    BY <2>1 DEF Charges, Billed
  <2>7. pc'[p] = "finish" /\ agentExists => ~Billed(p)
    BY <2>1 DEF Charges, Billed
  <2> QED
    BY <1>2, <1>3, <2>1, <2>3, <2>4, <2>5, <2>6, <2>7 DEF SyncPlace, Unsent
<1>8. CASE PersistThrows(p)
  BY <1>2, <1>4, <1>8 DEF PersistThrows, logVars
<1>9. CASE (CreateInvoice(p) \/ CreatePayout(p)) /\ ~Throw(p)
  <2>1. /\ UNCHANGED <<log, writes, tallies, result>> /\ pc[p] \in {"invoice", "payout"}
        /\ \/ pc[p] = "invoice" /\ pc'[p] = "payout"
           \/ /\ pc[p] = "payout" /\ pc'[p] = "finish"
              /\ invoices' = invoices /\ payouts' = payouts \cup {p}
    BY <1>1, <1>9 DEF CreateInvoice, CreatePayout, Continue, Goto, RunTypeOK, logVars
  <2>2. /\ NoWrites(p) /\ (agentExists => log[r] = Outcome(p) /\ TalliesOf(p) = {ResultTally(p)})
        /\ Billed(p)
    BY <2>1 DEF SyncPlace
  <2>3. pc[p] = "payout" => p \in invoices
    BY DEF ChargePlace
  <2>4. /\ NoWrites(p)' /\ Outcome(p)' = Outcome(p) /\ TalliesOf(p)' = TalliesOf(p)
        /\ ResultTally(p)' = ResultTally(p) /\ Billed(p)' = Billed(p)
    BY <2>1, <2>2 DEF NoWrites, Outcome, TalliesOf, ResultTally, Billed
  <2> QED
    BY <1>2, <1>3, <2>1, <2>2, <2>3, <2>4 DEF SyncPlace, Unsent
<1>10. CASE (CreateInvoice(p) \/ CreatePayout(p)) /\ Throw(p)
  BY <1>2, <1>4, <1>10 DEF CreateInvoice, CreatePayout, logVars
<1>11. ~LoadAgent(p) /\ ~FinishQueued(p)
  <2>1. ~LoadAgent(p)
    BY <1>1 DEF LoadAgent
  <2>2. ~(p[2] > 0)
    BY <1>1
  <2>3. ~FinishQueued(p)
    BY <2>2 DEF FinishQueued
  <2> QED
    BY <2>1, <2>3
<1> QED
  BY <1>5, <1>6, <1>7, <1>8, <1>9, <1>10, <1>11 DEF Step

(* One of the handler's writes lands or is lost, ...                       *)
LEMMA OwnWritePlace ==
  ASSUME Typed, NEW r \in Runs, SyncPlace(r), Charged(r), mode[r] # "queued",
         NEW w \in writes, w.proc[1] = r, Land(w) \/ Lose(w)
  PROVE  SyncPlace(r)'
<1> DEFINE p == API(r)
<1>1. /\ p \in Procs /\ p[1] = r /\ p[2] = 0 /\ RunTypeOK /\ w.proc = p /\ w \in Write
      /\ pc[p] # "done" => reply[r] = "none"
  BY ProcsFacts DEF Typed, Charged, RunTypeOK, SyncPlace
<1>2. /\ \A v \in writes' : v.proc[1] = r => v.proc = p
      /\ UNCHANGED <<mode, reply>> /\ reply[r] # "ok"
  BY <1>1 DEF Land, Lose, SyncPlace, NoWrites
<1>3. pc[p] \notin Unsent \cup {"invoice", "payout", "finish"}
  BY <1>1 DEF SyncPlace, NoWrites
<1>4. CASE pc[p] # "persisting"
  <2>1. pc' = pc
    BY <1>1, <1>4 DEF Land, Lose
  <2> QED
    BY <1>2, <1>3, <1>4, <2>1 DEF SyncPlace
<1>5. CASE pc[p] = "persisting"
  <2>1. Landing(p) /\ w.by = "persistResult" /\ w.val = Outcome(p)
    BY <1>1, <1>5 DEF SyncPlace, Landing
  <2>2. CASE Lose(w)
    <3>1. Throw(p)
      BY <1>1, <1>5, <2>1, <2>2 DEF Lose
    <3>2. pc'[p] = "failing"
      BY <1>1, <3>1 DEF Throw, Continue, Goto, RunTypeOK
    <3> QED
      BY <1>2, <3>2, GivenUpPlace
  <2>3. CASE Land(w)
    <3>1. /\ agentExists /\ agentExists' /\ writes' = writes \ {w}
          /\ UNCHANGED <<pc, result>>
      BY <2>3 DEF Land, chargeVars
    <3>2. /\ Outcome(p)' = Outcome(p) /\ ResultTally(p)' = ResultTally(p)
          /\ \A column : ResultWrite(p, column)' = ResultWrite(p, column)
      BY <3>1 DEF Outcome, ResultTally, ResultWrite
    <3>3. \A v \in writes' : v.proc = p => v.val = Outcome(p) /\ v.by = "persistResult"
      BY <2>1, <3>1 DEF Landing
    <3>4. /\ ResultWrite(p, "log").column = "log" /\ ResultWrite(p, "stats").column = "stats"
          /\ w = ResultWrite(p, w.column) /\ w.column \in {"log", "stats"}
      BY <1>1, <2>1 DEF ResultWrite, Write
    <3>5. CASE w.column = "log"
      <4>1. log'[r] = Outcome(p) /\ tallies' = tallies
        BY <1>1, <2>1, <2>3, <3>5 DEF Land, RunTypeOK
      <4>2. ResultWrite(p, "stats") \in writes' <=> ResultWrite(p, "stats") \in writes
        BY <3>1, <3>4, <3>5
      <4>3. TalliesOf(p)' = TalliesOf(p)
        BY <4>1 DEF TalliesOf
      <4>4. Landing(p)'
        BY <1>1, <2>1, <3>1, <3>2, <3>3, <4>1, <4>2, <4>3 DEF Landing
      <4> QED
        BY <1>2, <1>5, <3>1, <4>4 DEF SyncPlace, Unsent
    <3>6. CASE w.column = "stats"
      <4>1. log' = log /\ tallies' = tallies \cup {ResultTally(p)}
        <5>1. /\ log' = log
              /\ tallies' = tallies \cup {[proc |-> p, success |-> Outcome(p) = "COMPLETED",
                                             by |-> "persistResult"]}
          BY <1>1, <2>1, <2>3, <3>6 DEF Land
        <5>2. (Outcome(p) = "COMPLETED") = result[p]
          BY <1>1 DEF Outcome, RunTypeOK
        <5> QED
          BY <5>1, <5>2 DEF ResultTally
      <4>2. TalliesOf(p) = {} /\ ResultWrite(p, "stats") \notin writes'
        BY <2>1, <3>1, <3>4, <3>6 DEF Landing
      <4>3. ResultWrite(p, "log") \in writes' <=> ResultWrite(p, "log") \in writes
        BY <3>1, <3>4, <3>6
      <4>4. TalliesOf(p)' = {ResultTally(p)}
        BY <4>1, <4>2 DEF TalliesOf, ResultTally
      <4>5. Landing(p)'
        BY <1>1, <2>1, <3>1, <3>2, <3>3, <4>1, <4>2, <4>3, <4>4 DEF Landing
      <4> QED
        BY <1>2, <1>5, <3>1, <4>5 DEF SyncPlace, Unsent
    <3> QED
      BY <3>4, <3>5, <3>6
  <2> QED
    BY <2>2, <2>3
<1> QED
  BY <1>4, <1>5

(* ... the process dies, or the agent is deleted with its log.             *)
LEMMA DeletedPlace ==
  ASSUME RunTypeOK, NEW r \in Runs, SyncPlace(r), DeleteAgent
  PROVE  SyncPlace(r)'
<1>1. ~agentExists' /\ tallies' = {} /\ UNCHANGED <<mode, pc, writes, result, reply>>
  BY DEF DeleteAgent, chargeVars
<1>2. /\ NoWrites(API(r))' <=> NoWrites(API(r))
      /\ TalliesOf(API(r))' = {}
      /\ Outcome(API(r))' = Outcome(API(r)) /\ Billed(API(r))' = Billed(API(r))
  BY <1>1 DEF NoWrites, TalliesOf, Outcome, Billed
<1>3. Landing(API(r)) => Landing(API(r))'
  BY <1>1, <1>2 DEF Landing
<1> QED
  BY <1>1, <1>2, <1>3 DEF SyncPlace

(* Each step keeps what a run that is not queued has written in line with  *)
(* the place of its handler.                                               *)
LEMMA SyncPlaceStep ==
  ASSUME PipelineInv, PipelineInv', ChargedPlaced, [Next]_vars, NEW r \in Runs, SyncPlace(r)
  PROVE  SyncPlace(r)'
<1>1. /\ Typed /\ Typed' /\ Charged(r) /\ RunTypeOK /\ RunTypeOK' /\ ChargePlace(API(r))
      /\ API(r) \in Procs
  BY ProcsFacts DEF PipelineInv, ChargesPlaced, ChargedPlaced, Typed
<1>2. CASE mode[r] = "queued"
  <2>1. pc[API(r)] # "idle" /\ mode'[r] = "queued"
    <3>1. pc[API(r)] # "idle"
      BY <1>1, <1>2 DEF Typed, HandlerPlace
    <3>2. CASE Request(r)
      BY <3>1, <3>2 DEF Request, Reject, Execute, Enqueue
    <3>3. CASE Handle(r)
      BY <1>2, <3>1, <3>3 DEF Handle, CheckCredits, InsufficientCredits, PayRun, DeductFails,
         CreateLog, AddJob, FinishSync, PersistFailure, ReplyFailure
    <3> QED
      BY <1>1, <1>2, <3>1, <3>2, <3>3, StepElsewhere DEF Elsewhere
  <2> QED
    BY <2>1 DEF SyncPlace
<1>3. CASE mode[r] # "queued"
  <2>1. CASE Frozen(r)
    BY <1>1, <2>1, FrozenPlace
  <2>2. CASE Request(r)
    BY <1>1, <2>2, RequestPlace
  <2>3. CASE Handle(r)
    BY <1>1, <1>3, <2>3, HandlePlace
  <2>4. CASE Step(API(r))
    BY <1>1, <1>3, <2>4, SyncStepPlace
  <2>5. CASE DeleteAgent
    BY <1>1, <2>5, DeletedPlace
  <2>6. CASE Crash(API(r))
    <3>1. /\ pc'[API(r)] = "done" /\ reply'[r] = "dropped" /\ writes' = writes
      BY <1>1, <2>6, ProcsFacts DEF Crash, Continue, Goto, RunTypeOK, logVars
    <3>2. \A w \in writes' : w.proc[1] = r => w.proc = API(r)
      BY <1>3, <3>1 DEF SyncPlace
    <3> QED
      BY <3>1, <3>2, GivenUpPlace
  <2>7. CASE \E w \in writes : w.proc[1] = r /\ (Land(w) \/ Lose(w))
    <3>1. PICK w \in writes : w.proc[1] = r /\ (Land(w) \/ Lose(w))
      BY <2>7
    <3> QED
      BY <1>1, <1>3, <3>1, OwnWritePlace
  <2> QED
    BY <1>1, <1>3, <2>1, <2>2, <2>3, <2>4, <2>5, <2>6, <2>7, FrozenStep DEF Touches
<1> QED
  BY <1>2, <1>3

-----------------------------------------------------------------------------
(* A job that was never reclaimed.                                         *)
Unreclaimed(r) == stalls[r] = 0 /\ job[r] \in {"waiting", "active", "completed"}

(* What a step of another run leaves to the executions of a job.           *)
JobFrozen(r) ==
  /\ job'[r] = job[r] /\ stalls'[r] = stalls[r] /\ starts'[r] = starts[r]
  /\ log'[r] = log[r] /\ agentExists' = agentExists
  /\ \A k \in 1 .. MaxExec :
       /\ pc'[<<r, k>>] = pc[<<r, k>>] /\ result'[<<r, k>>] = result[<<r, k>>]
       /\ ResultWrite(<<r, k>>, "log") \in writes =>
            ResultWrite(<<r, k>>, "log") \in writes'

LEMMA JobFrozenPlace ==
  ASSUME NEW r \in Runs, JobPlace(r), JobFrozen(r)
  PROVE  JobPlace(r)'
<1>1. ASSUME NEW k \in 1 .. MaxExec, LogFollows(<<r, k>>)
      PROVE  LogFollows(<<r, k>>)'
  <2>1. ResultWrite(<<r, k>>, "log")' = ResultWrite(<<r, k>>, "log")
    BY DEF JobFrozen, ResultWrite, Outcome
  <2> QED
    BY <1>1, <2>1 DEF LogFollows, JobFrozen
<1> QED
  BY <1>1 DEF JobPlace, JobFrozen

(* The execution that is at work holds the job's lock, and is alone.       *)
LEMMA AtWork ==
  ASSUME Typed, NEW r \in Runs, JobPlace(r), Unreclaimed(r),
         NEW p \in Procs, p[1] = r, p[2] # 0, pc[p] \notin {"idle", "done"}
  PROVE  /\ job[r] = "active" /\ HoldsLock(p) /\ LogFollows(p)
         /\ p[2] \in 1 .. MaxExec /\ p = <<r, p[2]>>
         /\ \A k \in 1 .. MaxExec : <<r, k>> # p => pc[<<r, k>>] \in {"idle", "done"}
<1>1. p[2] \in 1 .. MaxExec /\ p = <<r, p[2]>>
  BY WorkerProc
<1>2. job[r] = "active" /\ p[2] = starts[r] /\ LogFollows(<<r, p[2]>>)
  BY <1>1 DEF JobPlace, Unreclaimed
<1>3. ASSUME NEW k \in 1 .. MaxExec, <<r, k>> # p
      PROVE  pc[<<r, k>>] \in {"idle", "done"}
  <2>1. k # starts[r]
    BY <1>1, <1>2, <1>3
  <2> QED
    BY <2>1 DEF JobPlace, Unreclaimed
<1> QED
  BY <1>1, <1>2, <1>3 DEF HoldsLock

(* When it ends without completing the job, no execution is left.          *)
LEMMA EndedPlace ==
  ASSUME Typed, NEW r \in Runs, JobPlace(r), Unreclaimed(r),
         NEW p \in Procs, p[1] = r, p[2] # 0, pc[p] \notin {"idle", "done"},
         Goto(p, "done"), job'[r] # "completed"
  PROVE  JobPlace(r)'
<1>1. pc'[p] = "done" /\ \A q \in Procs : q # p => pc'[q] = pc[q]
  BY GotoFacts DEF Typed, RunTypeOK, PC
<1>2. ASSUME NEW k \in 1 .. MaxExec
      PROVE  pc'[<<r, k>>] \in {"idle", "done"}
  <2>1. <<r, k>> \in Procs
    BY ProcsFacts
  <2> QED
    BY <1>1, <2>1, AtWork
<1> QED
  BY <1>2 DEF JobPlace

(* When it moves on, what is asked of its log is asked of it alone.        *)
LEMMA MovedPlace ==
  ASSUME Typed, NEW r \in Runs, JobPlace(r), Unreclaimed(r),
         NEW p \in Procs, p[1] = r, p[2] # 0, pc[p] \notin {"idle", "done"},
         NEW label \in PC, Continue(p, label), LogFollows(p)'
  PROVE  JobPlace(r)'
<1>1. pc'[p] = label /\ \A q \in Procs : q # p => pc'[q] = pc[q]
  BY GotoFacts DEF Continue, Typed, RunTypeOK
<1>2. UNCHANGED <<job, stalls, starts>> /\ job[r] = "active" /\ p[2] = starts[r] /\ p = <<r, p[2]>>
  BY AtWork DEF Continue, queueVars, HoldsLock
<1>3. ASSUME NEW k \in 1 .. MaxExec
      PROVE  pc'[<<r, k>>] \in {"idle", "done"} \/ <<r, k>> = p
  <2>1. <<r, k>> \in Procs
    BY ProcsFacts
  <2> QED
    BY <1>1, <2>1, AtWork
<1>4. ASSUME NEW k \in 1 .. MaxExec, <<r, k>> = p
      PROVE  k = starts'[r] /\ LogFollows(<<r, k>>)'
  <2>1. k = p[2] /\ k = starts'[r]
    BY <1>2, <1>4
  <2> QED
    BY <1>4, <2>1
<1> QED
  BY <1>2, <1>3, <1>4 DEF JobPlace

(* The steps of the execution that is at work.                             *)
LEMMA WorkerStepPlace ==
  ASSUME Typed, NEW r \in Runs, JobPlace(r), Unreclaimed(r),
         NEW p \in Procs, p[1] = r, p[2] # 0, Step(p)
  PROVE  JobPlace(r)'
<1>1. pc[p] \notin {"idle", "done"} /\ RunTypeOK
  BY StepLabel DEF Typed
<1>2. HoldsLock(p) /\ LogFollows(p) /\ job[r] = "active"
  BY <1>1, AtWork
<1>3. ASSUME NEW u \in BOOLEAN, Goto(p, "done"), RejectJob(p, u)
      PROVE  JobPlace(r)'
  <2>1. job'[r] # "completed"
    BY <1>1, <1>2, <1>3 DEF RejectJob, RunTypeOK
  <2> QED
    BY <1>1, <1>3, <2>1, EndedPlace
<1>4. ASSUME Throw(p)
      PROVE  JobPlace(r)'
  BY <1>3, <1>4 DEF Throw
<1>5. ASSUME NEW label \in PC \ {"persisting", "invoice", "payout", "finish"}, Continue(p, label)
      PROVE  JobPlace(r)'
  <2>1. pc'[p] = label
    BY <1>1, <1>5 DEF Continue, Goto, RunTypeOK
  <2>2. LogFollows(p)'
    BY <2>1 DEF LogFollows
  <2> QED
    BY <1>1, <1>5, <2>2, MovedPlace
<1>6. CASE LoadAgent(p) \/ MarkRunning(p) \/ Dispatch(p)
  <2>1. \/ \E label \in {"mark", "dispatch", "persist"} : Continue(p, label)
        \/ Goto(p, "done") /\ RejectJob(p, TRUE)
        \/ Throw(p)
    BY <1>6 DEF LoadAgent, MarkRunning, Dispatch
  <2>2. {"mark", "dispatch", "persist"} \subseteq PC \ {"persisting", "invoice", "payout", "finish"}
    BY DEF PC
  <2> QED
    BY <1>3, <1>4, <1>5, <2>1, <2>2
<1>7. CASE PersistResult(p)
  <2>1. Continue(p, "persisting") /\ pc'[p] = "persisting" /\ result' = result
    BY <1>1, <1>7 DEF PersistResult, Continue, Goto, RunTypeOK, chargeVars
  <2>2. ResultWrite(p, "log") \in writes'
    BY <1>7 DEF PersistResult, Send, ResultWrite, Outcome
  <2>3. ResultWrite(p, "log")' = ResultWrite(p, "log")
    BY <2>1 DEF ResultWrite, Outcome
  <2>4. LogFollows(p)'
    BY <2>1, <2>2, <2>3 DEF LogFollows
  <2> QED
    BY <1>1, <2>1, <2>4, MovedPlace DEF PC
<1>8. CASE ResultPersisted(p)
  <2>1. PICK label \in {"invoice", "finish"} : Continue(p, label)
    BY <1>8 DEF ResultPersisted
  <2>2. ResultWrite(p, "log") \notin writes
    BY <1>8 DEF ResultPersisted, BothLanded, ResultWrite
  <2>3. pc'[p] = label /\ UNCHANGED <<log, agentExists>> /\ pc[p] = "persisting"
    BY <1>1, <1>8, <2>1 DEF ResultPersisted, Continue, Goto, RunTypeOK, logVars
  <2>4. LogFollows(p)'
    BY <1>2, <2>2, <2>3 DEF LogFollows
  <2> QED
    BY <1>1, <2>1, <2>4, MovedPlace DEF PC
<1>9. CASE PersistThrows(p)
  BY <1>4, <1>9 DEF PersistThrows
<1>10. CASE CreateInvoice(p) \/ CreatePayout(p)
  <2>1. CASE Throw(p)
    BY <1>4, <2>1
  <2>2. CASE ~Throw(p)
    <3>1. PICK label \in {"payout", "finish"} : Continue(p, label)
      BY <1>10, <2>2 DEF CreateInvoice, CreatePayout
    <3>2. pc'[p] = label /\ UNCHANGED <<log, agentExists>> /\ pc[p] \in {"invoice", "payout"}
      BY <1>1, <1>10, <3>1 DEF CreateInvoice, CreatePayout, Continue, Goto, RunTypeOK, logVars
    <3>3. LogFollows(p)'
      BY <1>2, <3>2 DEF LogFollows
    <3> QED
      BY <1>1, <3>1, <3>3, MovedPlace DEF PC
  <2> QED
    BY <2>1, <2>2
<1>11. CASE FinishQueued(p)
  <2>1. CASE Throw(p)
    BY <1>4, <2>1
  <2>2. CASE ~Throw(p)
    <3>1. /\ Goto(p, "done") /\ UNCHANGED <<log, agentExists>> /\ pc[p] = "finish"
          /\ job'[r] = "completed"
      BY <1>1, <1>2, <1>11, <2>2 DEF FinishQueued, RunTypeOK, logVars
    <3>2. pc'[p] = "done" /\ \A q \in Procs : q # p => pc'[q] = pc[q]
      BY <1>1, <3>1, GotoFacts DEF RunTypeOK, PC
    <3>3. ASSUME NEW k \in 1 .. MaxExec
          PROVE  pc'[<<r, k>>] \in {"idle", "done"}
      <4>1. <<r, k>> \in Procs
        BY ProcsFacts
      <4> QED
        BY <1>1, <3>2, <4>1, AtWork
    <3>4. agentExists' => log'[r] \in Final
      BY <1>2, <3>1 DEF LogFollows
    <3> QED
      BY <3>3, <3>4 DEF JobPlace
  <2> QED
    BY <2>1, <2>2
<1> QED
  BY <1>6, <1>7, <1>8, <1>9, <1>10, <1>11 DEF Step

(* A step of a process of another run.                                     *)
LEMMA ElsewhereJobFrozen ==
  ASSUME Typed, NEW r \in Runs, NEW p \in Procs, p[1] # r, Step(p)
  PROVE  JobFrozen(r)
<1>0. RunTypeOK /\ p[1] \in Runs
  BY ProcRun DEF Typed
<1>1. PICK label \in WorkerPC \cup {"failing"} : Goto(p, label)
  BY StepLabel
<1>2. \A q \in Procs : q # p => pc'[q] = pc[q]
  BY <1>0, <1>1, GotoFacts DEF RunTypeOK, PC, WorkerPC
<1>3. \A k \in 1 .. MaxExec : <<r, k>> \in Procs /\ <<r, k>> # p
  BY ProcsFacts
<1>4. /\ agentExists' = agentExists
      /\ log' = log \/ log' = [log EXCEPT ![p[1]] = "RUNNING"]
      /\ writes \subseteq writes'
      /\ result' = result \/ \E s \in BOOLEAN : result' = [result EXCEPT ![p] = s]
  <2> USE DEF logVars, chargeVars
  <2>1. CASE LoadAgent(p) \/ MarkRunning(p) \/ Dispatch(p)
    BY <2>1 DEF LoadAgent, MarkRunning, Dispatch
  <2>2. CASE PersistResult(p) \/ ResultPersisted(p) \/ PersistThrows(p)
    BY <2>2 DEF PersistResult, ResultPersisted, PersistThrows, Send
  <2>3. CASE CreateInvoice(p) \/ CreatePayout(p) \/ FinishQueued(p)
    BY <2>3 DEF CreateInvoice, CreatePayout, FinishQueued
  <2> QED
    BY <2>1, <2>2, <2>3 DEF Step
<1>5. log'[r] = log[r] /\ \A k \in 1 .. MaxExec : result'[<<r, k>>] = result[<<r, k>>]
  BY <1>0, <1>3, <1>4 DEF RunTypeOK
<1>6. job'[r] = job[r] /\ UNCHANGED <<stalls, starts>>
  <2>1. Moves(p)
    BY StepMoves
  <2>2. CASE \E l \in PC : Continue(p, l)
    BY <2>2 DEF Continue, queueVars
  <2>3. CASE \E u \in BOOLEAN : RejectJob(p, u)
    BY <1>0, <2>3 DEF RejectJob, RunTypeOK
  <2>4. CASE Completes(p)
    BY <1>0, <2>4 DEF Completes, RunTypeOK
  <2> QED
    BY <2>1, <2>2, <2>3, <2>4 DEF Moves
<1> QED
  BY <1>2, <1>3, <1>4, <1>5, <1>6 DEF JobFrozen

(* Only the holder of its lock settles a job.                              *)
LEMMA MovesJob ==
  ASSUME Typed, NEW p \in Procs, Moves(p), NEW r \in Runs
  PROVE  /\ UNCHANGED <<stalls, starts>>
         /\ \/ job'[r] = job[r]
            \/ p[1] = r /\ HoldsLock(p) /\ job[r] = "active"
               /\ job'[r] \in {"waiting", "failed", "completed"}
<1>0. RunTypeOK /\ p[1] \in Runs
  BY ProcRun DEF Typed
<1>1. CASE \E l \in PC : Continue(p, l)
  BY <1>1 DEF Continue, queueVars
<1>2. CASE \E u \in BOOLEAN : RejectJob(p, u)
  BY <1>0, <1>2 DEF RejectJob, RunTypeOK, HoldsLock
<1>3. CASE Completes(p)
  BY <1>0, <1>3 DEF Completes, RunTypeOK, HoldsLock
<1> QED
  BY <1>1, <1>2, <1>3 DEF Moves

(* A run whose job was not added has no executions.                        *)
LEMMA UnaddedPlace ==
  ASSUME Typed, Typed', [Next]_vars, NEW r \in Runs, job[r] = "none"
  PROVE  JobPlace(r)'
<1>0. RunTypeOK /\ starts[r] = 0
  BY DEF Typed, QueueCounters
<1>1. job'[r] \in {"none", "waiting"} /\ starts'[r] = 0
  <2>1. CASE \E p \in Procs : Step(p)
    BY <1>0, <2>1, StepMoves, MovesJob
  <2>2. CASE \E p \in Procs : Crash(p)
    BY <1>0, <2>2 DEF Crash, Continue, queueVars
  <2>3. CASE \E w \in writes : Lose(w)
    <3>1. PICK w \in writes : Lose(w)
      BY <2>3
    <3>2. w.proc \in Procs
      BY <1>0 DEF RunTypeOK, Write
    <3>3. CASE Throw(w.proc)
      BY <1>0, <3>2, <3>3, ThrowMoves, MovesJob
    <3>4. CASE ~Throw(w.proc)
      BY <1>0, <3>1, <3>4 DEF Lose, queueVars
    <3> QED
      BY <3>3, <3>4
  <2>4. CASE \E q \in Runs : Request(q)
    BY <1>0, <2>4 DEF Request, Reject, Execute, Enqueue, queueVars
  <2>5. CASE \E q \in Runs : Handle(q)
    BY <1>0, <2>5 DEF Handle, CheckCredits, InsufficientCredits, PayRun, DeductFails, CreateLog,
       AddJob, FinishSync, PersistFailure, ReplyFailure, Continue, queueVars, RunTypeOK
  <2>6. CASE \E q \in Runs : Take(q) \/ Stall(q)
    BY <1>0, <2>6 DEF Take, Stall, RunTypeOK
  <2>7. CASE (\E w \in writes : Land(w)) \/ DeleteAgent \/ GrantCredits \/ UNCHANGED vars
    BY <1>0, <2>7 DEF Land, DeleteAgent, GrantCredits, vars, queueVars
  <2> QED
    BY <2>1, <2>2, <2>3, <2>4, <2>5, <2>6, <2>7 DEF Next
<1>2. \A k \in 1 .. MaxExec : pc'[<<r, k>>] = "idle"
  BY <1>1 DEF Typed, QueueCounters
<1> QED
  BY <1>1, <1>2 DEF JobPlace

(* A handler's step, and what lands, dies or is lost elsewhere.            *)
LEMMA OutsideJobFrozen ==
  ASSUME Typed, NEW r \in Runs, job[r] # "none",
         \/ \E q \in Runs : Request(q) \/ Handle(q) \/ (q # r /\ (Take(q) \/ Stall(q)))
         \/ \E p \in Procs : p[1] # r /\ Crash(p)
         \/ \E w \in writes : w.proc[1] # r /\ (Land(w) \/ Lose(w))
         \/ GrantCredits \/ UNCHANGED vars
  PROVE  JobFrozen(r)
<1> USE DEF logVars, chargeVars
<1>0. RunTypeOK /\ pc[API(r)] = "done"
  BY DEF Typed, HandlerPlace
<1>1. \A k \in 1 .. MaxExec :
        <<r, k>> \in Procs /\ <<r, k>>[1] = r /\ \A q \in Runs : <<r, k>> # API(q)
  BY ProcsFacts
<1>2. ASSUME NEW q \in Runs, Request(q) \/ Handle(q)
      PROVE  JobFrozen(r)
  <2>1. q # r
    BY <1>0, <1>2 DEF Request, Reject, Execute, Enqueue, Handle, CheckCredits,
       InsufficientCredits, PayRun, DeductFails, CreateLog, AddJob, FinishSync, PersistFailure,
       ReplyFailure
  <2>2. \E label \in PC : Goto(API(q), label)
    <3>1. CASE Request(q)
      BY <3>1 DEF Request, Reject, Execute, Enqueue, Reply, PC
    <3>2. CASE Handle(q)
      BY <3>2 DEF Handle, CheckCredits, InsufficientCredits, PayRun, DeductFails, CreateLog,
         AddJob, FinishSync, PersistFailure, ReplyFailure, Continue, Reply, PC
    <3> QED
      BY <1>2, <3>1, <3>2
  <2>3. API(q) \in Procs
    BY ProcsFacts
  <2>4. \A p \in Procs : p # API(q) => pc'[p] = pc[p]
    BY <1>0, <2>2, <2>3, GotoFacts DEF RunTypeOK
  <2>5. /\ UNCHANGED <<stalls, starts, result, agentExists>> /\ writes \subseteq writes'
        /\ log' = log \/ log' = [log EXCEPT ![q] = "PENDING"]
        /\ job' = job \/ job' = [job EXCEPT ![q] = "waiting"]
    <3>1. CASE Request(q)
      BY <3>1 DEF Request, Reject, Execute, Enqueue, queueVars
    <3>2. CASE Handle(q)
      BY <3>2 DEF Handle, CheckCredits, InsufficientCredits, PayRun, DeductFails, CreateLog,
         AddJob, FinishSync, PersistFailure, ReplyFailure, Continue, Send, queueVars
    <3> QED
      BY <1>2, <3>1, <3>2
  <2>6. log'[r] = log[r] /\ job'[r] = job[r]
    BY <1>0, <2>1, <2>5 DEF RunTypeOK
  <2> QED
    BY <1>1, <2>4, <2>5, <2>6 DEF JobFrozen
<1>3. ASSUME NEW q \in Runs, q # r, Take(q)
      PROVE  JobFrozen(r)
  <2>1. \A k \in 1 .. MaxExec : pc'[<<r, k>>] = pc[<<r, k>>]
    BY <1>0, <1>1, <1>3 DEF Take, Goto, RunTypeOK
  <2> QED
    BY <1>0, <1>3, <2>1 DEF Take, JobFrozen, RunTypeOK
<1>4. ASSUME NEW q \in Runs, q # r, Stall(q)
      PROVE  JobFrozen(r)
  BY <1>0, <1>4 DEF Stall, JobFrozen, RunTypeOK
<1>5. ASSUME NEW p \in Procs, p[1] # r, Crash(p)
      PROVE  JobFrozen(r)
  <2>1. Goto(p, "done")
    BY <1>5 DEF Crash, Continue
  <2>2. \A k \in 1 .. MaxExec : pc'[<<r, k>>] = pc[<<r, k>>]
    BY <1>0, <1>1, <1>5, <2>1, GotoFacts DEF RunTypeOK, PC
  <2> QED
    BY <1>5, <2>2 DEF Crash, Continue, queueVars, JobFrozen
<1>6. ASSUME NEW w \in writes, w.proc[1] # r, Land(w) \/ Lose(w)
      PROVE  JobFrozen(r)
  <2>1. /\ w.proc \in Procs /\ UNCHANGED result /\ writes' = writes \ {w}
        /\ agentExists' = agentExists
    BY <1>0, <1>6 DEF Land, Lose, RunTypeOK, Write
  <2>2. \A k \in 1 .. MaxExec : ResultWrite(<<r, k>>, "log") # w
    BY <1>6 DEF ResultWrite
  <2>3. log'[r] = log[r]
    BY <1>0, <1>6 DEF Land, Lose, RunTypeOK
  <2>4. /\ \A k \in 1 .. MaxExec : pc'[<<r, k>>] = pc[<<r, k>>]
        /\ job'[r] = job[r] /\ UNCHANGED <<stalls, starts>>
    <3>1. CASE Throw(w.proc)
      <4>1. \E label \in {"failing", "done"} : Goto(w.proc, label)
        BY <2>1, <3>1, ThrowEnds
      <4>2. \A q \in Procs : q # w.proc => pc'[q] = pc[q]
        BY <1>0, <2>1, <4>1, GotoFacts DEF RunTypeOK, PC
      <4>3. job'[r] = job[r] /\ UNCHANGED <<stalls, starts>>
        BY <1>6, <2>1, <3>1, ThrowMoves, MovesJob
      <4> QED
        BY <1>1, <1>6, <4>2, <4>3
    <3>2. CASE ~Throw(w.proc)
      BY <1>6, <3>2 DEF Land, Lose, queueVars
    <3> QED
      BY <3>1, <3>2
  <2> QED
    BY <2>1, <2>2, <2>3, <2>4 DEF JobFrozen
<1>7. CASE GrantCredits \/ UNCHANGED vars
  BY <1>7 DEF GrantCredits, vars, queueVars, JobFrozen
<1> QED
  BY <1>2, <1>3, <1>4, <1>5, <1>6, <1>7
(* A job that was reclaimed or failed has no say any more.                 *)
LEMMA ReclaimedStays ==
  ASSUME Typed, [Next]_vars, NEW r \in Runs, job[r] # "none", ~Unreclaimed(r)
  PROVE  JobPlace(r)'
<1>0. RunTypeOK
  BY DEF Typed
<1>1. stalls[r] > 0 \/ job[r] = "failed"
  BY <1>0 DEF Unreclaimed, RunTypeOK
<1>2. CASE JobFrozen(r)
  BY <1>2 DEF JobFrozen, JobPlace, Unreclaimed
<1>3. ASSUME NEW p \in Procs, Moves(p)
      PROVE  JobPlace(r)'
  <2>1. UNCHANGED stalls /\ (job[r] = "failed" => job'[r] = "failed")
    BY <1>3, MovesJob
  <2> QED
    BY <1>1, <2>1, <1>0 DEF JobPlace, RunTypeOK
<1>4. CASE \E p \in Procs : Step(p)
  BY <1>3, <1>4, StepMoves
<1>5. CASE UNCHANGED <<job, stalls>>
  BY <1>5, <1>1, <1>0 DEF JobPlace, RunTypeOK
<1>6. CASE (\E p \in Procs : Crash(p)) \/ (\E w \in writes : Land(w)) \/ DeleteAgent
  BY <1>5, <1>6 DEF Crash, Land, DeleteAgent, Continue, queueVars
<1>7. CASE \E w \in writes : Lose(w)
  <2>1. PICK w \in writes : Lose(w)
    BY <1>7
  <2>2. w.proc \in Procs
    BY <1>0 DEF RunTypeOK, Write
  <2>3. CASE Throw(w.proc)
    BY <1>3, <2>2, <2>3, ThrowMoves
  <2>4. CASE ~Throw(w.proc)
    BY <1>5, <2>1, <2>4 DEF Lose, queueVars
  <2> QED
    BY <2>3, <2>4
<1>8. CASE \E q \in Runs : Take(q)
  <2>1. UNCHANGED stalls /\ (job[r] = "failed" => job'[r] = "failed")
    BY <1>0, <1>8 DEF Take, RunTypeOK
  <2> QED
    BY <1>0, <1>1, <2>1 DEF JobPlace, RunTypeOK
<1>9. CASE \E q \in Runs : Stall(q)
  <2>1. stalls'[r] \in {stalls[r], stalls[r] + 1} /\ (job[r] = "failed" => job'[r] = "failed")
    BY <1>0, <1>9 DEF Stall, RunTypeOK
  <2>2. stalls[r] \in Nat
    BY <1>0 DEF RunTypeOK
  <2> QED
    BY <1>1, <2>1, <2>2 DEF JobPlace
<1>10. CASE (\E q \in Runs : Request(q) \/ Handle(q)) \/ GrantCredits \/ UNCHANGED vars
  BY <1>2, <1>10, OutsideJobFrozen
<1> QED
  BY <1>4, <1>6, <1>7, <1>8, <1>9, <1>10 DEF Next

(* A worker takes the job: it is the only one at work.                     *)
LEMMA TakenPlace ==
  ASSUME Typed, NEW r \in Runs, JobPlace(r), Take(r)
  PROVE  JobPlace(r)'
<1>0. RunTypeOK /\ starts[r] \in Nat
  BY DEF Typed, RunTypeOK
<1>1. /\ job'[r] = "active" /\ starts'[r] = starts[r] + 1
      /\ UNCHANGED <<stalls, log, agentExists>>
  BY <1>0 DEF Take, RunTypeOK, logVars
<1>2. ASSUME NEW k \in 1 .. MaxExec
      PROVE  /\ k # starts'[r] => pc'[<<r, k>>] = pc[<<r, k>>]
             /\ k = starts'[r] => pc'[<<r, k>>] = "load"
  <2>1. <<r, k>> \in Procs /\ pc' = [pc EXCEPT ![<<r, starts[r] + 1>>] = "load"]
    BY ProcsFacts DEF Take, Goto
  <2> QED
    BY <1>0, <1>1, <2>1 DEF RunTypeOK
<1>3. stalls[r] = 0 => \A k \in 1 .. MaxExec : pc[<<r, k>>] \in {"idle", "done"}
  BY DEF JobPlace, Take
<1> QED
  BY <1>1, <1>2, <1>3 DEF JobPlace, LogFollows

(* A job whose lock expired has been reclaimed, or has failed.             *)
LEMMA StalledPlace ==
  ASSUME Typed, NEW r \in Runs, Stall(r)
  PROVE  JobPlace(r)'
<1>1. stalls[r] \in Nat /\ (job'[r] = "failed" \/ stalls'[r] = stalls[r] + 1)
  BY DEF Stall, Typed, RunTypeOK
<1> QED
  BY <1>1 DEF JobPlace

(* A write of the job's own executions lands or is lost.                   *)
LEMMA JobWritePlace ==
  ASSUME Typed, NEW r \in Runs, JobPlace(r), Unreclaimed(r),
         NEW w \in writes, w.proc[1] = r, Land(w) \/ Lose(w)
  PROVE  JobPlace(r)'
<1>0. /\ RunTypeOK /\ w.proc \in Procs /\ w.val \in Final /\ pc[API(r)] = "done"
      /\ \A k \in 1 .. MaxExec : <<r, k>> \in Procs /\ <<r, k>>[1] = r
  BY ProcsFacts DEF Typed, RunTypeOK, Write, Final, HandlerPlace, Unreclaimed
<1>1. CASE Land(w)
  <2>1. /\ writes' = writes \ {w} /\ UNCHANGED <<pc, result, job, stalls, starts, agentExists>>
        /\ w.column = "log" => log'[r] \in Final
        /\ w.column # "log" => log' = log
    BY <1>0, <1>1 DEF Land, RunTypeOK, chargeVars, queueVars
  <2>2. log[r] \in Final => log'[r] \in Final
    BY <2>1
  <2>3. ASSUME NEW k \in 1 .. MaxExec, LogFollows(<<r, k>>)
        PROVE  LogFollows(<<r, k>>)'
    <3>1. ResultWrite(<<r, k>>, "log")' = ResultWrite(<<r, k>>, "log")
      BY <2>1 DEF ResultWrite, Outcome
    <3>2. ResultWrite(<<r, k>>, "log").column = "log"
      BY DEF ResultWrite
    <3>3. ResultWrite(<<r, k>>, "log") \in writes
            => ResultWrite(<<r, k>>, "log") \in writes' \/ log'[r] \in Final
      BY <2>1, <3>2
    <3> QED
      BY <1>0, <2>1, <2>2, <2>3, <3>1, <3>3 DEF LogFollows
  <2> QED
    BY <2>1, <2>2, <2>3 DEF JobPlace
<1>2. CASE Lose(w) /\ pc[w.proc] = "persisting" /\ w.by = "persistResult"
  <2>1. w.proc[2] # 0
    BY <1>0, <1>2, HandlerProc
  <2>2. Goto(w.proc, "done") /\ RejectJob(w.proc, FALSE)
    BY <1>2, <2>1 DEF Lose, Throw
  <2>3. HoldsLock(w.proc) /\ job[r] = "active"
    BY <1>0, <1>2, <2>1, AtWork
  <2>4. job'[r] # "completed"
    BY <1>0, <2>2, <2>3 DEF RejectJob, RunTypeOK
  <2> QED
    BY <1>0, <1>2, <2>1, <2>2, <2>4, EndedPlace
<1>3. CASE Lose(w) /\ ~(pc[w.proc] = "persisting" /\ w.by = "persistResult")
  <2>1. /\ writes' = writes \ {w}
        /\ UNCHANGED <<pc, result, job, stalls, starts, agentExists, log>>
    BY <1>3 DEF Lose, chargeVars, queueVars
  <2>2. ASSUME NEW k \in 1 .. MaxExec, LogFollows(<<r, k>>)
        PROVE  LogFollows(<<r, k>>)'
    <3>1. ResultWrite(<<r, k>>, "log")' = ResultWrite(<<r, k>>, "log")
      BY <2>1 DEF ResultWrite, Outcome
    <3>2. /\ ResultWrite(<<r, k>>, "log").proc = <<r, k>>
          /\ ResultWrite(<<r, k>>, "log").by = "persistResult"
      BY DEF ResultWrite
    <3>3. pc[<<r, k>>] = "persisting" => ResultWrite(<<r, k>>, "log") # w
      BY <1>3, <3>2
    <3> QED
      BY <1>0, <2>1, <2>2, <3>1, <3>3 DEF LogFollows
  <2> QED
    BY <2>1, <2>2 DEF JobPlace
<1> QED
  BY <1>1, <1>2, <1>3

LEMMA JobPlaceStep ==
  ASSUME Typed, Typed', [Next]_vars, NEW r \in Runs, JobPlace(r)
  PROVE  JobPlace(r)'
<1>1. CASE job[r] = "none"
  BY <1>1, UnaddedPlace
<1>2. CASE job[r] # "none" /\ ~Unreclaimed(r)
  BY <1>2, ReclaimedStays
<1>3. CASE job[r] # "none" /\ Unreclaimed(r)
  <2>0. pc[API(r)] = "done" /\ RunTypeOK
    BY <1>3 DEF Typed, HandlerPlace
  <2>1. CASE JobFrozen(r)
    BY <2>1, JobFrozenPlace
  <2>2. ASSUME NEW p \in Procs, p[1] = r, Step(p)
        PROVE  JobPlace(r)'
    <3>1. p[2] # 0
      <4>1. pc[p] # "done"
        BY <2>2, StepLabel
      <4> QED
        BY <2>0, <2>2, <4>1, HandlerProc
    <3> QED
      BY <1>3, <2>2, <3>1, WorkerStepPlace
  <2>3. ASSUME NEW p \in Procs, p[1] # r, Step(p)
        PROVE  JobPlace(r)'
    BY <2>1, <2>3, ElsewhereJobFrozen
  <2>4. CASE Take(r)
    BY <2>4, TakenPlace
  <2>5. CASE Stall(r)
    BY <2>5, StalledPlace
  <2>6. ASSUME NEW p \in Procs, p[1] = r, Crash(p)
        PROVE  JobPlace(r)'
    <3>1. pc[p] \notin {"idle", "done"} /\ Goto(p, "done") /\ UNCHANGED job
      BY <2>6 DEF Crash, Continue, queueVars
    <3>2. p[2] # 0
      BY <2>0, <2>6, <3>1, HandlerProc
    <3>3. job[r] = "active"
      BY <1>3, <2>6, <3>1, <3>2, AtWork
    <3> QED
      BY <1>3, <2>6, <3>1, <3>2, <3>3, EndedPlace
  <2>7. ASSUME NEW w \in writes, w.proc[1] = r, Land(w) \/ Lose(w)
        PROVE  JobPlace(r)'
    BY <1>3, <2>7, JobWritePlace
  <2>8. CASE DeleteAgent
    <3>1. agentExists' = FALSE /\ UNCHANGED <<pc, job, stalls, starts>>
      BY <2>8 DEF DeleteAgent, queueVars
    <3> QED
      BY <3>1 DEF JobPlace, LogFollows
  <2>9. CASE \/ \E q \in Runs : Request(q) \/ Handle(q) \/ (q # r /\ (Take(q) \/ Stall(q)))
             \/ \E p \in Procs : p[1] # r /\ Crash(p)
             \/ \E w \in writes : w.proc[1] # r /\ (Land(w) \/ Lose(w))
             \/ GrantCredits \/ UNCHANGED vars
    BY <1>3, <2>1, <2>9, OutsideJobFrozen
  <2> QED
    BY <2>2, <2>3, <2>4, <2>5, <2>6, <2>7, <2>8, <2>9 DEF Next
<1> QED
  BY <1>1, <1>2, <1>3

-----------------------------------------------------------------------------
Settled == \A r \in Runs : SyncPlace(r) /\ JobPlace(r)

LEMMA SettledInit == Init => Settled
<1> SUFFICES ASSUME Init, NEW r \in Runs
             PROVE  SyncPlace(r) /\ JobPlace(r)
  BY DEF Settled
<1>1. /\ API(r) \in Procs /\ pc[API(r)] = "idle" /\ reply[r] = "none" /\ job[r] = "none"
      /\ writes = {} /\ tallies = {}
  BY ProcsFacts DEF Init
<1> QED
  BY <1>1 DEF SyncPlace, JobPlace, NoWrites, TalliesOf, Unsent

LEMMA SettledInvariant == Spec => []Settled
<1>1. PipelineInv /\ PipelineInv' /\ (Typed /\ Backed) /\ Settled /\ [Next]_vars => Settled'
  <2> SUFFICES ASSUME PipelineInv, PipelineInv', Backed, Settled, [Next]_vars, NEW r \in Runs
               PROVE  SyncPlace(r)' /\ JobPlace(r)'
    BY DEF Settled
  <2>1. Typed /\ Typed' /\ ChargedPlaced /\ SyncPlace(r) /\ JobPlace(r)
    BY DEF PipelineInv, Backed, Settled
  <2> QED
    BY <2>1, SyncPlaceStep, JobPlaceStep
<1> QED
  BY <1>1, SettledInit, PipelineInvariant, BackedInvariant, PTL DEF Spec

(* What an answered synchronous request can rely on, whatever crashes, is  *)
(* lost or lands late: execute answers only after persistResult resolved,  *)
(* and recordAgentRunCharge after it.                                      *)
THEOREM AnswersAreSettled == Spec => []AnsweredRunsSettled
<1>1. PipelineInv /\ Settled => AnsweredRunsSettled
  <2> SUFFICES ASSUME PipelineInv, Settled, NEW r \in Runs,
                      mode[r] = "sync", reply[r] = "ok", agentExists
               PROVE  /\ log[r] = Outcome(API(r))
                      /\ TalliesOf(API(r)) = {ResultTally(API(r))}
                      /\ API(r) \in invoices <=> Billed(API(r))
                      /\ API(r) \in payouts <=> Billed(API(r))
    BY DEF AnsweredRunsSettled, Outcome, ResultTally, Billed, API
  <2> QED
    BY DEF Settled, SyncPlace
<1> QED
  BY <1>1, PipelineInvariant, SettledInvariant, PTL

(* A job that completes without having been reclaimed leaves a final log:  *)
(* a retry starts only after its predecessor ended, and completes only     *)
(* after persistResult resolved.                                           *)
THEOREM JobsAreSettled == Spec => []CompletedJobsSettled
<1>1. Settled => CompletedJobsSettled
  BY DEF Settled, JobPlace, CompletedJobsSettled, Final
<1> QED
  BY <1>1, SettledInvariant, PTL

(* The invariant that TLC checks on the small instance, for all of them.   *)
THEOREM RunInvInvariant == Spec => []RunInv
<1>1. PipelineInv /\ Typed /\ Backed /\ Settled => RunInv
  BY DEF PipelineInv, Typed, LogsPlaced, ChargesPlaced, Backed, ChargedPlaced, Settled, RunInv
<1> QED
  BY <1>1, PipelineInvariant, BackedInvariant, SettledInvariant, PTL
=============================================================================
