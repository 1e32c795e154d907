---------------------------- MODULE RunInvariant ----------------------------
(* The inductive invariant of the run pipeline.                            *)
EXTENDS RunPipeline

(* The queue's counters say how often the job was taken, a handler does    *)
(* only what its mode allows, ...                                          *)
QueueCounters(r) ==
  /\ job[r] = "none" => starts[r] = 0 /\ attempts[r] = 0 /\ stalls[r] = 0
  /\ job[r] = "waiting" => starts[r] = attempts[r] + stalls[r] /\ attempts[r] < MaxAttempts
  /\ job[r] = "active" => starts[r] = attempts[r] + stalls[r] + 1 /\ attempts[r] < MaxAttempts
  /\ starts[r] <= attempts[r] + stalls[r] + 1
  /\ \A k \in 1 .. MaxExec : k > starts[r] => pc[<<r, k>>] = "idle"

HandlerPlace(r) ==
  /\ mode[r] = "none" => pc[API(r)] = "idle"
  /\ mode[r] = "queued" => pc[API(r)] \in {"create", "add", "done"}
  /\ mode[r] = "sync" => pc[API(r)] \notin {"idle", "add"}
  /\ mode[r] # "queued" \/ pc[API(r)] # "done" => job[r] = "none"
  /\ pc[API(r)] # "load"
  /\ \A k \in 1 .. MaxExec :
       pc[<<r, k>>] \notin {"deduct", "deducting", "create", "add", "failing", "failpersist"}

(* ... what was charged follows from where the handler is, ...             *)
Charged(r) ==
  /\ mode[r] # "sync" => paid[r] = 0
  /\ pc[API(r)] \in {"deduct", "deducting"} => paid[r] = 0 /\ CostOf[r] > 0
  /\ reply[r] # "none" => pc[API(r)] = "done"
  /\ /\ mode[r] = "sync"
     /\ \/ pc[API(r)] \notin {"deduct", "deducting", "done"}
        \/ \E w \in writes : w.proc[1] = r
     => paid[r] = CostOf[r]

(* ... a run nothing has executed yet has an open log, if any, ...         *)
Unexecuted(r) ==
  \/ pc[API(r)] \in {"idle", "deduct", "deducting", "create", "add", "mark"}
  \/ /\ mode[r] = "queued"
     /\ starts[r] = 0 \/ (starts[r] = 1 /\ pc[<<r, 1>>] \in {"load", "mark"})

LogPlace(r) ==
  /\ pc[API(r)] \in {"idle", "deduct", "deducting", "create"} => log[r] = "NONE"
  /\ Unexecuted(r) => log[r] \in {"NONE", "PENDING"} /\ \A w \in writes : w.proc[1] # r

(* ... and money moves only forward along the path of an execution.        *)
Paying == {"payout", "finish", "failing", "failpersist", "done"}

ChargePlace(p) ==
  /\ result[p] => p \in wins
  /\ pc[p] = "invoice" => result[p]
  /\ pc[p] = "payout" => p \in invoices
  /\ p \in wins => pc[p] \in {"persist", "persisting", "invoice"} \cup Paying
  /\ p \in invoices => pc[p] \in Paying
  /\ p \in payouts => pc[p] \in Paying \ {"payout"}

(* ... what a synchronous run has written, counted and charged follows     *)
(* from where its handler is, until it is answered, ...                    *)
Outcome(p)     == IF result[p] THEN "COMPLETED" ELSE "FAILED"
ResultWrite(p, column) ==
  [proc |-> p, column |-> column, val |-> Outcome(p), by |-> "persistResult"]
ResultTally(p) == [proc |-> p, success |-> result[p], by |-> "persistResult"]
Billed(p)      == result[p] /\ p[1] \in Billable
NoWrites(p)    == \A w \in writes : w.proc # p

Landing(p) ==
  /\ \A w \in writes : w.proc = p => w.val = Outcome(p) /\ w.by = "persistResult"
  /\ agentExists =>
       /\ ResultWrite(p, "log") \in writes \/ log[p[1]] = Outcome(p)
       /\ TalliesOf(p) = IF ResultWrite(p, "stats") \in writes THEN {} ELSE {ResultTally(p)}

Unsent == {"idle", "deduct", "deducting", "create", "mark", "dispatch", "persist"}

SyncPlace(r) ==
  LET p == API(r) IN
  mode[r] # "queued" =>
    /\ \A w \in writes : w.proc[1] = r => w.proc = p
    /\ pc[p] \in Unsent => NoWrites(p) /\ TalliesOf(p) = {}
    /\ pc[p] = "persisting" => Landing(p)
    /\ pc[p] \in {"invoice", "payout", "finish"} \/ reply[r] = "ok" =>
         /\ NoWrites(p)
         /\ agentExists => log[r] = Outcome(p) /\ TalliesOf(p) = {ResultTally(p)}
    /\ pc[p] \in {"invoice", "payout"} => Billed(p)
    /\ (pc[p] = "finish" \/ reply[r] = "ok") /\ agentExists =>
         (p \in invoices <=> Billed(p)) /\ (p \in payouts <=> Billed(p))

(* ... and a job that was never reclaimed has one execution at a time,     *)
(* whose result is in the log, or on its way, once it is persisted.        *)
Final == {"COMPLETED", "FAILED"}

LogFollows(p) ==
  agentExists =>
    /\ pc[p] = "persisting" => log[p[1]] \in Final \/ ResultWrite(p, "log") \in writes
    /\ pc[p] \in {"invoice", "payout", "finish"} => log[p[1]] \in Final

JobPlace(r) ==
  stalls[r] = 0 /\ job[r] \in {"waiting", "active", "completed"} =>
    /\ \A k \in 1 .. MaxExec :
         \/ pc[<<r, k>>] \in {"idle", "done"}
         \/ job[r] = "active" /\ k = starts[r] /\ LogFollows(<<r, k>>)
    /\ job[r] = "completed" /\ agentExists => log[r] \in Final

(* The inductive invariant of Spec: the places of handlers and executions, *)
(* the queue's counters, what was charged and who may invoice agree at     *)
(* every await, whatever failed before.                                    *)
RunInv ==
  /\ RunTypeOK
  /\ \A r \in Runs : QueueCounters(r) /\ HandlerPlace(r) /\ Charged(r) /\ LogPlace(r)
  /\ \A r \in Runs : SyncPlace(r) /\ JobPlace(r)
  /\ \A p \in Procs : ChargePlace(p)
  /\ \A w \in writes : w.val = "COMPLETED" => w.proc \in wins
  /\ \A p \in wins : p[2] = 0 => mode[p[1]] = "sync"
  /\ ChargedOnce /\ ChargesBacked
=============================================================================
