---------------------------- MODULE MCRunsPages ----------------------------
(* Runs of one agent of another user, all paid by one wallet, or one of    *)
(* the parts of the browser: they share no state, one of them is in use in *)
(* each behaviour, and the run checks the sum of their state spaces.       *)
EXTENDS RunPipeline, AgentRunner, ApiClient, WorkflowCanvas, QueryCache, TLC
LOCAL INSTANCE FiniteSetsExt

CONSTANTS r1, r2, u,
          MaxEdits   \* bound: edges drawn and nodes deleted, over the workflows

VARIABLE subject   \* the part that is in use

OneWallet == [r \in Requests |-> u]
OneCredit == [r \in Requests |-> 1]

Alike == Permutations(ChangeIds)

(* Bound: the runs are not queued (a queued run touches no wallet).        *)
Synchronous == \A r \in Requests : mode[r] # "queued"

EditCount == MapThenSumSet(LAMBDA w : Cardinality(drawn[w]) + Cardinality(deleted[w]), Canvases)

(* The parts that are not in use start from one state.                     *)
PartsInit ==
  /\ subject \in {"runs", "runner", "client", "canvas", "queries"}
  /\ Init
  /\ RunnerInit /\ ClientInit /\ CanvasInit /\ QueryInit
  /\ subject # "queries" => entry = "agent"

(* The parts that are not in use.                                          *)
Rest(part) ==
  /\ part # "runs" => UNCHANGED vars
  /\ part # "runner" => UNCHANGED runnerVars
  /\ part # "client" => UNCHANGED clientVars
  /\ part # "canvas" => UNCHANGED canvasVars
  /\ part # "queries" => UNCHANGED queryVars

PartsNext ==
  /\ UNCHANGED subject
  /\ \/ subject = "runs" /\ Next /\ Synchronous'
     \/ subject = "runner" /\ RunnerNext
     \/ subject = "client" /\ ClientNext
     \/ subject = "canvas" /\ CanvasNext /\ EditCount' <= MaxEdits
     \/ subject = "queries" /\ QueryNext
  /\ Rest(subject)

PartsSpec == PartsInit /\ [][PartsNext]_<<subject, vars, runnerVars, clientVars, canvasVars,
                                         queryVars>>
=============================================================================
