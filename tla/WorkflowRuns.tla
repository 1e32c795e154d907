---------------------------- MODULE WorkflowRuns ----------------------------
(***************************************************************************)
(* One workflow and its runs: a run takes the steps as they were when it   *)
(* began, has the runtime engine execute one after the other, and records  *)
(* how it ended in the run's row and in the workflow's counter.            *)
(***************************************************************************)
EXTENDS Handlers

CONSTANTS
  FlowRuns,  \* ids of WorkflowRun rows, used once each, in their order
  MaxSteps   \* the steps the workflow may have

ASSUME FlowRunsFinite == IsFiniteSet(FlowRuns) /\ FlowRuns \subseteq Nat
ASSUME StepsAreNat    == MaxSteps \in Nat \ {0}

VARIABLES
  flow,      \* the Workflow row: isActive, the number of its steps, runsCount
  flowRuns,  \* WorkflowRun rows: status and the number of stepResults
  done       \* history, per run: the steps it began with, those that completed

flowData == <<flow, flowRuns, done>>
flowVars == <<flowData, handlerVars>>

FlowStatus == {"NONE", "RUNNING", "COMPLETED", "FAILED"}

FlowInit ==
  /\ HandlersInit
  /\ flow = [active |-> TRUE, steps |-> 1, count |-> 0]
  /\ flowRuns = [r \in FlowRuns |-> [status |-> "NONE", results |-> 0]]
  /\ done = [r \in FlowRuns |-> [planned |-> 0, ok |-> 0]]

Rows   == {r \in FlowRuns : flowRuns[r].status # "NONE"}
Unmade == FlowRuns \ Rows

-----------------------------------------------------------------------------
(* update, and the soft delete, check the owner and write by id.           *)

ServeFlow(c) ==
  /\ \/ \E n \in 1 .. MaxSteps : Begin(c, "update", Nobody, n, "own")
     \/ Begin(c, "delete", Nobody, Nobody, "own")
     \/ Begin(c, "run", Nobody, Nobody, "load")
  /\ UNCHANGED flowData

FindFlow(c) ==
  /\ At(c, "own") /\ flow.active
  /\ Goto(c, "write")
  /\ Steady /\ UNCHANGED flowData

WriteFlow(c) ==
  /\ At(c, "write")
  /\ flow' = IF Is(c, {"delete"}) THEN [flow EXCEPT !.active = FALSE]
             ELSE [flow EXCEPT !.steps = call[c].arg]
  /\ Answer(c)
  /\ Steady /\ UNCHANGED <<flowRuns, done>>

-----------------------------------------------------------------------------
(* run.  seen.run is the row, seen.left the steps to go, seen.results the  *)
(* step results in memory.                                                 *)

(* The caller owns the workflow, it is public, or a grant is found.        *)
LoadFlow(c) ==
  /\ At(c, "load") /\ flow.active
  /\ Note(c, "record", [run |-> 0, left |-> flow.steps, results |-> 0])
  /\ Steady /\ UNCHANGED flowData

RecordFlow(c) ==
  /\ At(c, "record")
  /\ \E r \in Unmade :
       /\ \A q \in Unmade : r <= q
       /\ flowRuns' = [flowRuns EXCEPT ![r].status = "RUNNING"]
       /\ done' = [done EXCEPT ![r].planned = call[c].seen.left]
       /\ call' = [call EXCEPT ![c].at = "agent", ![c].seen.run = r]
  /\ Steady /\ UNCHANGED flow

(* The agent of the step, which may have gone: that throws into the catch. *)
FindStepAgent(c) ==
  /\ At(c, "agent")
  /\ \E found \in BOOLEAN : Goto(c, IF found THEN "execute" ELSE "catch")
  /\ Steady /\ UNCHANGED flowData

(* The engine answers that the step completed or failed, or it throws.     *)
(* Slip: a step that failed is passed over.                                *)
NeverAborts(outcome) == FALSE
Aborts(outcome) == outcome = "FAILED"

ExecuteStep(c) ==
  LET left == call[c].seen.left - 1
  IN /\ At(c, "execute")
     /\ \E outcome \in {"COMPLETED", "FAILED", "throws"} :
          IF outcome = "throws" THEN Goto(c, "catch") /\ UNCHANGED done
          ELSE /\ call' = [call EXCEPT
                    ![c].at = IF Aborts(outcome) THEN "abort"
                              ELSE IF left = 0 THEN "finish" ELSE "agent",
                    ![c].seen.left = left, ![c].seen.results = @ + 1,
                    ![c].todo = IF ~Aborts(outcome) /\ left = 0 THEN {"row", "count"} ELSE {}]
               /\ done' = [done EXCEPT ![call[c].seen.run].ok =
                    IF outcome = "COMPLETED" THEN @ + 1 ELSE @]
     /\ Steady /\ UNCHANGED <<flow, flowRuns>>

Ended(c, status) ==
  [flowRuns EXCEPT ![call[c].seen.run] = [status |-> status, results |-> call[c].seen.results]]
Counted == [flow EXCEPT !.count = @ + 1]

(* After a failed step, and in the catch: the row, then the counter.       *)
MarkFailed(c) ==
  /\ At(c, "abort") \/ At(c, "catch")
  /\ flowRuns' = Ended(c, "FAILED")
  /\ Goto(c, IF At(c, "abort") THEN "tally" ELSE "recount")
  /\ Steady /\ UNCHANGED <<flow, done>>

CountFailed(c) ==
  /\ At(c, "tally") \/ At(c, "recount")
  /\ flow' = Counted
  /\ Answer(c)
  /\ Steady /\ UNCHANGED <<flowRuns, done>>

(* All steps passed: both writes at once, outside the try.                 *)
FinishFlow(c, w) ==
  /\ At(c, "finish") /\ w \in call[c].todo
  /\ flowRuns' = IF w = "row" THEN Ended(c, "COMPLETED") ELSE flowRuns
  /\ flow' = IF w = "count" THEN Counted ELSE flow
  /\ IF call[c].todo = {w} THEN Answer(c) ELSE call' = [call EXCEPT ![c].todo = @ \ {w}]
  /\ Steady /\ UNCHANGED done

-----------------------------------------------------------------------------
(* A check refuses the call, or the read before it rejects.                *)
RefuseFlow(c) ==
  /\ call[c].at \in {"own", "load"}
  /\ Answer(c) /\ Steady /\ UNCHANGED flowData

(* A write inside the try rejects, or it lands and its answer is lost: the *)
(* catch records the failure once more.                                    *)
RejectFlow(c) ==
  /\ At(c, "abort") \/ At(c, "tally")
  /\ faults < MaxFaults /\ faults' = faults + 1
  /\ flow' \in {flow} \cup (IF At(c, "tally") THEN {Counted} ELSE {})
  /\ Goto(c, "catch")
  /\ UNCHANGED <<served, calm, flowRuns, done>>

(* A write outside the try rejects, or the process dies.                   *)
BreakFlow(c) ==
  /\ ~At(c, "idle") /\ Break(c) /\ UNCHANGED flowData

FlowNext ==
  \E c \in Calls :
    \/ ServeFlow(c) \/ FindFlow(c) \/ WriteFlow(c) \/ LoadFlow(c) \/ RecordFlow(c)
    \/ FindStepAgent(c) \/ ExecuteStep(c) \/ MarkFailed(c) \/ CountFailed(c)
    \/ \E w \in {"row", "count"} : FinishFlow(c, w)
    \/ RefuseFlow(c) \/ RejectFlow(c) \/ BreakFlow(c)

FlowSpec == FlowInit /\ [][FlowNext]_flowVars

-----------------------------------------------------------------------------
(* Properties.                                                             *)

(* Types of the rows and the handlers.                                     *)
FlowTypeOK ==
  /\ flow \in [active: BOOLEAN, steps: 1 .. MaxSteps, count: Nat]
  /\ flowRuns \in [FlowRuns -> [status: FlowStatus, results: 0 .. MaxSteps]]
  /\ done \in [FlowRuns -> [planned: 0 .. MaxSteps, ok: 0 .. MaxSteps]]
  /\ \A c \in Calls : call[c].at \in {"idle", "own", "write", "load", "record", "agent", "execute",
                                       "abort", "tally", "catch", "recount", "finish"}

(* However runs, edits and deletions of the workflow overlap: a run is     *)
(* COMPLETED only if every step it began with completed, whatever became   *)
(* of the workflow meanwhile; without a failed await every run that ended  *)
(* has said how and was counted once; and a failed await makes the counter *)
(* miss a run or count one twice, no more.                                 *)
WorkflowRunsSettle ==
  /\ \A r \in Rows :
       /\ flowRuns[r].status = "COMPLETED" => done[r].ok = done[r].planned
                                              /\ flowRuns[r].results = done[r].planned
       /\ flowRuns[r].status = "FAILED" => flowRuns[r].results - done[r].ok \in {0, 1}
  /\ flow.count <= Cardinality(Rows) + faults
  /\ Quiet => Cardinality(Rows) <= flow.count + faults
  /\ Quiet /\ faults = 0 => \A r \in Rows : flowRuns[r].status # "RUNNING"
=============================================================================
