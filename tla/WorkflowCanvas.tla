--------------------------- MODULE WorkflowCanvas ---------------------------
(***************************************************************************)
(* The collaboration page: a list of workflows in the browser's memory,    *)
(* the canvas that edits the one that is shown, and the mock run of one.   *)
(* Every change replaces a whole workflow by a copy of the one the handler *)
(* was rendered with; a run keeps its copy from its start to its end.      *)
(* A position, a label or a description is no part of the model.           *)
(***************************************************************************)
EXTENDS Integers, FiniteSets

CONSTANTS
  Nothing,   \* no workflow shown, no node selected
  Canvases,  \* ids of workflows, used once each
  NodeIds,   \* ids of nodes, used once each
  TheFirst,  \* the mock workflow the page opens with
  ItsNode,   \* and its node
  MaxRuns    \* bound: runs that are started

ASSUME CanvasIds == Nothing \notin Canvases \cup NodeIds
ASSUME MockData  == TheFirst \in Canvases /\ ItsNode \in NodeIds
ASSUME RunsAreNat == MaxRuns \in Nat

VARIABLES
  flows,     \* the list: the workflows by id
  shown,     \* selectedId
  picked,    \* selectedNodeId
  drawing,   \* the node an edge is being drawn from
  isRunning, \* a run is in progress
  underway,  \* the runs: workflow and copy
  issued,    \* ids that have been given to workflows and nodes
  placed,    \* history, per workflow: the nodes put on it
  drawn,     \* history, per workflow: the edges drawn on it
  deleted,   \* history, per workflow: the nodes deleted from it by a click
  ended,     \* history, per workflow: its runs that ended
  takenBack  \* history: workflows of which a run's end has undone an edit

edits == <<placed, drawn, deleted>>
canvasVars == <<flows, shown, picked, drawing, isRunning, underway, issued, edits, ended, takenBack>>

FlowRecord  == [made: BOOLEAN, running: BOOLEAN, runs: Nat, nodes: SUBSET NodeIds,
           edges: SUBSET (NodeIds \X NodeIds)]
NoFlow == [made |-> FALSE, running |-> FALSE, runs |-> 0, nodes |-> {}, edges |-> {}]

Made == {w \in Canvases : flows[w].made}

(* One workflow of the mock data, with one node, is shown.                 *)
CanvasInit ==
  LET mock == [NoFlow EXCEPT !.made = TRUE, !.nodes = {ItsNode}]
  IN /\ flows = [w \in Canvases |-> IF w = TheFirst THEN mock ELSE NoFlow]
     /\ shown = TheFirst /\ issued = {TheFirst, ItsNode}
     /\ placed = [w \in Canvases |-> flows[w].nodes]
     /\ drawn = [w \in Canvases |-> {}] /\ deleted = [w \in Canvases |-> {}]
     /\ picked = Nothing /\ drawing = Nothing
     /\ isRunning = FALSE /\ underway = {}
     /\ ended = [w \in Canvases |-> 0] /\ takenBack = {}

-----------------------------------------------------------------------------
(* The list.                                                               *)

Free == drawing = Nothing   \* the mouse is not held on a port

Create(w) ==
  /\ Free /\ w \notin issued
  /\ issued' = issued \cup {w}
  /\ flows' = [flows EXCEPT ![w] = [NoFlow EXCEPT !.made = TRUE]]
  /\ shown' = w /\ picked' = Nothing
  /\ UNCHANGED <<drawing, isRunning, underway, edits, ended, takenBack>>

(* A clone is a copy that has not been run; the selected node stays so.    *)
Duplicate(w, clone) ==
  /\ Free /\ w \in Made /\ clone \notin issued
  /\ issued' = issued \cup {clone}
  /\ flows' = [flows EXCEPT ![clone] = [flows[w] EXCEPT !.running = FALSE, !.runs = 0]]
  /\ placed' = [placed EXCEPT ![clone] = flows[w].nodes]
  /\ drawn' = [drawn EXCEPT ![clone] = flows[w].edges]
  /\ takenBack' = IF w \in takenBack THEN takenBack \cup {clone} ELSE takenBack
  /\ shown' = clone
  /\ UNCHANGED <<picked, drawing, isRunning, underway, deleted, ended>>

Delete(w) ==
  /\ Free /\ w \in Made
  /\ flows' = [flows EXCEPT ![w] = NoFlow]
  /\ IF shown # w THEN UNCHANGED shown
     ELSE IF Made = {w} THEN shown' = Nothing ELSE shown' \in Made \ {w}
  /\ UNCHANGED <<picked, drawing, isRunning, underway, issued, edits, ended, takenBack>>

Select(w) ==
  /\ Free /\ w \in Made
  /\ shown' = w /\ picked' = Nothing
  /\ UNCHANGED <<flows, drawing, isRunning, underway, issued, edits, ended, takenBack>>

-----------------------------------------------------------------------------
(* The canvas of the workflow that is shown.                               *)

Rendered == flows[shown]

(* handleNodesChange and handleEdgesChange put what was rendered, with     *)
(* other nodes or with other edges, in the place of what is in the list.   *)
WithNodes(list, nodes) == [list EXCEPT ![shown] = [Rendered EXCEPT !.nodes = nodes]]
WithEdges(list, edges) == [list EXCEPT ![shown] = [Rendered EXCEPT !.edges = edges]]

PickNode(n) ==
  /\ Free /\ shown # Nothing /\ n \in Rendered.nodes \cup {Nothing}
  /\ picked' = n
  /\ UNCHANGED <<flows, shown, drawing, isRunning, underway, issued, edits, ended, takenBack>>

AddNode(n) ==
  /\ Free /\ shown # Nothing /\ n \notin issued
  /\ issued' = issued \cup {n}
  /\ flows' = WithNodes(flows, Rendered.nodes \cup {n})
  /\ placed' = [placed EXCEPT ![shown] = @ \cup {n}]
  /\ UNCHANGED <<shown, picked, drawing, isRunning, underway, drawn, deleted, ended, takenBack>>

(* deleteSelected: both changes are made from what was rendered, so that   *)
(* the second brings back the node the first has removed.                  *)
DeleteSelected ==
  /\ Free /\ shown # Nothing /\ picked # Nothing
  /\ flows' = WithEdges(WithNodes(flows, Rendered.nodes \ {picked}),
                        {e \in Rendered.edges : e[1] # picked /\ e[2] # picked})
  /\ picked' = Nothing
  /\ deleted' = [deleted EXCEPT ![shown] = @ \cup {picked}]
  /\ UNCHANGED <<shown, drawing, isRunning, underway, issued, placed, drawn, ended, takenBack>>

StartEdge(n) ==
  /\ Free /\ shown # Nothing /\ n \in Rendered.nodes
  /\ drawing' = n
  /\ UNCHANGED <<flows, shown, picked, isRunning, underway, issued, edits, ended, takenBack>>

(* The mouse is let go on a node's port; an edge to its own node is none.  *)
EndEdge(n) ==
  /\ ~Free /\ n \in Rendered.nodes
  /\ IF drawing = n THEN UNCHANGED <<flows, drawn>>
     ELSE /\ flows' = WithEdges(flows, Rendered.edges \cup {<<drawing, n>>})
          /\ drawn' = [drawn EXCEPT ![shown] = @ \cup {<<drawing, n>>}]
  /\ drawing' = Nothing
  /\ UNCHANGED <<shown, picked, isRunning, underway, issued, placed, deleted, ended, takenBack>>

DropEdge ==
  /\ ~Free /\ drawing' = Nothing
  /\ UNCHANGED <<flows, shown, picked, isRunning, underway, issued, edits, ended, takenBack>>

-----------------------------------------------------------------------------
(* handleRun, from the canvas or from the list, where the workflow that is *)
(* run is the one that was shown, and not the one that was clicked.        *)

(* Slip: a second run may start.                                           *)
AnyRun   == TRUE
MayStart == ~isRunning

BeginRun ==
  /\ Rendered.runs < MaxRuns
  /\ isRunning' = TRUE /\ underway' = underway \cup {[of |-> shown, copy |-> Rendered]}
  /\ flows' = [flows EXCEPT ![shown] = [Rendered EXCEPT !.running = TRUE]]

RunShown ==
  /\ Free /\ shown # Nothing /\ MayStart /\ BeginRun
  /\ UNCHANGED <<shown, picked, drawing, issued, edits, ended, takenBack>>

RunListed(w) ==
  /\ Free /\ w \in Made
  /\ shown' = w
  /\ IF shown # Nothing /\ MayStart THEN BeginRun ELSE UNCHANGED <<flows, isRunning, underway>>
  /\ UNCHANGED <<picked, drawing, issued, edits, ended, takenBack>>

(* The end of a run puts its copy, run once more, in the place of what the *)
(* workflow has become, if it is still there.  The mock run never fails.   *)
EndRun(run) ==
  LET w == run.of
      undone == \/ flows[w].nodes # run.copy.nodes \/ flows[w].edges # run.copy.edges
  IN /\ isRunning' = FALSE /\ underway' = underway \ {run}
     /\ IF flows[w].made
        THEN /\ flows' = [flows EXCEPT ![w] =
                  [run.copy EXCEPT !.running = FALSE, !.runs = @ + 1]]
             /\ ended' = [ended EXCEPT ![w] = @ + 1]
             /\ takenBack' = IF undone THEN takenBack \cup {w} ELSE takenBack
        ELSE UNCHANGED <<flows, ended, takenBack>>
     /\ UNCHANGED <<shown, picked, drawing, issued, edits>>

CanvasNext ==
  \/ \E w \in Canvases : \/ Create(w) \/ Delete(w) \/ Select(w) \/ RunListed(w)
                         \/ \E clone \in Canvases : Duplicate(w, clone)
  \/ \E n \in NodeIds : AddNode(n) \/ StartEdge(n) \/ EndEdge(n)
  \/ \E n \in NodeIds \cup {Nothing} : PickNode(n)
  \/ DeleteSelected \/ DropEdge \/ RunShown
  \/ \E run \in underway : EndRun(run)

CanvasSpec == CanvasInit /\ [][CanvasNext]_canvasVars

-----------------------------------------------------------------------------
(* Properties.                                                             *)

(* Types of the page's state.                                              *)
CanvasTypeOK ==
  /\ flows \in [Canvases -> FlowRecord]
  /\ shown \in Made \cup {Nothing} /\ picked \in NodeIds \cup {Nothing}
  /\ drawing \in NodeIds \cup {Nothing} /\ (drawing # Nothing => shown # Nothing)
  /\ isRunning \in BOOLEAN /\ underway \subseteq [of: Canvases, copy: FlowRecord]
  /\ issued \subseteq Canvases \cup NodeIds
  /\ placed \in [Canvases -> SUBSET NodeIds] /\ deleted \in [Canvases -> SUBSET NodeIds]
  /\ drawn \in [Canvases -> SUBSET (NodeIds \X NodeIds)]
  /\ ended \in [Canvases -> Nat] /\ takenBack \subseteq Canvases

(* The edges that were drawn between nodes nobody has deleted.             *)
Standing(w) == {e \in drawn[w] : e[1] \notin deleted[w] /\ e[2] \notin deleted[w]}

(* Whatever is clicked while a run is in progress, a workflow that is      *)
(* shown as running is being run, each run that ends is counted once, and  *)
(* unless the end of a run has undone an edit, nothing that was put on a   *)
(* workflow goes unless it or its node was deleted, nothing else appears,  *)
(* and no edge is without its nodes.                                       *)
OnlyRunsTakeBack ==
  \A w \in Made :
    /\ flows[w].running => isRunning /\ \E run \in underway : run.of = w
    /\ flows[w].runs = ended[w]
    /\ w \notin takenBack =>
         /\ placed[w] \ deleted[w] \subseteq flows[w].nodes /\ flows[w].nodes \subseteq placed[w]
         /\ Standing(w) \subseteq flows[w].edges /\ flows[w].edges \subseteq drawn[w]
         /\ flows[w].edges \subseteq flows[w].nodes \X flows[w].nodes

(* "Delete selected": the node the button was clicked for is gone, unless  *)
(* the end of a run has undone the click.                                  *)
DeletedNodesGo ==
  \A w \in Made \ takenBack : flows[w].nodes \cap deleted[w] = {}
=============================================================================
