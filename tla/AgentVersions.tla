---------------------------- MODULE AgentVersions ---------------------------
(***************************************************************************)
(* The saved versions of one agent: save, roll back, delete, and the edits *)
(* of the agent that run beside them.                                      *)
(***************************************************************************)
EXTENDS Handlers

CONSTANTS
  Contents,    \* what the versioned fields of the agent may hold
  First,       \* what they hold at first
  VersionIds   \* ids of AgentVersion rows, used once each, in their order

ASSUME FirstIsContent == First \in Contents
ASSUME VersionsFinite == IsFiniteSet(VersionIds) /\ VersionIds \subseteq Nat

VARIABLES
  content,   \* the agent's name, prompt, model, config and tools
  versions,  \* AgentVersion rows; number 0 is a row never made, -1 a deleted one
  lost       \* history: rollbacks that were to save what they overwrite and did not

versionData == <<content, versions, lost>>
versionVars == <<versionData, handlerVars>>

VersionRow == [number: Nat \cup {-1}, content: Contents]
Saved == {v \in VersionIds : versions[v].number > 0}
Blank == {v \in VersionIds : versions[v].number = 0}
Numbers == {versions[v].number : v \in Saved}

VersionInit ==
  /\ HandlersInit
  /\ content = First
  /\ versions = [v \in VersionIds |-> [number |-> 0, content |-> First]]
  /\ lost = 0

(* findLatestNumber: the highest of the rows there are, 0 without any.     *)
LatestNumber ==
  IF Numbers = {} THEN 0 ELSE CHOOSE n \in Numbers : \A m \in Numbers : m <= n

ServeVersion(c) ==
  /\ \/ Begin(c, "save", Nobody, Nobody, "agent")
     \/ \E v \in VersionIds, op \in {"rollback", "rollbackOnly", "delete"} :
          versions[v].number # 0 /\ Begin(c, op, Nobody, v, "agent")
     \/ \E x \in Contents : Begin(c, "edit", Nobody, x, "agent")
  /\ UNCHANGED versionData

(* assertOwner reads the agent: what it holds now is what will be saved.   *)
ReadAgent(c) ==
  /\ At(c, "agent")
  /\ Note(c, CASE Is(c, {"save"}) -> "number" [] Is(c, {"edit"}) -> "write" [] OTHER -> "version",
             [content |-> content, number |-> 0])
  /\ Steady /\ UNCHANGED versionData

(* Slip: a rollback that is to save the agent first does not.              *)
SavesNothing(op) == FALSE
SavesFirst(op) == op = "rollback"

FindVersion(c) ==
  /\ At(c, "version") /\ call[c].arg \in Saved
  /\ Goto(c, CASE Is(c, {"delete"}) -> "delete" [] SavesFirst(call[c].op) -> "number"
               [] OTHER -> "write")
  /\ Steady /\ UNCHANGED versionData

ReadNumber(c) ==
  /\ At(c, "number")
  /\ Note(c, "insert", [call[c].seen EXCEPT !.number = LatestNumber])
  /\ Steady /\ UNCHANGED versionData

(* A number another call has taken meanwhile is refused by the index.      *)
InsertVersion(c) ==
  LET next == call[c].seen.number + 1
  IN /\ At(c, "insert") /\ next \notin Numbers
     /\ \E v \in Blank :
          /\ \A w \in Blank : v <= w
          /\ versions' = [versions EXCEPT ![v] = [number |-> next, content |-> call[c].seen.content]]
     /\ IF Is(c, {"save"}) THEN Answer(c) ELSE Goto(c, "write")
     /\ Steady /\ UNCHANGED <<content, lost>>

(* The row that findVersion returned is written whole, or the edit.        *)
WriteContent(c) ==
  /\ At(c, "write")
  /\ content' = IF Is(c, {"edit"}) THEN call[c].arg ELSE versions[call[c].arg].content
  /\ lost' = IF Is(c, {"rollback"}) /\ \A v \in Saved : versions[v].content # content
             THEN lost + 1 ELSE lost
  /\ Answer(c) /\ Steady /\ UNCHANGED versions

DeleteVersion(c) ==
  /\ At(c, "delete") /\ call[c].arg \in Saved
  /\ versions' = [versions EXCEPT ![call[c].arg].number = -1]
  /\ Answer(c) /\ Steady /\ UNCHANGED <<content, lost>>

(* A check or the index refuses the call, or the read before it rejects.   *)
RefuseVersion(c) ==
  /\ call[c].at \in {"agent", "version", "number", "insert", "delete"}
  /\ Answer(c) /\ Steady /\ UNCHANGED versionData

BreakVersion(c) ==
  /\ ~At(c, "idle") /\ Break(c) /\ UNCHANGED versionData

VersionNext ==
  \E c \in Calls :
    \/ ServeVersion(c) \/ ReadAgent(c) \/ FindVersion(c) \/ ReadNumber(c) \/ InsertVersion(c)
    \/ WriteContent(c) \/ DeleteVersion(c) \/ RefuseVersion(c) \/ BreakVersion(c)

VersionSpec == VersionInit /\ [][VersionNext]_versionVars

-----------------------------------------------------------------------------
(* Properties.                                                             *)

(* Types of the rows and the handlers.                                     *)
VersionTypeOK ==
  /\ content \in Contents /\ lost \in Nat
  /\ versions \in [VersionIds -> VersionRow]
  /\ \A c \in Calls : call[c].at \in {"idle", "agent", "version", "number", "insert", "write",
                                       "delete"}

(* rollback saves what it read of the agent and later overwrites what is   *)
(* there: as long as no other call runs meanwhile, what a rollback that    *)
(* saves first overwrites is a version.                                    *)
RollbacksLoseNothing == calm => lost = 0
=============================================================================
