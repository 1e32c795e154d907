---------------------------- MODULE AgentProofs -----------------------------
(***************************************************************************)
(* Agents, for every number of calls and faults: their versions, the       *)
(* sessions of their owners, the workflows and the rights they run under,  *)
(* the answers cached for them, and the loop of a run.                     *)
(***************************************************************************)
EXTENDS HandlerProofs, AgentVersions, Sessions, WorkflowRuns, AgentAccess, AdapterCache, AgentLoop

USE ServedIsNat, FirstIsContent, VersionsFinite, PasswordsAreNone, SecondsAreNat, StepsAreNat,
    FlowRunsFinite, PeopleFinite, TeamsAreTeams, TicksAreNat

(* Versions and rollbacks.                                                 *)

(* A finite set of integers has a maximum: a smallest subset without one   *)
(* would lose nothing with one element.                                    *)
LEMMA HasMaximum ==
  ASSUME NEW S, IsFiniteSet(S), S \subseteq Int, S # {}
  PROVE  \E n \in S : \A m \in S : m <= n
<1> DEFINE Max(T) == \E n \in T : \A m \in T : m <= n
           Bad == {T \in SUBSET S : T # {} /\ ~Max(T)}
<1>1. SUFFICES ASSUME Bad # {} PROVE FALSE
  OBVIOUS
<1>2. IsWellFoundedOn(StrictSubsetOrdering(S), SUBSET S)
  BY FS_StrictSubsetOrderingWellFounded, FS_FiniteSubsetsOfFinite
<1>3. PICK T \in Bad : \A U \in Bad : ~(<<U, T>> \in StrictSubsetOrdering(S))
  <2> HIDE DEF Bad
  <2>1. Bad \subseteq SUBSET S
    BY DEF Bad
  <2> QED
    BY <1>1, <1>2, <2>1, WFMin
<1>4. PICK x \in T : x \in Int
  OBVIOUS
<1>5. T \ {x} \notin Bad
  BY <1>3, <1>4 DEF StrictSubsetOrdering
<1>6. CASE T \ {x} = {}
  BY <1>3, <1>4, <1>6
<1>7. CASE T \ {x} # {}
  <2>1. PICK n \in T \ {x} : \A m \in T \ {x} : m <= n
    BY <1>3, <1>5, <1>7
  <2>2. n \in Int /\ \A m \in T : m \in Int
    BY <1>3
  <2>3. \A m \in T : m <= (IF n <= x THEN x ELSE n)
    BY <1>4, <2>1, <2>2
  <2> QED
    BY <1>3, <1>4, <2>1, <2>3
<1> QED
  BY <1>6, <1>7


VersionOps == {"save", "rollback", "rollbackOnly", "delete", "edit"}

(* What a handler has of its input, and of the agent when it read it.      *)
VersionCarries(r) ==
  /\ r.at \in {"idle", "agent", "version", "number", "insert", "write", "delete"}
  /\ r.at # "idle" => r.op \in VersionOps
  /\ r.op \in {"rollback", "rollbackOnly", "delete"} => r.arg \in VersionIds
  /\ r.op = "edit" => r.arg \in Contents
  /\ r.at = "version" => r.op \in {"rollback", "rollbackOnly", "delete"}
  /\ r.at \in {"number", "insert"} => r.op \in {"save", "rollback"}
  /\ r.at = "write" => r.op \in {"rollback", "rollbackOnly", "edit"}
  /\ r.at \in {"version", "number", "insert"} => r.seen \in [content: Contents, number: Nat]

(* A rollback that is to save what it overwrites: until it has, what it    *)
(* read is what the agent holds; afterwards a version holds it.            *)
Preserves(r) ==
  r.op = "rollback" =>
    /\ r.at \in {"version", "number", "insert"} => r.seen.content = content
    /\ r.at = "write" => \E v \in Saved : versions[v].content = content

VersionInv ==
  /\ Shaped /\ Alone /\ calm \in BOOLEAN /\ VersionTypeOK
  /\ \A c \in Calls : VersionCarries(call[c])
  /\ calm => lost = 0 /\ \A c \in Calls : Preserves(call[c])

LEMMA NoCallCarriesVersion == VersionCarries(NoCall) /\ Preserves(NoCall) /\ NoCall.at = "idle"
  BY DEF NoCall, VersionCarries, Preserves

LEMMA LatestIsNat == versions \in [VersionIds -> VersionRow] => LatestNumber \in Nat
<1> SUFFICES ASSUME versions \in [VersionIds -> VersionRow], Numbers # {} PROVE LatestNumber \in Nat
  BY DEF LatestNumber
<1>1. Numbers \subseteq Nat
  <2>1. ASSUME NEW v \in Saved PROVE versions[v].number \in Nat
    BY <2>1 DEF Saved, VersionRow
  <2> QED
    BY <2>1 DEF Numbers
<1>2. IsFiniteSet(Saved)
  BY FS_Subset DEF Saved
<1>3. IsFiniteSet(Numbers)
  <2> DEFINE f == [v \in Saved |-> versions[v].number]
  <2>1. f \in Surjection(Saved, Numbers)
    BY DEF Surjection, Numbers
  <2> QED
    BY <1>2, <2>1, FS_Surjection
<1>4. \E n \in Numbers : \A m \in Numbers : m <= n
  <2>1. Numbers \subseteq Int /\ Numbers # {}
    BY <1>1
  <2> QED
    BY <1>3, <2>1, HasMaximum
<1>5. LatestNumber \in Numbers
  BY <1>4 DEF LatestNumber
<1> QED
  BY <1>1, <1>5

(* A handler that moves, and leaves the rows alone.                        *)
LEMMA VersionMoves ==
  ASSUME VersionInv, NEW c \in Calls, Shaped', \A d \in Calls \ {c} : call'[d] = call[d],
         ~At(c, "idle"), UNCHANGED <<versionData, calm>>, VersionCarries(call'[c]),
         calm => Preserves(call'[c])
  PROVE  VersionInv'
<1>1. content' = content /\ versions' = versions /\ lost' = lost /\ calm' = calm
  BY DEF versionData
<1>2. Saved' = Saved
  BY <1>1 DEF Saved
<1>3. Alone'
  BY <1>1, AloneMoves DEF VersionInv
<1>4. \A d \in Calls : VersionCarries(call'[d])
  BY DEF VersionInv
<1>5. calm' => lost' = 0 /\ \A d \in Calls : Preserves(call[d])'
  BY <1>1, <1>2 DEF VersionInv, Preserves
<1>6. VersionTypeOK'
  BY <1>1, <1>4 DEF VersionInv, VersionTypeOK, VersionCarries
<1> QED
  BY <1>1, <1>3, <1>4, <1>5, <1>6 DEF VersionInv

LEMMA ServeVersionKeeps == ASSUME VersionInv, NEW c \in Calls, ServeVersion(c) PROVE VersionInv'
<1>1. PICK op, x :
        /\ op \in VersionOps
        /\ Begin(c, op, Nobody, x, "agent") /\ UNCHANGED versionData
        /\ op \in {"rollback", "rollbackOnly", "delete"} => x \in VersionIds
        /\ op = "edit" => x \in Contents
  BY DEF ServeVersion, VersionOps
<1>2. /\ Shaped' /\ \A d \in Calls \ {c} : call'[d] = call[d]
      /\ call'[c].at = "agent" /\ call'[c].op = op /\ call'[c].arg = x
      /\ calm' = (calm /\ \A d \in Calls : At(d, "idle"))
  BY <1>1, BeginMoves DEF VersionInv
<1>3. content' = content /\ versions' = versions /\ lost' = lost
  BY <1>1 DEF versionData
<1>4. \A d \in Calls : VersionCarries(call'[d])
  BY <1>1, <1>2 DEF VersionInv, VersionCarries
<1>5. Alone' /\ calm' \in BOOLEAN
  BY <1>2, AloneBegins DEF VersionInv
<1>6. Saved' = Saved
  BY <1>3 DEF Saved
<1>7. calm' => lost' = 0 /\ \A d \in Calls : Preserves(call[d])'
  BY <1>2, <1>3, <1>6 DEF VersionInv, Preserves
<1>8. VersionTypeOK'
  BY <1>3, <1>4 DEF VersionInv, VersionTypeOK, VersionCarries
<1> QED
  BY <1>2, <1>4, <1>5, <1>7, <1>8 DEF VersionInv

(* What the agent holds is what the handler notes.                         *)
LEMMA ReadAgentKeeps == ASSUME VersionInv, NEW c \in Calls, ReadAgent(c) PROVE VersionInv'
<1> DEFINE l == CASE Is(c, {"save"}) -> "number" [] Is(c, {"edit"}) -> "write" [] OTHER -> "version"
           x == [content |-> content, number |-> 0]
<1>1. /\ call[c].at = "agent" /\ VersionCarries(call[c]) /\ Shaped /\ Note(c, l, x)
      /\ UNCHANGED <<versionData, calm>>
  BY DEF ReadAgent, At, VersionInv, Steady
<1>2. /\ x \in [content: Contents, number: Nat] /\ x.content = content
  BY DEF VersionInv, VersionTypeOK
<1>3. call[c].op \in VersionOps
  BY <1>1 DEF VersionCarries
<1>4. /\ call[c].op = "save" => l = "number"
      /\ call[c].op = "edit" => l = "write"
      /\ call[c].op \in {"rollback", "rollbackOnly", "delete"} => l = "version"
  BY DEF Is
<1> HIDE DEF l, x
<1>5. /\ Shaped' /\ \A d \in Calls \ {c} : call'[d] = call[d]
      /\ call'[c].at = l /\ call'[c].op = call[c].op /\ call'[c].arg = call[c].arg
      /\ call'[c].seen = x
  BY <1>1, NoteMoves
<1>6. VersionCarries(call'[c])
  BY <1>1, <1>2, <1>3, <1>4, <1>5 DEF VersionCarries, VersionOps
<1>7. Preserves(call'[c])
  BY <1>2, <1>4, <1>5 DEF Preserves
<1> QED
  BY <1>1, <1>5, <1>6, <1>7, VersionMoves DEF At

LEMMA FindVersionKeeps == ASSUME VersionInv, NEW c \in Calls, FindVersion(c) PROVE VersionInv'
<1> DEFINE l == CASE Is(c, {"delete"}) -> "delete" [] SavesFirst(call[c].op) -> "number"
               [] OTHER -> "write"
<1>1. /\ call[c].at = "version" /\ VersionCarries(call[c]) /\ Shaped /\ Goto(c, l)
      /\ UNCHANGED <<versionData, calm>> /\ (calm => Preserves(call[c]))
  BY DEF FindVersion, At, VersionInv, Steady
<1>2. call[c].op \in {"rollback", "rollbackOnly", "delete"}
  BY <1>1 DEF VersionCarries
<1>3. /\ call[c].op = "delete" => l = "delete"
      /\ call[c].op = "rollback" => l = "number"
      /\ call[c].op = "rollbackOnly" => l = "write"
  BY DEF Is, SavesFirst
<1> HIDE DEF l
<1>4. /\ Shaped' /\ \A d \in Calls \ {c} : call'[d] = call[d]
      /\ call'[c].at = l /\ call'[c].op = call[c].op /\ call'[c].arg = call[c].arg
      /\ call'[c].seen = call[c].seen
  BY <1>1, GotoMoves
<1>5. VersionCarries(call'[c])
  BY <1>1, <1>2, <1>3, <1>4 DEF VersionCarries
<1>6. calm => Preserves(call'[c])
  BY <1>1, <1>2, <1>3, <1>4 DEF Preserves
<1> QED
  BY <1>1, <1>4, <1>5, <1>6, VersionMoves DEF At

LEMMA ReadNumberKeeps == ASSUME VersionInv, NEW c \in Calls, ReadNumber(c) PROVE VersionInv'
<1> DEFINE x == [call[c].seen EXCEPT !.number = LatestNumber]
<1>1. /\ call[c].at = "number" /\ VersionCarries(call[c]) /\ Shaped /\ Note(c, "insert", x)
      /\ UNCHANGED <<versionData, calm>> /\ (calm => Preserves(call[c]))
  BY DEF ReadNumber, At, VersionInv, Steady
<1>2. LatestNumber \in Nat /\ call[c].seen \in [content: Contents, number: Nat]
  BY <1>1, LatestIsNat DEF VersionInv, VersionTypeOK, VersionCarries
<1>3. x \in [content: Contents, number: Nat] /\ x.content = call[c].seen.content
  BY <1>2
<1> HIDE DEF x
<1>4. /\ Shaped' /\ \A d \in Calls \ {c} : call'[d] = call[d]
      /\ call'[c].at = "insert" /\ call'[c].op = call[c].op /\ call'[c].arg = call[c].arg
      /\ call'[c].seen = x
  BY <1>1, NoteMoves
<1>5. VersionCarries(call'[c])
  BY <1>1, <1>3, <1>4 DEF VersionCarries
<1>6. calm => Preserves(call'[c])
  BY <1>1, <1>3, <1>4 DEF Preserves
<1> QED
  BY <1>1, <1>4, <1>5, <1>6, VersionMoves DEF At

(* The row that is made holds what the handler read of the agent.          *)
LEMMA InsertVersionKeeps == ASSUME VersionInv, NEW c \in Calls, InsertVersion(c) PROVE VersionInv'
<1> DEFINE row == [number |-> call[c].seen.number + 1, content |-> call[c].seen.content]
<1>1. /\ call[c].at = "insert" /\ VersionCarries(call[c]) /\ Shaped /\ (calm => Preserves(call[c]))
      /\ versions \in [VersionIds -> VersionRow]
      /\ UNCHANGED <<content, lost, calm>>
  BY DEF InsertVersion, At, VersionInv, VersionTypeOK, Steady
<1>2. call[c].seen \in [content: Contents, number: Nat] /\ call[c].op \in {"save", "rollback"}
  BY <1>1 DEF VersionCarries
<1>3. /\ row \in VersionRow /\ row.number > 0 /\ row.content = call[c].seen.content
  BY <1>2 DEF VersionRow
<1>4. PICK v \in VersionIds : versions' = [versions EXCEPT ![v] = row]
  BY DEF InsertVersion, Blank
<1> HIDE DEF row
<1>5. /\ versions' \in [VersionIds -> VersionRow] /\ versions'[v] = row
      /\ v \in Saved'
  BY <1>1, <1>3, <1>4 DEF Saved
<1>6. /\ Shaped' /\ \A d \in Calls \ {c} : call'[d] = call[d]
      /\ \/ call'[c] = NoCall
         \/ /\ call'[c].at = "write" /\ call'[c].op = "rollback"
            /\ call'[c].op = call[c].op /\ call'[c].arg = call[c].arg
  <2>1. CASE Answer(c)
    BY <1>1, <2>1, AnswerMoves
  <2>2. CASE call[c].op = "rollback" /\ Goto(c, "write")
    BY <1>1, <2>2, GotoMoves
  <2> QED
    BY <1>2, <2>1, <2>2 DEF InsertVersion, Is
<1>7. \A d \in Calls : VersionCarries(call'[d])
  BY <1>1, <1>6, NoCallCarriesVersion DEF VersionInv, VersionCarries, VersionOps
<1>8. Alone'
  BY <1>1, <1>6, AloneMoves DEF VersionInv, At
<1>9. calm' => lost' = 0 /\ \A d \in Calls : Preserves(call[d])'
  <2> SUFFICES ASSUME calm, NEW d \in Calls PROVE lost = 0 /\ Preserves(call[d])'
    BY <1>1
  <2>1. lost = 0 /\ (d # c => call[d].at = "idle" /\ call'[d].at = "idle")
    BY <1>1, <1>6 DEF VersionInv, Alone, At
  <2>2. CASE d # c
    BY <2>1, <2>2 DEF Preserves
  <2>3. CASE d = c /\ call'[c] = NoCall
    BY <2>1, <2>3, NoCallCarriesVersion DEF Preserves
  <2>4. CASE d = c /\ call'[c].at = "write" /\ call'[c].op = "rollback"
    <3>1. versions'[v].content = content'
      BY <1>1, <1>3, <1>5, <1>6, <2>4, NoCallCarriesVersion DEF Preserves
    <3> QED
      BY <1>5, <2>1, <2>4, <3>1 DEF Preserves
  <2> QED
    BY <1>6, <2>2, <2>3, <2>4
<1>10. VersionTypeOK'
  BY <1>1, <1>5, <1>7 DEF VersionInv, VersionTypeOK, VersionCarries
<1> QED
  BY <1>1, <1>6, <1>7, <1>8, <1>9, <1>10 DEF VersionInv

(* A handler that ends: while calls do not overlap none is left.           *)
LEMMA VersionEnds ==
  ASSUME VersionInv, NEW c \in Calls, ~At(c, "idle"), Answer(c), UNCHANGED calm,
         content' \in Contents, versions' \in [VersionIds -> VersionRow], lost' \in Nat,
         calm => lost' = 0
  PROVE  VersionInv'
<1>1. /\ Shaped' /\ call'[c] = NoCall /\ \A d \in Calls \ {c} : call'[d] = call[d]
  BY AnswerMoves DEF VersionInv
<1>2. \A d \in Calls : VersionCarries(call'[d])
  BY <1>1, NoCallCarriesVersion DEF VersionInv
<1>3. Alone'
  BY <1>1, AloneMoves DEF VersionInv
<1>4. ASSUME calm, NEW d \in Calls PROVE Preserves(call[d])'
  <2>1. call'[d].at = "idle"
    BY <1>1, <1>4, NoCallCarriesVersion DEF VersionInv, Alone, At
  <2> QED
    BY <2>1 DEF Preserves
<1>5. VersionTypeOK'
  BY <1>2 DEF VersionTypeOK, VersionCarries
<1> QED
  BY <1>1, <1>2, <1>3, <1>4, <1>5 DEF VersionInv

(* What a rollback overwrites is a version, if it was to be saved first.   *)
LEMMA WriteContentKeeps == ASSUME VersionInv, NEW c \in Calls, WriteContent(c) PROVE VersionInv'
<1>1. /\ call[c].at = "write" /\ VersionCarries(call[c]) /\ (calm => Preserves(call[c]))
      /\ UNCHANGED <<versions, calm>> /\ Answer(c) /\ VersionTypeOK
  BY DEF WriteContent, At, VersionInv, Steady
<1>2. content' \in Contents
  <2>1. CASE call[c].op = "edit"
    BY <1>1, <2>1 DEF WriteContent, Is, VersionCarries
  <2>2. CASE call[c].op # "edit"
    <3>1. call[c].arg \in VersionIds
      BY <1>1, <2>2 DEF VersionCarries
    <3> QED
      BY <1>1, <2>2, <3>1 DEF WriteContent, Is, VersionTypeOK, VersionRow
  <2> QED
    BY <2>1, <2>2
<1>3. lost' \in Nat
  BY <1>1 DEF WriteContent, VersionTypeOK
<1>4. calm => lost' = 0
  BY <1>1 DEF WriteContent, Preserves, Is, VersionInv
<1> QED
  BY <1>1, <1>2, <1>3, <1>4, VersionEnds DEF At, VersionTypeOK

LEMMA DeleteVersionKeeps == ASSUME VersionInv, NEW c \in Calls, DeleteVersion(c) PROVE VersionInv'
<1> DEFINE v == call[c].arg
           row == [versions[v] EXCEPT !.number = -1]
<1>1. /\ call[c].at = "delete" /\ v \in VersionIds /\ UNCHANGED <<content, lost, calm>>
      /\ Answer(c) /\ VersionTypeOK
  BY DEF DeleteVersion, At, VersionInv, Steady, Saved
<1>2. row \in VersionRow
  BY <1>1 DEF VersionTypeOK, VersionRow
<1>3. versions' = [versions EXCEPT ![v] = row]
  BY <1>1 DEF DeleteVersion
<1> HIDE DEF row
<1>4. versions' \in [VersionIds -> VersionRow]
  BY <1>1, <1>2, <1>3 DEF VersionTypeOK
<1> QED
  BY <1>1, <1>4, VersionEnds DEF At, VersionInv, VersionTypeOK

LEMMA VersionInitOK == VersionInit => VersionInv
<1> SUFFICES ASSUME VersionInit PROVE VersionInv
  OBVIOUS
<1>1. HandlersInit /\ Shaped /\ Alone /\ calm = TRUE /\ \A c \in Calls : call[c] = NoCall
  BY ShapedAtFirst, AloneAtFirst DEF VersionInit, HandlersInit
<1>2. VersionTypeOK /\ lost = 0
  BY <1>1, NoCallCarriesVersion DEF VersionInit, VersionTypeOK, VersionRow
<1> QED
  BY <1>1, <1>2, NoCallCarriesVersion DEF VersionInv

LEMMA VersionStep == VersionInv /\ [VersionNext]_versionVars => VersionInv'
<1> SUFFICES ASSUME VersionInv, [VersionNext]_versionVars PROVE VersionInv'
  OBVIOUS
<1>1. ASSUME NEW c \in Calls, RefuseVersion(c) \/ BreakVersion(c) PROVE VersionInv'
  <2>1. ~At(c, "idle") /\ Answer(c) /\ UNCHANGED <<versionData, calm>>
    BY <1>1 DEF RefuseVersion, BreakVersion, Break, Steady, At
  <2> QED
    BY <2>1, VersionEnds DEF VersionInv, VersionTypeOK, versionData
<1>2. CASE UNCHANGED versionVars
  <2>1. UNCHANGED <<call, calm, content, versions, lost>>
    BY <1>2 DEF versionVars, versionData, handlerVars
  <2>2. Saved' = Saved
    BY <2>1 DEF Saved
  <2>3. Shaped' /\ Alone' /\ VersionTypeOK'
    BY <2>1 DEF VersionInv, Shaped, Alone, At, VersionTypeOK
  <2> QED
    BY <2>1, <2>2, <2>3 DEF VersionInv, Preserves
<1> QED
  BY <1>1, <1>2, ServeVersionKeeps, ReadAgentKeeps, FindVersionKeeps, ReadNumberKeeps,
     InsertVersionKeeps, WriteContentKeeps, DeleteVersionKeeps DEF VersionNext

(* While calls do not overlap, a rollback overwrites the agent only with   *)
(* its content saved as a version first: no content is ever lost.          *)
THEOREM NoRollbackLosesTheAgent == VersionSpec => []RollbacksLoseNothing
<1>1. VersionInv => RollbacksLoseNothing
  BY DEF VersionInv, RollbacksLoseNothing
<1> QED
  BY <1>1, VersionInitOK, VersionStep, PTL DEF VersionSpec

(* The agent's content and its version rows keep their types.              *)
THEOREM VersionsTyped == VersionSpec => []VersionTypeOK
<1>1. VersionInv => VersionTypeOK
  BY DEF VersionInv
<1> QED
  BY <1>1, VersionInitOK, VersionStep, PTL DEF VersionSpec

-----------------------------------------------------------------------------
(* Passwords and sessions.                                                 *)

(* What a handler carries: the password it registers, compares or has      *)
(* compared, the second that names a session row, the change it makes.     *)
SessionCarries(r) ==
  /\ r.at \in {"taken", "register"} => r.arg \in Passwords
  /\ r.at = "verify" /\ r.op = "login" => r.arg \in Passwords
  /\ r.at \in {"sign", "open"} => r.seen \in Passwords
  /\ r.at \in {"open", "session", "invalidate"} => r.arg \in Seconds
  /\ r.at = "verify" /\ r.op = "change" => r.arg \in [old: Passwords, new: Passwords]
  /\ r.at = "rehash" => r.arg \in [old: Passwords, new: Passwords]

(* The sessions that were opened under another password than the present.  *)
Old == {s \in Valid : sessions[s].under # password}

Revoking == \E c \in Calls : At(c, "revoke")

(* Before the account exists nobody has compared its password.             *)
NobodyEnters ==
  password = Nobody => Valid = {} /\ \A c \in Calls : call[c].at \notin {"sign", "open", "rehash"}

(* A session of an old password, and a login that will open one, was under *)
(* way when the sessions were revoked.                                     *)
StraysCounted ==
  faults = 0 /\ ~Revoking => Cardinality(Old) + Cardinality(Entering) <= strays

SessionInv ==
  /\ password \in Passwords \cup {Nobody} /\ sessions \in [Seconds -> SessionRow]
  /\ now \in Seconds /\ strays \in Nat /\ faults \in Nat
  /\ Shaped /\ \A c \in Calls : SessionCarries(call[c])
  /\ NobodyEnters /\ StraysCounted

LEMMA NoCallCarriesSession == SessionCarries(NoCall) /\ NoCall.at = "idle"
  BY DEF NoCall, SessionCarries

LEMMA EnteringFinite == IsFiniteSet(Entering) /\ IsFiniteSet(Old)
<1>1. IsFiniteSet(Entering)
  BY CallsFinite, FS_Subset DEF Entering
<1>2. IsFiniteSet(Seconds) /\ Old \subseteq Seconds
  BY FS_Interval DEF Seconds, Old, Valid
<1> QED
  BY <1>1, <1>2, FS_Subset

(* Fewer old sessions and fewer logins that will open one: still counted.  *)
LEMMA StillCounted ==
  ASSUME SessionInv, UNCHANGED strays, faults' = faults \/ faults' = faults + 1,
         Old' \subseteq Old, Entering' \subseteq Entering, Revoking => Revoking' \/ faults' # 0
  PROVE  StraysCounted'
<1>1. faults' \in Nat /\ (faults' = 0 => faults = 0)
  BY DEF SessionInv
<1>2. /\ Cardinality(Old) \in Nat /\ Cardinality(Old') \in Nat
      /\ Cardinality(Old') <= Cardinality(Old)
  BY EnteringFinite, Smaller
<1>3. /\ Cardinality(Entering) \in Nat /\ Cardinality(Entering') \in Nat
      /\ Cardinality(Entering') <= Cardinality(Entering)
  BY EnteringFinite, Smaller
<1> QED
  BY <1>1, <1>2, <1>3 DEF SessionInv, StraysCounted

(* A handler that moves and leaves the rows alone.                         *)
LEMMA SessionMoves ==
  ASSUME SessionInv, NEW c \in Calls, Shaped', SessionCarries(call'[c]),
         \A d \in Calls \ {c} : call'[d] = call[d],
         UNCHANGED sessionData, faults' = faults \/ faults' = faults + 1,
         call'[c].at \in {"sign", "open"} =>
           \/ call'[c].seen = password
           \/ call[c].at \in {"sign", "open"} /\ call'[c].seen = call[c].seen,
         call'[c].at \in {"sign", "open", "rehash"} => password # Nobody,
         At(c, "revoke") => faults' = faults + 1
  PROVE  SessionInv'
<1>1. /\ password' = password /\ sessions' = sessions /\ now' = now /\ strays' = strays
      /\ Old' = Old /\ Valid' = Valid /\ faults' \in Nat
  BY DEF SessionInv, sessionData, Old, Valid
<1>2. \A d \in Calls : SessionCarries(call'[d])
  BY DEF SessionInv
<1>3. NobodyEnters'
  BY <1>1 DEF SessionInv, NobodyEnters
<1>4. Entering' \subseteq Entering
  BY <1>1 DEF Entering
<1>5. Revoking => Revoking' \/ faults' # 0
  BY DEF SessionInv, Revoking, At
<1>6. StraysCounted'
  BY <1>1, <1>4, <1>5, StillCounted
<1> QED
  BY <1>1, <1>2, <1>3, <1>6 DEF SessionInv

LEMMA SessionBegins ==
  ASSUME SessionInv, NEW c \in Calls, NEW op, NEW x,
         NEW l \in {"taken", "verify", "session", "invalidate", "revoke"},
         Begin(c, op, Nobody, x, l), UNCHANGED sessionData,
         l = "taken" \/ op = "login" => x \in Passwords,
         l \in {"session", "invalidate"} => x \in Seconds,
         op = "change" => x \in [old: Passwords, new: Passwords]
  PROVE  SessionInv'
<1>1. /\ Shaped' /\ \A d \in Calls \ {c} : call'[d] = call[d]
      /\ call'[c].at = l /\ call'[c].op = op /\ call'[c].arg = x
      /\ At(c, "idle") /\ faults' = faults
  BY BeginMoves DEF SessionInv
<1>2. SessionCarries(call'[c]) /\ call'[c].at = l
  BY <1>1 DEF SessionCarries
<1> QED
  BY <1>1, <1>2, SessionMoves DEF At

LEMMA SessionGoes ==
  ASSUME SessionInv, NEW c \in Calls, NEW l, Goto(c, l), UNCHANGED <<sessionData, faults>>,
         l = "invalidate" => call[c].arg \in Seconds,
         l = "rehash" => call[c].arg \in [old: Passwords, new: Passwords],
         ~At(c, "revoke"), l \in {"register", "invalidate", "rehash"},
         l = "register" => call[c].arg \in Passwords, l = "rehash" => password # Nobody
  PROVE  SessionInv'
<1>1. /\ Shaped'
      /\ call'[c].at = l /\ \A d \in Calls \ {c} : call'[d] = call[d]
  BY GotoMoves DEF SessionInv
<1>2. SessionCarries(call'[c])
  BY GotoMoves DEF SessionInv, SessionCarries
<1> QED
  BY <1>1, <1>2, SessionMoves

LEMMA SessionAnswers ==
  ASSUME SessionInv, NEW c \in Calls, Answer(c), UNCHANGED sessionData,
         faults' = faults + 1 \/ (~At(c, "revoke") /\ faults' = faults)
  PROVE  SessionInv'
<1>1. /\ Shaped'
      /\ call'[c] = NoCall /\ call'[c].at = "idle"
      /\ \A d \in Calls \ {c} : call'[d] = call[d]
  BY NoCallCarriesSession, AnswerMoves DEF SessionInv
<1> QED
  BY <1>1, NoCallCarriesSession, SessionMoves

(* Signing up: the account gets its password; no session is of another.    *)
LEMMA RegisterKeeps == ASSUME SessionInv, NEW c \in Calls, Register(c) PROVE SessionInv'
<1>1. /\ call[c].arg \in Passwords /\ password = Nobody /\ At(c, "register")
      /\ password' = call[c].arg /\ UNCHANGED <<sessions, now, strays, faults>>
  <2>1. call[c].at = "register" /\ SessionCarries(call[c])
    BY DEF Register, SessionInv, At
  <2> QED
    BY <2>1 DEF Register, Steady, SessionCarries, At
<1>2. /\ Shaped'
      /\ call'[c].at = "sign" /\ call'[c].seen = call[c].arg
      /\ \A d \in Calls \ {c} : call'[d] = call[d]
  BY <1>1, NoteMoves DEF Register, SessionInv
<1>3. \A d \in Calls : SessionCarries(call'[d])
  BY <1>1, <1>2 DEF SessionInv, SessionCarries
<1>4. Valid = {} /\ \A d \in Calls : call[d].at \notin {"sign", "open", "rehash"}
  BY <1>1 DEF SessionInv, NobodyEnters
<1>5. Old' = {} /\ Entering' = {}
  BY <1>1, <1>2, <1>4 DEF Old, Valid, Entering
<1>6. StraysCounted'
  BY <1>1, <1>2, <1>5, StillCounted DEF Revoking, At
<1>7. NobodyEnters'
  BY <1>1 DEF NobodyEnters
<1> QED
  BY <1>1, <1>2, <1>3, <1>6, <1>7 DEF SessionInv

(* Logging in: who has compared the password in force enters under it.     *)
LEMMA VerifyKeeps == ASSUME SessionInv, NEW c \in Calls, Verify(c) PROVE SessionInv'
<1>1. /\ call[c].arg \in Passwords /\ password = call[c].arg /\ At(c, "verify")
      /\ UNCHANGED <<sessionData, faults>>
  BY DEF Verify, Steady, Is, At, SessionInv, SessionCarries
<1>2. /\ Shaped'
      /\ call'[c].at = "sign" /\ call'[c].seen = password
      /\ \A d \in Calls \ {c} : call'[d] = call[d]
  BY <1>1, NoteMoves DEF Verify, SessionInv
<1>3. SessionCarries(call'[c])
  BY <1>1, <1>2 DEF SessionCarries
<1> QED
  BY <1>1, <1>2, <1>3, SessionMoves DEF At

(* The token is signed in a second.                                        *)
LEMMA SignKeeps == ASSUME SessionInv, NEW c \in Calls, Sign(c) PROVE SessionInv'
<1> DEFINE r == [call[c] EXCEPT !.at = "open", !.arg = now]
<1>1. /\ Shaped /\ SessionCarries(call[c])
      /\ call[c].at = "sign" /\ call[c].seen \in Passwords /\ now \in Seconds
      /\ UNCHANGED <<sessionData, faults>>
  BY DEF SessionInv, Sign, Steady, At, SessionCarries
<1>2. Shape(r) /\ r.at = "open" /\ r.arg = now /\ r.seen = call[c].seen
  BY <1>1 DEF Shaped, Shape, Fields
<1>3. call' = [call EXCEPT ![c] = r]
  BY <1>1 DEF Sign
<1> HIDE DEF r
<1>4. Shaped' /\ call'[c] = r /\ \A d \in Calls \ {c} : call'[d] = call[d]
  BY <1>1, <1>2, <1>3, CallMoves
<1>5. SessionCarries(r)
  BY <1>1, <1>2 DEF SessionCarries
<1>6. password # Nobody
  BY <1>1 DEF SessionInv, NobodyEnters
<1> QED
  BY <1>1, <1>2, <1>4, <1>5, <1>6, SessionMoves DEF At

(* A login that was under way opens its session.                           *)
LEMMA OpenSessionKeeps == ASSUME SessionInv, NEW c \in Calls, OpenSession(c) PROVE SessionInv'
<1> DEFINE s == call[c].arg
           row == [made |-> TRUE, valid |-> TRUE, under |-> call[c].seen]
<1>1. /\ call[c].at = "open" /\ s \in Seconds /\ call[c].seen \in Passwords
      /\ UNCHANGED <<password, now, strays, faults>> /\ sessions' = [sessions EXCEPT ![s] = row]
  BY DEF SessionInv, OpenSession, Steady, At, SessionCarries
<1>2. row \in SessionRow /\ row.valid /\ row.under = call[c].seen
  BY <1>1 DEF SessionRow
<1> HIDE DEF row
<1>3. /\ sessions' \in [Seconds -> SessionRow] /\ sessions'[s] = row
      /\ \A t \in Seconds \ {s} : sessions'[t] = sessions[t]
  BY <1>1, <1>2 DEF SessionInv
<1>4. /\ Shaped' /\ call'[c] = NoCall /\ call'[c].at = "idle"
      /\ \A d \in Calls \ {c} : call'[d] = call[d]
  BY NoCallCarriesSession, AnswerMoves DEF SessionInv, OpenSession
<1>5. \A d \in Calls : SessionCarries(call'[d])
  BY <1>4, NoCallCarriesSession DEF SessionInv
<1>6. password # Nobody
  BY <1>1 DEF SessionInv, NobodyEnters
<1>7. NobodyEnters'
  BY <1>1, <1>6 DEF NobodyEnters
<1>8. StraysCounted'
  <2>1. CASE call[c].seen = password
    <3>1. Old' \subseteq Old
      BY <1>1, <1>2, <1>3, <2>1 DEF Old, Valid
    <3>2. Entering' \subseteq Entering /\ (Revoking => Revoking')
      BY <1>1, <1>4 DEF Entering, Revoking, At
    <3> QED
      BY <1>1, <3>1, <3>2, StillCounted
  <2>2. CASE call[c].seen # password
    <3>1. Old' \subseteq Old \cup {s}
      BY <1>1, <1>3 DEF Old, Valid
    <3>2. c \in Entering /\ Entering' \subseteq Entering \ {c} /\ (Revoking => Revoking')
      BY <1>1, <1>4, <2>2 DEF Entering, Revoking, At
    <3>3. /\ Cardinality(Old) \in Nat /\ Cardinality(Old') \in Nat
          /\ Cardinality(Old') <= Cardinality(Old) + 1
      BY <3>1, EnteringFinite, GrowsByOne
    <3>4. /\ Cardinality(Entering) \in Nat /\ Cardinality(Entering') \in Nat
          /\ Cardinality(Entering') + 1 <= Cardinality(Entering)
      BY <3>2, EnteringFinite, ShrinksByOne
    <3> QED
      BY <1>1, <3>2, <3>3, <3>4 DEF SessionInv, StraysCounted
  <2> QED
    BY <2>1, <2>2
<1> QED
  BY <1>1, <1>3, <1>4, <1>5, <1>7, <1>8 DEF SessionInv

(* A session that is invalidated is one fewer.                             *)
LEMMA InvalidateKeeps == ASSUME SessionInv, NEW c \in Calls, Invalidate(c) PROVE SessionInv'
<1> DEFINE s == call[c].arg
           row == [sessions[s] EXCEPT !.valid = FALSE]
<1>1. /\ call[c].at = "invalidate" /\ s \in Seconds
      /\ UNCHANGED <<password, now, strays, faults>>
      /\ sessions \in [Seconds -> SessionRow] /\ sessions[s] \in SessionRow
  BY DEF SessionInv, Invalidate, Steady, At, SessionCarries
<1>2. row \in SessionRow /\ ~row.valid
  BY <1>1 DEF SessionRow
<1>3. sessions' = [sessions EXCEPT ![s] = row]
  BY <1>1 DEF Invalidate
<1> HIDE DEF row
<1>4. /\ sessions' \in [Seconds -> SessionRow] /\ sessions'[s] = row
      /\ \A t \in Seconds \ {s} : sessions'[t] = sessions[t]
  BY <1>1, <1>2, <1>3
<1>5. /\ Shaped' /\ call'[c] = NoCall /\ call'[c].at = "idle"
      /\ \A d \in Calls \ {c} : call'[d] = call[d]
  BY NoCallCarriesSession, AnswerMoves DEF SessionInv, Invalidate
<1>6. \A d \in Calls : SessionCarries(call'[d])
  BY <1>5, NoCallCarriesSession DEF SessionInv
<1>7. Old' \subseteq Old /\ Valid' \subseteq Valid
  BY <1>1, <1>2, <1>4 DEF Old, Valid
<1>8. Entering' \subseteq Entering /\ (Revoking => Revoking')
  BY <1>1, <1>5 DEF Entering, Revoking, At
<1>9. NobodyEnters'
  BY <1>1, <1>5, <1>7 DEF SessionInv, NobodyEnters
<1>10. StraysCounted'
  BY <1>1, <1>7, <1>8, StillCounted
<1> QED
  BY <1>1, <1>4, <1>5, <1>6, <1>9, <1>10 DEF SessionInv

(* The new password: the sessions are about to be revoked.                 *)
LEMMA RehashKeeps == ASSUME SessionInv, NEW c \in Calls, Rehash(c) PROVE SessionInv'
<1>1. /\ call[c].at = "rehash" /\ call[c].arg \in [old: Passwords, new: Passwords]
      /\ password' = call[c].arg.new /\ UNCHANGED <<sessions, now, strays, faults>>
  <2>1. call[c].at = "rehash" /\ SessionCarries(call[c])
    BY DEF Rehash, SessionInv, At
  <2> QED
    BY <2>1 DEF Rehash, Steady, SessionCarries
<1>2. /\ Shaped' /\ call'[c].at = "revoke"
      /\ \A d \in Calls \ {c} : call'[d] = call[d]
  BY <1>1, GotoMoves DEF Rehash, SessionInv
<1>3. \A d \in Calls : SessionCarries(call'[d])
  BY <1>2 DEF SessionInv, SessionCarries
<1>4. password' \in Passwords
  BY <1>1
<1>5. NobodyEnters' /\ StraysCounted'
  BY <1>2, <1>4 DEF NobodyEnters, StraysCounted, Revoking, At
<1> QED
  BY <1>1, <1>2, <1>3, <1>4, <1>5 DEF SessionInv

(* Every session is revoked; the logins under way are counted.             *)
LEMMA RevokeAllKeeps == ASSUME SessionInv, NEW c \in Calls, RevokeAll(c) PROVE SessionInv'
<1>1. /\ call[c].at = "revoke" /\ UNCHANGED <<password, now, faults>>
      /\ strays' = strays + Cardinality(Entering)
      /\ sessions' = [s \in Seconds |-> [sessions[s] EXCEPT !.valid = FALSE]]
  BY DEF RevokeAll, Steady, At, Kept
<1>2. sessions' \in [Seconds -> SessionRow] /\ Valid' = {}
  BY <1>1 DEF SessionInv, SessionRow, Valid
<1>3. /\ Shaped' /\ call'[c] = NoCall /\ call'[c].at = "idle"
      /\ \A d \in Calls \ {c} : call'[d] = call[d]
  BY NoCallCarriesSession, AnswerMoves DEF SessionInv, RevokeAll
<1>4. \A d \in Calls : SessionCarries(call'[d])
  BY <1>3, NoCallCarriesSession DEF SessionInv
<1>5. Old' = {} /\ Entering' \subseteq Entering
  BY <1>1, <1>2, <1>3 DEF Old, Entering
<1>6. /\ Cardinality(Entering) \in Nat /\ Cardinality(Entering') \in Nat
      /\ Cardinality(Entering') <= Cardinality(Entering) /\ Cardinality(Old') = 0
  BY <1>5, EnteringFinite, Smaller, FS_EmptySet
<1>7. strays' \in Nat /\ StraysCounted'
  BY <1>1, <1>6 DEF SessionInv, StraysCounted
<1>8. NobodyEnters'
  BY <1>1, <1>2, <1>3 DEF SessionInv, NobodyEnters
<1> QED
  BY <1>1, <1>2, <1>3, <1>4, <1>7, <1>8 DEF SessionInv

LEMMA SessionInitOK == SessionInit => SessionInv
<1> SUFFICES ASSUME SessionInit PROVE SessionInv
  OBVIOUS
<1>1. /\ Shaped /\ faults = 0
      /\ \A c \in Calls : SessionCarries(call[c]) /\ call[c].at = "idle"
  BY NoCallCarriesSession, ShapedAtFirst DEF SessionInit, HandlersInit
<1>2. /\ password \in Passwords \cup {Nobody} /\ strays = 0 /\ now \in Seconds
      /\ sessions \in [Seconds -> SessionRow]
      /\ \A s \in Seconds : ~sessions[s].valid
  BY DEF SessionInit, NoSession, SessionRow, Seconds
<1>3. Valid = {} /\ Old = {} /\ Entering = {}
  BY <1>1, <1>2 DEF Valid, Old, Entering
<1>4. NobodyEnters /\ StraysCounted
  BY <1>1, <1>2, <1>3, FS_EmptySet DEF NobodyEnters, StraysCounted
<1> QED
  BY <1>1, <1>2, <1>4 DEF SessionInv

LEMMA SessionStep == SessionInv /\ [SessionNext]_sessionVars => SessionInv'
<1> SUFFICES ASSUME SessionInv, [SessionNext]_sessionVars PROVE SessionInv'
  OBVIOUS
<1>1. ASSUME NEW c \in Calls, ServeEntry(c) PROVE SessionInv'
  BY <1>1, SessionBegins DEF ServeEntry
<1>2. ASSUME NEW c \in Calls, FindTaken(c) PROVE SessionInv'
  BY <1>2, SessionGoes DEF FindTaken, Steady, At, SessionCarries, SessionInv
<1>3. ASSUME NEW c \in Calls, ServeToken(c) PROVE SessionInv'
  BY <1>3, SessionBegins DEF ServeToken
<1>4. ASSUME NEW c \in Calls, FindSession(c) PROVE SessionInv'
  <2>1. At(c, "session") /\ UNCHANGED <<sessionData, faults>> /\ (Answer(c) \/ Goto(c, "invalidate"))
    BY <1>4 DEF FindSession, Steady
  <2>2. CASE Answer(c)
    BY <2>1, <2>2, SessionAnswers DEF At
  <2>3. CASE Goto(c, "invalidate")
    BY <2>1, <2>3, SessionGoes DEF At, SessionCarries, SessionInv
  <2> QED
    BY <2>1, <2>2, <2>3
<1>5. ASSUME NEW c \in Calls, ServeRevoke(c) PROVE SessionInv'
  BY <1>5, SessionBegins DEF ServeRevoke
<1>6. ASSUME NEW c \in Calls, VerifyOld(c) PROVE SessionInv'
  <2>1. /\ call[c].at = "verify" /\ call[c].op = "change" /\ call[c].arg \in [old: Passwords, new: Passwords]
        /\ password = call[c].arg.old /\ UNCHANGED <<sessionData, faults>> /\ Goto(c, "rehash")
    BY <1>6 DEF VerifyOld, Steady, Is, At, SessionInv, SessionCarries
  <2>2. password # Nobody
    BY <2>1
  <2> QED
    BY <2>1, <2>2, SessionGoes DEF At, SessionCarries, SessionInv
<1>7. ASSUME NEW c \in Calls, RefuseSession(c) PROVE SessionInv'
  BY <1>7, SessionAnswers DEF RefuseSession, Steady, At
<1>8. ASSUME NEW c \in Calls, BreakSession(c) PROVE SessionInv'
  BY <1>8, SessionAnswers DEF BreakSession, Break
<1>9. CASE Second
  <2>1. UNCHANGED <<call, faults, password, sessions, strays>> /\ now' \in Seconds
    BY <1>9 DEF Second, handlerVars, SessionInv, Seconds
  <2>2. Old' = Old /\ Entering' = Entering /\ Valid' = Valid /\ Revoking' = Revoking
    BY <2>1 DEF Old, Entering, Valid, Revoking, At
  <2>3. StraysCounted' /\ NobodyEnters'
    BY <2>1, <2>2 DEF SessionInv, StraysCounted, NobodyEnters
  <2> QED
    BY <2>1, <2>3 DEF SessionInv, Shaped
<1>10. CASE UNCHANGED sessionVars
  <2>1. UNCHANGED <<call, faults, password, sessions, strays, now>>
    BY <1>10 DEF sessionVars, sessionData, handlerVars
  <2>2. Old' = Old /\ Entering' = Entering /\ Valid' = Valid /\ Revoking' = Revoking
    BY <2>1 DEF Old, Entering, Valid, Revoking, At
  <2>3. StraysCounted' /\ NobodyEnters'
    BY <2>1, <2>2 DEF SessionInv, StraysCounted, NobodyEnters
  <2> QED
    BY <2>1, <2>3 DEF SessionInv, Shaped
<1> QED
  BY <1>1, <1>2, <1>3, <1>4, <1>5, <1>6, <1>7, <1>8, <1>9, <1>10, RegisterKeeps, VerifyKeeps, SignKeeps,
     OpenSessionKeeps, InvalidateKeeps, RehashKeeps, RevokeAllKeeps DEF SessionNext

(* Once every change of password has revoked the sessions and none broke   *)
(* off, the sessions still valid under an older password are at most as    *)
(* many as the logins that were past their comparison at the time: none    *)
(* when no login overlapped with a change.                                 *)
THEOREM RevokedSessionsStayRevoked == SessionSpec => []SessionsFollowPassword
<1>1. SessionInv => SessionsFollowPassword
  <2> SUFFICES ASSUME SessionInv, faults = 0, ~Revoking PROVE Cardinality(Old) <= strays
    BY DEF SessionsFollowPassword, Old, Revoking
  <2>1. Cardinality(Old) \in Nat /\ Cardinality(Entering) \in Nat
    BY EnteringFinite, FS_CardinalityType
  <2> QED
    BY <2>1 DEF SessionInv, StraysCounted
<1> QED
  BY <1>1, SessionInitOK, SessionStep, PTL DEF SessionSpec

-----------------------------------------------------------------------------
(* The runs of a workflow.                                                 *)

(* What a handler carries from one await to the next.                      *)
Earning(k) == k.at \in {"agent", "execute", "abort", "tally", "catch", "recount", "finish"}
FlowSeen   == [run: FlowRuns \cup {0}, left: 0 .. MaxSteps, results: 0 .. MaxSteps]

FlowCarries(k) ==
  /\ k.at \in {"idle", "own", "write", "load", "record"} \/ Earning(k)
  /\ k.at \in {"own", "write"} => k.op = "delete" \/ k.arg \in 1 .. MaxSteps
  /\ k.at = "record" => k.seen \in FlowSeen /\ k.seen.left # 0 /\ k.seen.results = 0
  /\ Earning(k) => k.seen \in FlowSeen /\ k.seen.run \in FlowRuns
  /\ k.at = "finish" => k.todo \subseteq {"row", "count"}

(* What the steps it took and its row in the table have to do with each    *)
(* other while the handler executes the run.                               *)
Earns(k) ==
  LET r == k.seen.run IN
  /\ k.seen.results + k.seen.left = done[r].planned
  /\ k.seen.results = done[r].ok \/ k.seen.results = done[r].ok + 1
  /\ flowRuns[r].status \in {"RUNNING", "COMPLETED", "FAILED"}
  /\ k.at \in {"agent", "execute"} => k.seen.left # 0 /\ k.seen.results = done[r].ok
                                      /\ flowRuns[r].status = "RUNNING"
  /\ k.at = "finish" => /\ k.seen.left = 0 /\ k.seen.results = done[r].ok
                        /\ "row" \in k.todo \/ flowRuns[r].status = "COMPLETED"
  /\ k.at \in {"tally", "recount"} => flowRuns[r].status = "FAILED"
  /\ k.at # "finish" => flowRuns[r].status # "COMPLETED"

(* A run that has ended says so rightly.                                   *)
Tells(r) ==
  /\ flowRuns[r].status = "COMPLETED" => done[r].ok = done[r].planned
                                         /\ flowRuns[r].results = done[r].planned
  /\ flowRuns[r].status = "FAILED" => flowRuns[r].results - done[r].ok \in {0, 1}
  /\ flowRuns[r].status = "NONE" => done[r].ok = 0

(* The handlers that have a run in the table and have not counted it.      *)
Owes(k) == Earning(k) /\ (k.at = "finish" => "count" \in k.todo)
Owing   == {c \in Calls : Owes(call[c])}

FlowTyped ==
  /\ flow \in [active: BOOLEAN, steps: 1 .. MaxSteps, count: Nat]
  /\ flowRuns \in [FlowRuns -> [status: FlowStatus, results: 0 .. MaxSteps]]
  /\ done \in [FlowRuns -> [planned: 0 .. MaxSteps, ok: 0 .. MaxSteps]]

Balanced == /\ flow.count + Cardinality(Owing) <= Cardinality(Rows) + faults
            /\ Cardinality(Rows) <= flow.count + Cardinality(Owing) + faults

FlowInv ==
  /\ Shaped /\ faults \in Nat /\ FlowTyped
  /\ \A c \in Calls : FlowCarries(call[c])
  /\ \A c \in Calls : Earning(call[c]) => Earns(call[c])
  /\ \A c, d \in Calls : Earning(call[c]) /\ Earning(call[d])
                         /\ call[c].seen.run = call[d].seen.run => c = d
  /\ \A r \in FlowRuns : Tells(r)
  /\ faults = 0 => \A r \in FlowRuns : flowRuns[r].status = "RUNNING" =>
                     \E c \in Calls : Earning(call[c]) /\ call[c].seen.run = r
  /\ Balanced

LEMMA RowsFinite == /\ IsFiniteSet(Rows) /\ Cardinality(Rows) \in Nat
                    /\ IsFiniteSet(Owing) /\ Cardinality(Owing) \in Nat
<1>1. Rows \subseteq FlowRuns /\ Owing \subseteq Calls
  BY DEF Rows, Owing
<1> QED
  BY <1>1, CallsFinite, FS_Subset, FS_CardinalityType

LEMMA OwingMoves ==
  ASSUME NEW c \in Calls, \A d \in Calls \ {c} : call'[d] = call[d]
  PROVE  /\ Cardinality(Owing') \in Nat
         /\ (Owes(call[c]) <=> Owes(call'[c])) => Cardinality(Owing') = Cardinality(Owing)
         /\ Owes(call[c]) /\ ~Owes(call'[c]) => Cardinality(Owing') = Cardinality(Owing) - 1
         /\ ~Owes(call[c]) /\ Owes(call'[c]) => Cardinality(Owing') = Cardinality(Owing) + 1
<1>1. IsFiniteSet(Owing)
  BY RowsFinite
<1>2. CASE Owes(call[c]) <=> Owes(call'[c])
  <2>1. Owing' = Owing
    BY <1>2 DEF Owing, Owes, Earning
  <2> QED
    BY <1>2, <2>1, RowsFinite
<1>3. CASE Owes(call[c]) /\ ~Owes(call'[c])
  <2>1. Owing' = Owing \ {c} /\ c \in Owing
    BY <1>3 DEF Owing, Owes, Earning
  <2>2. Cardinality(Owing') = Cardinality(Owing) - 1 /\ IsFiniteSet(Owing')
    BY <1>1, <2>1, FS_RemoveElement
  <2> QED
    BY <1>3, <2>2, FS_CardinalityType
<1>4. CASE ~Owes(call[c]) /\ Owes(call'[c])
  <2>1. Owing' = Owing \cup {c} /\ c \notin Owing
    BY <1>4 DEF Owing, Owes, Earning
  <2>2. Cardinality(Owing') = Cardinality(Owing) + 1 /\ IsFiniteSet(Owing')
    BY <1>1, <2>1, FS_AddElement
  <2> QED
    BY <1>4, <2>2, FS_CardinalityType
<1> QED
  BY <1>2, <1>3, <1>4

(* A step of a handler that has no run, and has none afterwards.           *)
LEMMA FlowReads ==
  ASSUME FlowInv, NEW c \in Calls, Shaped', \A d \in Calls \ {c} : call'[d] = call[d],
         ~Earning(call[c]), ~Earning(call'[c]), FlowCarries(call'[c]),
         UNCHANGED <<flowRuns, done>>, FlowTyped', flow'.count = flow.count,
         faults' \in {faults, faults + 1}
  PROVE  FlowInv'
<1>1. Rows' = Rows
  BY DEF Rows
<1>2. Cardinality(Owing') = Cardinality(Owing)
  BY OwingMoves DEF Owes
<1>3. Balanced'
  BY <1>1, <1>2, RowsFinite DEF FlowInv, Balanced, FlowTyped
<1>4. \A d \in Calls : FlowCarries(call[d])'
  BY DEF FlowInv, FlowCarries, Earning
<1>5. ASSUME NEW d \in Calls, Earning(call[d])'
      PROVE  Earns(call[d])' /\ d # c /\ call'[d] = call[d] /\ Earning(call[d])
  BY <1>5 DEF FlowInv, Earns, Earning
<1>6. \A r \in FlowRuns : Tells(r)'
  BY <1>1 DEF FlowInv, Tells
<1>7. ASSUME faults' = 0, NEW r \in FlowRuns, flowRuns'[r].status = "RUNNING"
      PROVE  \E d \in Calls : Earning(call[d])' /\ call'[d].seen.run = r
  <2>1. faults = 0
    BY <1>7 DEF FlowInv
  <2>2. PICK d \in Calls : Earning(call[d]) /\ call[d].seen.run = r
    BY <1>7, <2>1 DEF FlowInv
  <2> QED
    BY <2>2 DEF Earning
<1>8. ASSUME NEW d \in Calls, NEW e \in Calls, Earning(call[d])', Earning(call[e])',
             call'[d].seen.run = call'[e].seen.run
      PROVE  d = e
  BY <1>5, <1>8 DEF FlowInv
<1>9. Shaped' /\ faults' \in Nat /\ FlowTyped'
  BY DEF FlowInv
<1>10. \A d \in Calls : Earning(call'[d]) => Earns(call[d])'
  BY <1>5 DEF Earning
<1>11. \A d, e \in Calls : Earning(call'[d]) /\ Earning(call'[e])
                            /\ call'[d].seen.run = call'[e].seen.run => d = e
  BY <1>8 DEF Earning
<1>12. faults' = 0 => \A r \in FlowRuns : flowRuns'[r].status = "RUNNING" =>
                        \E d \in Calls : Earning(call'[d]) /\ call'[d].seen.run = r
  BY <1>7 DEF Earning
<1> HIDE DEF FlowInv
<1> QED
  BY <1>3, <1>4, <1>6, <1>9, <1>10, <1>11, <1>12 DEF FlowInv, Earning

(* A step of a handler that executes a run touches no row but that one.    *)
LEMMA FlowRunMoves ==
  ASSUME FlowInv, NEW c \in Calls, NEW q, q = call[c].seen.run, Shaped', \A d \in Calls \ {c} : call'[d] = call[d],
         Earning(call[c]), FlowCarries(call'[c]), FlowTyped',
         faults' \in {faults, faults + 1},
         \A r \in FlowRuns \ {q} : flowRuns'[r] = flowRuns[r] /\ done'[r] = done[r],
         flowRuns'[q].status # "NONE", Tells(q)',
         Earning(call'[c]) => call'[c].seen.run = q /\ Earns(call[c])',
         Earning(call'[c]) \/ faults' # 0 \/ flowRuns'[q].status # "RUNNING",
         \/ /\ flow'.count = flow.count /\ faults' = faults
            /\ Owes(call[c]) <=> Owes(call'[c])
         \/ /\ flow'.count = flow.count + 1 /\ faults' = faults
            /\ Owes(call[c]) /\ ~Owes(call'[c])
         \/ /\ flow'.count \in {flow.count, flow.count + 1} /\ faults' = faults + 1
            /\ Owes(call[c]) <=> Owes(call'[c])
         \/ flow'.count = flow.count /\ faults' = faults + 1 /\ ~Owes(call'[c])
  PROVE  FlowInv'
<1>0. q \in FlowRuns /\ q \in Rows
  BY DEF FlowInv, FlowCarries, Earns, Rows
<1>1. Rows' = Rows
  BY <1>0 DEF Rows
<1>2. Balanced'
  <2>1. /\ (Owes(call[c]) <=> Owes(call'[c])) => Cardinality(Owing') = Cardinality(Owing)
        /\ Owes(call[c]) /\ ~Owes(call'[c]) => Cardinality(Owing') = Cardinality(Owing) - 1
    BY OwingMoves
  <2>2. /\ flow.count \in Nat /\ faults \in Nat
        /\ flow.count + Cardinality(Owing) <= Cardinality(Rows) + faults
        /\ Cardinality(Rows) <= flow.count + Cardinality(Owing) + faults
    BY DEF FlowInv, FlowTyped, Balanced
  <2>3. flow'.count + Cardinality(Owing') <= Cardinality(Rows) + faults'
    BY <2>1, <2>2, RowsFinite
  <2>4. Cardinality(Rows) <= flow'.count + Cardinality(Owing') + faults'
    BY <2>1, <2>2, RowsFinite
  <2> QED
    BY <1>1, <2>3, <2>4 DEF Balanced
<1>3. \A d \in Calls : FlowCarries(call[d])'
  BY DEF FlowInv, FlowCarries, Earning
<1>4. ASSUME NEW d \in Calls, Earning(call[d])'
      PROVE  Earns(call[d])' /\ Earning(call[d]) /\ call'[d].seen.run = call[d].seen.run
  <2>1. CASE d = c
    BY <1>4, <2>1
  <2>2. CASE d # c
    <3>1. Earning(call[d]) /\ call'[d] = call[d]
      BY <1>4, <2>2 DEF Earning
    <3>2. call[d].seen.run \in FlowRuns \ {q}
      BY <2>2, <3>1 DEF FlowInv, FlowCarries
    <3>3. /\ flowRuns'[call[d].seen.run] = flowRuns[call[d].seen.run]
          /\ done'[call[d].seen.run] = done[call[d].seen.run]
      BY <3>2
    <3>4. Earns(call[d])
      BY <3>1 DEF FlowInv
    <3> QED
      BY <3>1, <3>3, <3>4 DEF Earns
  <2> QED
    BY <2>1, <2>2
<1>5. ASSUME NEW d \in Calls, NEW e \in Calls, Earning(call[d])', Earning(call[e])',
             call'[d].seen.run = call'[e].seen.run
      PROVE  d = e
  BY <1>4, <1>5 DEF FlowInv
<1>6. ASSUME NEW r \in FlowRuns PROVE Tells(r)'
  <2>1. CASE r = q
    BY <2>1
  <2>2. CASE r # q
    <3>1. r \in FlowRuns \ {q} /\ Tells(r)
      BY <1>1, <2>2 DEF FlowInv, Rows
    <3>2. flowRuns'[r] = flowRuns[r] /\ done'[r] = done[r]
      BY <3>1
    <3> QED
      BY <3>1, <3>2 DEF Tells
  <2> QED
    BY <2>1, <2>2
<1>7. ASSUME faults' = 0, NEW r \in FlowRuns, flowRuns'[r].status = "RUNNING"
      PROVE  \E d \in Calls : Earning(call[d])' /\ call'[d].seen.run = r
  <2>1. CASE r = q
    BY <1>7, <2>1
  <2>2. CASE r # q
    <3>1. r \in FlowRuns \ {q} /\ faults = 0
      BY <1>7, <2>2 DEF FlowInv
    <3>2. flowRuns[r].status = "RUNNING"
      BY <1>7, <3>1
    <3>3. PICK d \in Calls : Earning(call[d]) /\ call[d].seen.run = r
      BY <3>1, <3>2 DEF FlowInv
    <3> QED
      BY <2>2, <3>3 DEF Earning
  <2> QED
    BY <2>1, <2>2
<1>8. faults' \in Nat
  BY DEF FlowInv
<1> QED
  BY <1>2, <1>3, <1>4, <1>5, <1>6, <1>7, <1>8 DEF FlowInv, Earning

-----------------------------------------------------------------------------
(* The actions.                                                            *)

LEMMA ServeFlowKeeps == ASSUME FlowInv, NEW c \in Calls, ServeFlow(c) PROVE FlowInv'
<1>1. /\ Shaped /\ FlowTyped /\ UNCHANGED <<flow, flowRuns, done>>
      /\ \/ \E n \in 1 .. MaxSteps : Begin(c, "update", Nobody, n, "own")
         \/ Begin(c, "delete", Nobody, Nobody, "own")
         \/ Begin(c, "run", Nobody, Nobody, "load")
  BY DEF ServeFlow, FlowInv, flowData
<1>2. PICK op, x, l : /\ Begin(c, op, Nobody, x, l) /\ l \in {"own", "load"}
                      /\ l = "own" => op = "delete" \/ x \in 1 .. MaxSteps
  BY <1>1
<1>3. /\ Shaped' /\ \A d \in Calls \ {c} : call'[d] = call[d]
      /\ call'[c].at = l /\ call'[c].op = op /\ call'[c].arg = x
      /\ call[c].at = "idle" /\ faults' = faults
  BY <1>1, <1>2, BeginMoves DEF At
<1>4. FlowCarries(call'[c]) /\ ~Earning(call[c]) /\ ~Earning(call'[c])
  BY <1>2, <1>3 DEF FlowCarries, Earning
<1>5. FlowTyped'
  BY <1>1 DEF FlowTyped
<1> QED
  BY <1>1, <1>3, <1>4, <1>5, FlowReads

LEMMA FindFlowKeeps == ASSUME FlowInv, NEW c \in Calls, FindFlow(c) PROVE FlowInv'
<1>1. /\ call[c].at = "own" /\ FlowCarries(call[c]) /\ Shaped /\ FlowTyped /\ Goto(c, "write")
      /\ UNCHANGED <<flow, flowRuns, done, faults>>
  BY DEF FindFlow, At, FlowInv, flowData, Steady
<1>2. /\ Shaped' /\ \A d \in Calls \ {c} : call'[d] = call[d]
      /\ call'[c].at = "write" /\ call'[c].op = call[c].op /\ call'[c].arg = call[c].arg
  BY <1>1, GotoMoves
<1>3. FlowCarries(call'[c]) /\ ~Earning(call[c]) /\ ~Earning(call'[c])
  BY <1>1, <1>2 DEF FlowCarries, Earning
<1>4. FlowTyped'
  BY <1>1 DEF FlowTyped
<1> QED
  BY <1>1, <1>2, <1>3, <1>4, FlowReads

LEMMA NoCallOwesNothing == FlowCarries(NoCall) /\ ~Earning(NoCall) /\ ~Owes(NoCall)
  BY DEF FlowCarries, Earning, NoCall, Owes

LEMMA WriteFlowKeeps == ASSUME FlowInv, NEW c \in Calls, WriteFlow(c) PROVE FlowInv'
<1>1. /\ call[c].at = "write" /\ FlowCarries(call[c]) /\ Shaped /\ FlowTyped /\ Answer(c)
      /\ flow' = IF call[c].op \in {"delete"} THEN [flow EXCEPT !.active = FALSE]
                 ELSE [flow EXCEPT !.steps = call[c].arg]
      /\ UNCHANGED <<flowRuns, done, faults>>
  BY DEF WriteFlow, At, Is, FlowInv, Steady
<1>2. /\ Shaped' /\ \A d \in Calls \ {c} : call'[d] = call[d]
      /\ call'[c] = NoCall
  BY <1>1, AnswerMoves
<1>3. ~Earning(call[c])
  BY <1>1 DEF Earning
<1>4. call[c].op \notin {"delete"} => call[c].arg \in 1 .. MaxSteps
  BY <1>1 DEF FlowCarries
<1>5. FlowTyped' /\ flow'.count = flow.count
  BY <1>1, <1>4 DEF FlowTyped
<1> QED
  BY <1>1, <1>2, <1>3, <1>5, NoCallOwesNothing, FlowReads

LEMMA LoadFlowKeeps == ASSUME FlowInv, NEW c \in Calls, LoadFlow(c) PROVE FlowInv'
<1> DEFINE s == [run |-> 0, left |-> flow.steps, results |-> 0]
<1>1. /\ call[c].at = "load" /\ Shaped /\ FlowTyped /\ Note(c, "record", s)
      /\ UNCHANGED <<flow, flowRuns, done, faults>>
  BY DEF LoadFlow, At, FlowInv, flowData, Steady
<1>2. s \in FlowSeen /\ s.left # 0 /\ s.results = 0
  BY <1>1 DEF FlowTyped, FlowSeen
<1> HIDE DEF s
<1>3. /\ Shaped' /\ \A d \in Calls \ {c} : call'[d] = call[d]
      /\ call'[c].at = "record" /\ call'[c].seen = s
  BY <1>1, NoteMoves
<1>4. FlowCarries(call'[c]) /\ ~Earning(call[c]) /\ ~Earning(call'[c])
  BY <1>1, <1>2, <1>3 DEF FlowCarries, Earning
<1>5. FlowTyped'
  BY <1>1 DEF FlowTyped
<1> QED
  BY <1>1, <1>3, <1>4, <1>5, FlowReads

LEMMA RecordFlowKeeps == ASSUME FlowInv, NEW c \in Calls, RecordFlow(c) PROVE FlowInv'
<1>1. PICK q \in Unmade :
        /\ call[c].at = "record" /\ FlowCarries(call[c]) /\ Shaped /\ FlowTyped
        /\ flowRuns' = [flowRuns EXCEPT ![q].status = "RUNNING"]
        /\ done' = [done EXCEPT ![q].planned = call[c].seen.left]
        /\ call' = [call EXCEPT ![c].at = "agent", ![c].seen.run = q]
        /\ UNCHANGED <<flow, faults>>
  BY DEF RecordFlow, At, FlowInv, Steady
<1>2. /\ q \in FlowRuns /\ flowRuns[q].status = "NONE" /\ q \notin Rows
      /\ call[c].seen \in FlowSeen /\ call[c].seen.left # 0 /\ call[c].seen.results = 0
  BY <1>1 DEF Unmade, Rows, FlowCarries
<1> DEFINE k == [call[c] EXCEPT !.at = "agent", !.seen.run = q]
<1>3. /\ Shape(k) /\ k.at = "agent" /\ k.seen \in FlowSeen /\ k.seen.run = q
      /\ k.seen.left = call[c].seen.left /\ k.seen.results = 0
  <2>1. Shape(k) /\ k.at = "agent" /\ k.seen = [call[c].seen EXCEPT !.run = q]
    BY <1>1 DEF Shaped, Shape, Fields
  <2>2. k.seen \in FlowSeen /\ k.seen.run = q /\ k.seen.left = call[c].seen.left
        /\ k.seen.results = call[c].seen.results
    BY <1>2, <2>1 DEF FlowSeen
  <2> QED
    BY <1>2, <2>1, <2>2
<1>4. call' = [call EXCEPT ![c] = k]
  BY <1>1
<1> HIDE DEF k
<1>5. Shaped' /\ call'[c] = k /\ \A d \in Calls \ {c} : call'[d] = call[d]
  BY <1>1, <1>3, <1>4, CallMoves
<1>6. /\ flowRuns'[q].status = "RUNNING"
      /\ done'[q].planned = call[c].seen.left /\ done'[q].ok = done[q].ok
      /\ \A r \in FlowRuns \ {q} : flowRuns'[r] = flowRuns[r] /\ done'[r] = done[r]
  BY <1>1, <1>2 DEF FlowTyped
<1>7. FlowTyped'
  BY <1>1, <1>2 DEF FlowTyped, FlowStatus, FlowSeen
<1>8. Earning(k) /\ Owes(k) /\ FlowCarries(k) /\ ~Earning(call[c]) /\ ~Owes(call[c])
  BY <1>1, <1>2, <1>3 DEF Earning, Owes, FlowCarries
<1>9. Balanced'
  <2>1. Rows' = Rows \cup {q}
    BY <1>2, <1>6 DEF Rows
  <2>2. Cardinality(Rows') = Cardinality(Rows) + 1
    BY <1>2, <2>1, RowsFinite, FS_AddElement
  <2>3. Cardinality(Owing') = Cardinality(Owing) + 1
    BY <1>5, <1>8, OwingMoves
  <2> QED
    BY <1>1, <2>2, <2>3, RowsFinite DEF FlowInv, FlowTyped, Balanced
<1>10. Earns(call[c])'
  <2>1. done[q].ok = 0
    BY <1>2 DEF FlowInv, Tells
  <2> QED
    BY <1>2, <1>3, <1>5, <1>6, <2>1 DEF Earns, FlowSeen
<1>11. \A d \in Calls : FlowCarries(call[d])'
  <2>1. ASSUME NEW d \in Calls \ {c} PROVE FlowCarries(call[d])'
    BY <1>5 DEF FlowInv, FlowCarries, Earning
  <2>2. FlowCarries(call[c])'
    BY <1>5, <1>8 DEF FlowCarries, Earning
  <2> QED
    BY <2>1, <2>2
<1>12. ASSUME NEW d \in Calls \ {c}, Earning(call[d])'
       PROVE  Earns(call[d])' /\ Earning(call[d]) /\ call'[d] = call[d] /\ call[d].seen.run # q
  <2>1. Earning(call[d]) /\ call'[d] = call[d]
    BY <1>5, <1>12 DEF Earning
  <2>2. call[d].seen.run \in FlowRuns /\ Earns(call[d])
    BY <2>1 DEF FlowInv, FlowCarries
  <2>3. call[d].seen.run # q
    BY <1>2, <2>2 DEF Earns
  <2> QED
    BY <1>6, <2>1, <2>2, <2>3 DEF Earns
<1>13. ASSUME NEW d \in Calls, NEW e \in Calls, Earning(call[d])', Earning(call[e])',
              call'[d].seen.run = call'[e].seen.run
       PROVE  d = e
  BY <1>3, <1>5, <1>12, <1>13 DEF FlowInv
<1>14. ASSUME NEW r \in FlowRuns PROVE Tells(r)'
  BY <1>6 DEF FlowInv, Tells
<1>15. ASSUME faults' = 0, NEW r \in FlowRuns, flowRuns'[r].status = "RUNNING"
       PROVE  \E d \in Calls : Earning(call[d])' /\ call'[d].seen.run = r
  <2>1. CASE r = q
    BY <1>3, <1>5, <1>8, <2>1 DEF Earning
  <2>2. CASE r # q
    <3>1. faults = 0 /\ flowRuns[r].status = "RUNNING"
      BY <1>1, <1>6, <1>15, <2>2
    <3>2. PICK d \in Calls : Earning(call[d]) /\ call[d].seen.run = r
      BY <3>1 DEF FlowInv
    <3>3. d # c
      BY <1>8, <3>2
    <3> QED
      BY <1>5, <3>2, <3>3 DEF Earning
  <2> QED
    BY <2>1, <2>2
<1>16. \A d \in Calls : Earning(call[d])' => Earns(call[d])'
  BY <1>10, <1>12
<1>17. Shaped' /\ faults' \in Nat
  BY <1>1, <1>5 DEF FlowInv
<1> QED
  BY <1>7, <1>9, <1>11, <1>13, <1>14, <1>15, <1>16, <1>17 DEF FlowInv

LEMMA FindStepAgentKeeps == ASSUME FlowInv, NEW c \in Calls, FindStepAgent(c) PROVE FlowInv'
<1>0. PICK q : q = call[c].seen.run
  OBVIOUS
<1>1. PICK l \in {"execute", "catch"} :
        /\ call[c].at = "agent" /\ FlowCarries(call[c]) /\ Earning(call[c]) /\ Earns(call[c])
        /\ Shaped /\ FlowTyped /\ Goto(c, l) /\ UNCHANGED <<flow, flowRuns, done, faults>>
  BY DEF FindStepAgent, At, FlowInv, flowData, Steady, Earning
<1>2. /\ Shaped' /\ \A d \in Calls \ {c} : call'[d] = call[d]
      /\ call'[c].at = l /\ call'[c].seen = call[c].seen
  BY <1>1, GotoMoves
<1>3. q \in FlowRuns /\ Tells(q) /\ flowRuns[q].status # "NONE"
  BY <1>0, <1>1 DEF FlowInv, FlowCarries, Earns
<1>4. Earning(call'[c]) /\ FlowCarries(call'[c])
  BY <1>1, <1>2 DEF FlowCarries, Earning
<1>5. Earns(call[c])'
  BY <1>1, <1>2 DEF Earns
<1>6. Owes(call[c]) /\ Owes(call'[c])
  BY <1>1, <1>2, <1>4 DEF Owes
<1>7. FlowTyped'
  BY <1>1 DEF FlowTyped
<1>8. Tells(q)'
  BY <1>1, <1>3 DEF Tells
<1> QED
  BY <1>0, <1>1, <1>2, <1>3, <1>4, <1>5, <1>6, <1>7, <1>8, FlowRunMoves

LEMMA SeenMoves ==
  ASSUME NEW seen \in FlowSeen, NEW left, NEW count
  PROVE  [[seen EXCEPT !.left = left] EXCEPT !.results = count]
           = [run |-> seen.run, left |-> left, results |-> count]
<1> DEFINE one == [seen EXCEPT !.left = left]
           two == [one EXCEPT !.results = count]
<1>1. one = [run |-> seen.run, left |-> left, results |-> seen.results]
  BY DEF FlowSeen
<1>2. two = [run |-> seen.run, left |-> left, results |-> count]
  <2> HIDE DEF one
  <2> QED
    BY <1>1
<1> QED
  BY <1>2

LEMMA SeenReads ==
  ASSUME NEW k, NEW q, NEW left, NEW count,
         k.seen = [run |-> q, left |-> left, results |-> count]
  PROVE  k.seen.run = q /\ k.seen.left = left /\ k.seen.results = count
  OBVIOUS

LEMMA ExecuteStepKeeps == ASSUME FlowInv, NEW c \in Calls, ExecuteStep(c) PROVE FlowInv'
<1> DEFINE left == call[c].seen.left - 1
           goes(outcome) == IF Aborts(outcome) THEN "abort" ELSE IF left = 0 THEN "finish" ELSE "agent"
           writes(outcome) == IF ~Aborts(outcome) /\ left = 0 THEN {"row", "count"} ELSE {}
<1>0. PICK q : q = call[c].seen.run
  OBVIOUS
<1>1. PICK outcome \in {"COMPLETED", "FAILED", "throws"} :
        /\ IF outcome = "throws" THEN Goto(c, "catch") /\ UNCHANGED done
           ELSE /\ call' = [call EXCEPT ![c].at = goes(outcome), ![c].seen.left = left,
                                        ![c].seen.results = @ + 1, ![c].todo = writes(outcome)]
                /\ done' = [done EXCEPT ![q].ok =
                              IF outcome = "COMPLETED" THEN @ + 1 ELSE @]
  BY <1>0 DEF ExecuteStep
<1>2. /\ call[c].at = "execute" /\ FlowCarries(call[c]) /\ Earning(call[c]) /\ Earns(call[c])
      /\ Shaped /\ FlowTyped /\ UNCHANGED <<flow, flowRuns, faults>>
  BY DEF ExecuteStep, At, FlowInv, Steady, Earning
<1>3. /\ q \in FlowRuns /\ flowRuns[q].status = "RUNNING" /\ Tells(q)
      /\ call[c].seen \in FlowSeen /\ call[c].seen.left # 0 /\ call[c].seen.results = done[q].ok
      /\ call[c].seen.results + call[c].seen.left = done[q].planned
  <2>1. call[c].seen \in FlowSeen /\ q \in FlowRuns
    BY <1>0, <1>2 DEF FlowCarries
  <2>2. /\ call[c].seen.left # 0 /\ call[c].seen.results = done[q].ok
        /\ flowRuns[q].status = "RUNNING"
        /\ call[c].seen.results + call[c].seen.left = done[q].planned
    BY <1>0, <1>2 DEF Earns
  <2>3. Tells(q)
    BY <2>1 DEF FlowInv
  <2> QED
    BY <2>1, <2>2, <2>3
<1>4. /\ done[q].planned \in 0 .. MaxSteps /\ done[q].ok \in 0 .. MaxSteps
      /\ left \in 0 .. MaxSteps /\ call[c].seen.results + 1 \in 0 .. MaxSteps
      /\ call[c].seen.left \in 0 .. MaxSteps /\ call[c].seen.results \in 0 .. MaxSteps
  <2>1. done[q].planned \in 0 .. MaxSteps /\ done[q].ok \in 0 .. MaxSteps
    BY <1>2, <1>3 DEF FlowTyped
  <2>2. call[c].seen.left \in 0 .. MaxSteps /\ call[c].seen.results \in 0 .. MaxSteps
    BY <1>3 DEF FlowSeen
  <2> QED
    BY <1>3, <2>1, <2>2
<1>5. CASE outcome = "throws"
  <2>1. /\ Shaped' /\ \A d \in Calls \ {c} : call'[d] = call[d] /\ UNCHANGED done
        /\ call'[c].at = "catch" /\ call'[c].seen = call[c].seen
    BY <1>1, <1>2, <1>5, GotoMoves
  <2>2. Earning(call'[c]) /\ FlowCarries(call'[c]) /\ Owes(call[c]) /\ Owes(call'[c])
    BY <1>2, <2>1 DEF FlowCarries, Earning, Owes
  <2>3. Earns(call[c])'
    BY <1>0, <1>2, <1>1, <1>3, <1>5, <2>1 DEF Earns
  <2>4. FlowTyped' /\ Tells(q)'
    BY <1>1, <1>2, <1>3, <1>5 DEF FlowTyped, Tells
  <2>5. UNCHANGED done
    BY <1>1, <1>5
  <2> QED
    BY <1>0, <1>1, <1>2, <1>3, <2>1, <2>2, <2>3, <2>4, <2>5, FlowRunMoves
<1>6. CASE outcome # "throws"
  <2> DEFINE a == goes(outcome)
             w == writes(outcome)
             x == call[c].seen.results + 1
             k == [call[c] EXCEPT !.at = a, !.seen.left = left, !.seen.results = x, !.todo = w]
  <2>0. call' = [call EXCEPT ![c].at = a, ![c].seen.left = left, ![c].seen.results = x, ![c].todo = w]
    BY <1>1, <1>6
  <2>1. /\ Shape(k) /\ k.at = goes(outcome) /\ k.todo = writes(outcome)
        /\ k.seen.left = left /\ k.seen.results = call[c].seen.results + 1 /\ k.seen.run = q
        /\ k.seen = [run |-> q, left |-> left, results |-> call[c].seen.results + 1]
    <3> HIDE DEF left, a, w, x
    <3> DEFINE e1 == [call[c] EXCEPT !.at = a]
               e2 == [e1 EXCEPT !.seen.left = left]
               e3 == [e2 EXCEPT !.seen.results = x]
    <3>0. Shape(call[c])
      BY <1>2 DEF Shaped
    <3>a. Shape(e1) /\ e1.at = a /\ e1.seen = call[c].seen
      BY <3>0 DEF Shape, Fields
    <3>b. Shape(e2) /\ e2.at = a /\ e2.seen = [call[c].seen EXCEPT !.left = left]
      <4> HIDE DEF e1
      <4> QED
        BY <3>a DEF Shape, Fields
    <3>c. Shape(e3) /\ e3.at = a
          /\ e3.seen = [[call[c].seen EXCEPT !.left = left] EXCEPT !.results = x]
      <4> HIDE DEF e2
      <4> QED
        BY <3>b DEF Shape, Fields
    <3>1. Shape(k) /\ k.at = a /\ k.todo = w
          /\ k.seen = [[call[c].seen EXCEPT !.left = left] EXCEPT !.results = x]
      <4>1. k = [e3 EXCEPT !.todo = w]
        OBVIOUS
      <4> HIDE DEF e3, k
      <4> QED
        BY <3>c, <4>1 DEF Shape, Fields
    <3>2. call[c].seen \in FlowSeen /\ call[c].seen.run = q
      BY <1>0, <1>3
    <3>3. k.seen = [run |-> q, left |-> left, results |-> x]
      <4> HIDE DEF k
      <4> QED
        BY <3>1, <3>2, SeenMoves
    <3>4. Shape(k) /\ k.at = a /\ k.todo = w /\ k.seen.left = left /\ k.seen.results = x
          /\ k.seen.run = q
      <4> HIDE DEF k
      <4>1. k.seen.run = q /\ k.seen.left = left /\ k.seen.results = x
        BY <3>3, SeenReads
      <4> QED
        BY <3>1, <4>1
    <3> HIDE DEF k
    <3> QED
      BY <3>3, <3>4 DEF a, w, x
  <2>2. k.seen \in FlowSeen
    BY <1>3, <1>4, <2>1 DEF FlowSeen
  <2>3. call' = [call EXCEPT ![c] = k]
    <3> HIDE DEF left, a, w, x
    <3> DEFINE e1 == [call EXCEPT ![c].at = a]
               e2 == [e1 EXCEPT ![c].seen.left = left]
               e3 == [e2 EXCEPT ![c].seen.results = x]
               k1 == [call[c] EXCEPT !.at = a]
               k2 == [k1 EXCEPT !.seen.left = left]
               k3 == [k2 EXCEPT !.seen.results = x]
    <3>1. e1 = [call EXCEPT ![c] = k1] /\ e1[c] = k1 /\ e1 = [d \in Calls |-> e1[d]]
      BY <1>2 DEF Shaped
    <3>2. e2 = [call EXCEPT ![c] = k2] /\ e2[c] = k2 /\ e2 = [d \in Calls |-> e2[d]]
      <4> HIDE DEF e1, k1
      <4> QED
        BY <1>2, <3>1 DEF Shaped
    <3>3. e3 = [call EXCEPT ![c] = k3] /\ e3[c] = k3 /\ e3 = [d \in Calls |-> e3[d]]
      <4> HIDE DEF e2, k2
      <4> QED
        BY <1>2, <3>2 DEF Shaped
    <3>4. [e3 EXCEPT ![c].todo = w] = [call EXCEPT ![c] = [k3 EXCEPT !.todo = w]]
      <4> HIDE DEF e3, k3
      <4> QED
        BY <1>2, <3>3 DEF Shaped
    <3> QED
      BY <2>0, <3>4
  <2> HIDE DEF k
  <2>4. Shaped' /\ call'[c] = k /\ \A d \in Calls \ {c} : call'[d] = call[d]
    BY <1>2, <2>1, <2>3, CallMoves
  <2>5. done' = [done EXCEPT ![q].ok = IF outcome = "COMPLETED" THEN @ + 1 ELSE @]
    BY <1>1, <1>6
  <2>6. /\ done'[q].planned = done[q].planned
        /\ done'[q].ok = IF outcome = "COMPLETED" THEN done[q].ok + 1 ELSE done[q].ok
        /\ \A r \in FlowRuns \ {q} : done'[r] = done[r]
    BY <1>2, <1>3, <2>5 DEF FlowTyped
  <2>7. FlowTyped'
    <3>1. done[q].ok + 1 \in 0 .. MaxSteps
      BY <1>3, <1>4
    <3> QED
      BY <1>2, <1>3, <2>5, <3>1 DEF FlowTyped
  <2>8. Earning(k) /\ Owes(k) /\ Owes(call[c]) /\ FlowCarries(k)
    BY <1>2, <1>3, <2>1, <2>2 DEF Earning, Owes, FlowCarries
  <2>9. Earning(call'[c]) /\ FlowCarries(call'[c]) /\ Owes(call'[c])
    BY <2>4, <2>8
  <2>10. Earns(call[c])'
    <3>1. /\ flowRuns' = flowRuns /\ call'[c].seen.run = q /\ call'[c].seen.left = left
          /\ call'[c].seen.results = call[c].seen.results + 1
          /\ call'[c].at = goes(outcome) /\ call'[c].todo = writes(outcome)
      BY <1>2, <2>1, <2>4
    <3>2. CASE outcome = "FAILED"
      <4>1. call'[c].at = "abort" /\ done'[q].ok = done[q].ok
        BY <2>6, <3>1, <3>2 DEF Aborts
      <4> QED
        BY <1>3, <1>4, <2>6, <3>1, <4>1 DEF Earns
    <3>3. CASE outcome = "COMPLETED"
      <4>1. /\ done'[q].ok = done[q].ok + 1
            /\ \/ left = 0 /\ call'[c].at = "finish" /\ call'[c].todo = {"row", "count"}
               \/ left # 0 /\ call'[c].at = "agent"
        BY <2>6, <3>1, <3>3 DEF Aborts
      <4> QED
        BY <1>3, <1>4, <2>6, <3>1, <4>1 DEF Earns
    <3> QED
      BY <1>6, <3>2, <3>3
  <2>11. Tells(q)'
    BY <1>2, <1>3, <2>6 DEF Tells
  <2> QED
    BY <1>0, <1>1, <1>2, <1>3, <2>1, <2>4, <2>6, <2>7, <2>8, <2>9, <2>10, <2>11, FlowRunMoves
<1> QED
  BY <1>5, <1>6

(* The row the handler writes when the run ends.                           *)
LEMMA EndsOneRow ==
  ASSUME FlowInv, NEW c \in Calls, Earning(call[c]), NEW q, q = call[c].seen.run,
         NEW status \in FlowStatus, flowRuns' = Ended(c, status), UNCHANGED <<flow, done>>
  PROVE  /\ q \in FlowRuns /\ FlowTyped'
         /\ flowRuns'[q].status = status /\ flowRuns'[q].results = call[c].seen.results
         /\ \A r \in FlowRuns \ {q} : flowRuns'[r] = flowRuns[r] /\ done'[r] = done[r]
<1>1. /\ q \in FlowRuns /\ call[c].seen.results \in 0 .. MaxSteps /\ FlowTyped
      /\ flowRuns' = [flowRuns EXCEPT ![q] = [status |-> status, results |-> call[c].seen.results]]
  BY DEF FlowInv, FlowCarries, FlowSeen, Ended
<1> QED
  BY <1>1 DEF FlowTyped

LEMMA MarkFailedKeeps == ASSUME FlowInv, NEW c \in Calls, MarkFailed(c) PROVE FlowInv'
<1>0. PICK q : q = call[c].seen.run
  OBVIOUS
<1>1. PICK l : /\ (call[c].at = "abort" /\ l = "tally") \/ (call[c].at = "catch" /\ l = "recount")
               /\ Goto(c, l)
  BY DEF MarkFailed, At
<1>2. /\ Earning(call[c]) /\ Earns(call[c]) /\ FlowCarries(call[c]) /\ Shaped /\ FlowTyped
      /\ flowRuns' = Ended(c, "FAILED") /\ UNCHANGED <<flow, done, faults>>
  BY <1>1 DEF MarkFailed, FlowInv, Steady, Earning
<1>3. /\ Shaped' /\ \A d \in Calls \ {c} : call'[d] = call[d]
      /\ call'[c].at = l /\ call'[c].seen = call[c].seen
  BY <1>1, <1>2, GotoMoves
<1>4. /\ q \in FlowRuns /\ FlowTyped'
      /\ flowRuns'[q].status = "FAILED" /\ flowRuns'[q].results = call[c].seen.results
      /\ \A r \in FlowRuns \ {q} : flowRuns'[r] = flowRuns[r] /\ done'[r] = done[r]
  BY <1>0, <1>2, EndsOneRow DEF FlowStatus
<1>5. /\ done[q].ok \in Nat /\ call[c].seen.results \in Nat
      /\ call[c].seen.results = done[q].ok \/ call[c].seen.results = done[q].ok + 1
  BY <1>0, <1>2, <1>4 DEF Earns, FlowTyped, FlowCarries, FlowSeen
<1>6. Tells(q)'
  BY <1>2, <1>4, <1>5 DEF Tells
<1>7. Earning(call'[c]) /\ FlowCarries(call'[c]) /\ Owes(call[c]) /\ Owes(call'[c])
  BY <1>1, <1>2, <1>3 DEF Earning, FlowCarries, Owes
<1>8. Earns(call[c])'
  BY <1>0, <1>1, <1>2, <1>3, <1>4 DEF Earns
<1> QED
  BY <1>0, <1>2, <1>3, <1>4, <1>6, <1>7, <1>8, FlowRunMoves

LEMMA CountsOne ==
  ASSUME FlowTyped, UNCHANGED <<flowRuns, done>>, flow' \in {flow, Counted}
  PROVE  FlowTyped' /\ flow'.count \in {flow.count, flow.count + 1}
         /\ (flow' = Counted => flow'.count = flow.count + 1)
  BY DEF FlowTyped, Counted

LEMMA CountFailedKeeps == ASSUME FlowInv, NEW c \in Calls, CountFailed(c) PROVE FlowInv'
<1>0. PICK q : q = call[c].seen.run
  OBVIOUS
<1>1. /\ call[c].at \in {"tally", "recount"} /\ Earning(call[c]) /\ Earns(call[c])
      /\ FlowCarries(call[c]) /\ Shaped /\ FlowTyped /\ Answer(c)
      /\ flow' = Counted /\ UNCHANGED <<flowRuns, done, faults>>
  BY DEF CountFailed, At, FlowInv, Steady, Earning
<1>2. /\ Shaped' /\ \A d \in Calls \ {c} : call'[d] = call[d] /\ call'[c] = NoCall
  BY <1>1, AnswerMoves
<1>3. q \in FlowRuns /\ Tells(q) /\ flowRuns[q].status = "FAILED"
  BY <1>0, <1>1 DEF FlowInv, FlowCarries, Earns
<1>4. Owes(call[c]) /\ Tells(q)'
  BY <1>1, <1>3 DEF Owes, Tells
<1>5. FlowTyped' /\ flow'.count = flow.count + 1
  BY <1>1, CountsOne
<1>6. call'[c] = NoCall
  BY <1>1, AnswerMoves
<1>7. ~Earning(call'[c]) /\ FlowCarries(call'[c]) /\ ~Owes(call'[c])
  BY <1>6, NoCallOwesNothing
<1> QED
  BY <1>0, <1>1, <1>2, <1>3, <1>4, <1>5, <1>7, FlowRunMoves

LEMMA FinishFlowKeeps ==
  ASSUME FlowInv, NEW c \in Calls, NEW w \in {"row", "count"}, FinishFlow(c, w)
  PROVE  FlowInv'
<1>0. PICK q : q = call[c].seen.run
  OBVIOUS
<1>1. /\ call[c].at = "finish" /\ w \in call[c].todo
      /\ Earning(call[c]) /\ Earns(call[c]) /\ FlowCarries(call[c]) /\ Shaped /\ FlowTyped
      /\ flowRuns' = IF w = "row" THEN Ended(c, "COMPLETED") ELSE flowRuns
      /\ flow' = IF w = "count" THEN Counted ELSE flow
      /\ IF call[c].todo = {w} THEN Answer(c) ELSE call' = [call EXCEPT ![c].todo = @ \ {w}]
      /\ UNCHANGED <<done, faults>>
  BY DEF FinishFlow, At, FlowInv, Steady, Earning
<1>2. /\ q \in FlowRuns /\ Tells(q) /\ flowRuns[q].status # "NONE"
      /\ call[c].seen.left = 0 /\ call[c].seen.results = done[q].ok
      /\ "row" \in call[c].todo \/ flowRuns[q].status = "COMPLETED"
      /\ call[c].seen.results = done[q].planned
  <2>1. call[c].seen \in FlowSeen /\ q \in FlowRuns /\ Tells(q)
    BY <1>0, <1>1 DEF FlowInv, FlowCarries
  <2>2. /\ flowRuns[q].status # "NONE"
        /\ call[c].seen.left = 0 /\ call[c].seen.results = done[q].ok
        /\ "row" \in call[c].todo \/ flowRuns[q].status = "COMPLETED"
        /\ call[c].seen.results + call[c].seen.left = done[q].planned
    BY <1>0, <1>1 DEF Earns
  <2> QED
    BY <2>1, <2>2 DEF FlowSeen
<1>3. /\ Shaped' /\ \A d \in Calls \ {c} : call'[d] = call[d]
      /\ \/ call'[c] = NoCall /\ call[c].todo = {w}
         \/ /\ call'[c].at = "finish" /\ call'[c].seen = call[c].seen
            /\ call'[c].todo = call[c].todo \ {w}
  <2>1. CASE call[c].todo = {w}
    BY <1>1, <2>1, AnswerMoves
  <2>2. CASE call[c].todo # {w}
    <3> DEFINE k == [call[c] EXCEPT !.todo = @ \ {w}]
    <3>1. Shape(k) /\ k.at = "finish" /\ k.seen = call[c].seen /\ k.todo = call[c].todo \ {w}
      BY <1>1 DEF Shaped, Shape, Fields
    <3>2. call' = [call EXCEPT ![c] = k]
      BY <1>1, <2>2
    <3> HIDE DEF k
    <3> QED
      BY <1>1, <3>1, <3>2, CallMoves
  <2> QED
    BY <2>1, <2>2
<1>4. FlowCarries(call'[c])
  BY <1>1, <1>3, NoCallOwesNothing DEF FlowCarries, Earning
<1>5. CASE w = "row"
  <2>1. flowRuns' = Ended(c, "COMPLETED") /\ UNCHANGED <<flow, done>>
    BY <1>1, <1>5
  <2>2. /\ FlowTyped'
        /\ flowRuns'[q].status = "COMPLETED" /\ flowRuns'[q].results = call[c].seen.results
        /\ \A r \in FlowRuns \ {q} : flowRuns'[r] = flowRuns[r] /\ done'[r] = done[r]
    BY <1>0, <1>1, <2>1, EndsOneRow DEF FlowStatus
  <2>3. Tells(q)' /\ flowRuns'[q].status # "NONE" /\ flowRuns'[q].status # "RUNNING"
    BY <1>2, <2>1, <2>2 DEF Tells
  <2>4. Earning(call'[c]) => call'[c].seen.run = q /\ Earns(call[c])'
    <3>1. ASSUME Earning(call'[c])
          PROVE  call'[c].at = "finish" /\ call'[c].seen = call[c].seen
      BY <1>3, <3>1, NoCallOwesNothing
    <3>2. ASSUME Earning(call'[c]) PROVE Earns(call[c])'
      BY <1>0, <1>1, <2>1, <2>2, <3>1, <3>2 DEF Earns
    <3> QED
      BY <1>0, <3>1, <3>2
  <2>5. Owes(call[c]) <=> Owes(call'[c])
    BY <1>1, <1>3, <1>5, NoCallOwesNothing DEF Owes, Earning
  <2>6. flow'.count = flow.count /\ faults' = faults
    BY <1>1, <2>1
  <2> QED
    BY <1>0, <1>1, <1>2, <1>3, <1>4, <2>2, <2>3, <2>4, <2>5, <2>6, FlowRunMoves
<1>6. CASE w = "count"
  <2>1. flow' = Counted /\ UNCHANGED <<flowRuns, done>>
    BY <1>1, <1>6
  <2>2. FlowTyped' /\ flow'.count = flow.count + 1
    BY <1>1, <2>1, CountsOne
  <2>3. Tells(q)'
    BY <1>2, <2>1 DEF Tells
  <2>4. Earning(call'[c]) => call'[c].seen.run = q /\ Earns(call[c])'
    <3>1. ASSUME Earning(call'[c])
          PROVE  /\ call'[c].at = "finish" /\ call'[c].seen = call[c].seen
                 /\ "row" \in call[c].todo => "row" \in call'[c].todo
      BY <1>3, <1>6, <3>1, NoCallOwesNothing
    <3>2. ASSUME Earning(call'[c]) PROVE Earns(call[c])'
      BY <1>0, <1>1, <1>2, <2>1, <3>1, <3>2 DEF Earns
    <3> QED
      BY <1>0, <3>1, <3>2
  <2>5. Owes(call[c]) /\ ~Owes(call'[c])
    BY <1>1, <1>3, <1>6, NoCallOwesNothing DEF Owes, Earning
  <2>6. \A r \in FlowRuns \ {q} : flowRuns'[r] = flowRuns[r] /\ done'[r] = done[r]
    BY <2>1
  <2>7. Earning(call'[c]) \/ flowRuns'[q].status # "RUNNING"
    <3>1. CASE call[c].todo = {w}
      BY <1>2, <1>6, <2>1, <3>1
    <3>2. CASE call[c].todo # {w}
      BY <1>3, <3>2 DEF Earning
    <3> QED
      BY <3>1, <3>2
  <2>8. flowRuns'[q].status # "NONE" /\ faults' = faults
    BY <1>1, <1>2, <2>1
  <2> QED
    BY <1>0, <1>1, <1>3, <1>4, <2>2, <2>3, <2>4, <2>5, <2>6, <2>7, <2>8, FlowRunMoves
<1> QED
  BY <1>5, <1>6

LEMMA RejectFlowKeeps == ASSUME FlowInv, NEW c \in Calls, RejectFlow(c) PROVE FlowInv'
<1>0. PICK q : q = call[c].seen.run
  OBVIOUS
<1>1. /\ call[c].at \in {"abort", "tally"}
      /\ Earning(call[c]) /\ Earns(call[c]) /\ FlowCarries(call[c]) /\ Shaped /\ FlowTyped
      /\ flow' \in {flow, Counted} /\ Goto(c, "catch") /\ faults' = faults + 1
      /\ UNCHANGED <<flowRuns, done>>
  BY DEF RejectFlow, At, FlowInv, Earning
<1>2. /\ Shaped' /\ \A d \in Calls \ {c} : call'[d] = call[d]
      /\ call'[c].at = "catch" /\ call'[c].seen = call[c].seen
  BY <1>1, GotoMoves
<1>3. q \in FlowRuns /\ Tells(q) /\ flowRuns[q].status # "NONE"
  BY <1>0, <1>1 DEF FlowInv, FlowCarries, Earns
<1>4. FlowTyped' /\ flow'.count \in {flow.count, flow.count + 1}
  BY <1>1, CountsOne
<1>5. Earning(call'[c]) /\ FlowCarries(call'[c]) /\ Owes(call[c]) /\ Owes(call'[c])
  BY <1>1, <1>2 DEF Earning, FlowCarries, Owes
<1>6. Earns(call[c])'
  BY <1>1, <1>2 DEF Earns
<1>7. Tells(q)'
  BY <1>1, <1>3 DEF Tells
<1> QED
  BY <1>0, <1>1, <1>2, <1>3, <1>4, <1>5, <1>6, <1>7, FlowRunMoves

(* A call that ends where it is: a check refuses it, or an await rejects.  *)
LEMMA RefuseFlowKeeps == ASSUME FlowInv, NEW c \in Calls, RefuseFlow(c) PROVE FlowInv'
<1>1. /\ Shaped /\ FlowTyped /\ Answer(c) /\ UNCHANGED <<flow, flowRuns, done, faults>>
      /\ ~Earning(call[c])
  BY DEF RefuseFlow, FlowInv, Steady, flowData, Earning
<1>2. Shaped' /\ (\A d \in Calls \ {c} : call'[d] = call[d]) /\ call'[c] = NoCall
  BY <1>1, AnswerMoves
<1>3. FlowTyped'
  BY <1>1 DEF FlowTyped
<1> QED
  BY <1>1, <1>2, <1>3, NoCallOwesNothing, FlowReads

LEMMA BreakFlowKeeps == ASSUME FlowInv, NEW c \in Calls, BreakFlow(c) PROVE FlowInv'
<1>0. PICK q : q = call[c].seen.run
  OBVIOUS
<1>1. /\ Shaped /\ FlowTyped /\ faults \in Nat /\ Answer(c) /\ UNCHANGED <<flow, flowRuns, done>>
      /\ faults' = faults + 1 /\ FlowCarries(call[c])
  BY DEF BreakFlow, Break, FlowInv, flowData
<1>2. Shaped' /\ (\A d \in Calls \ {c} : call'[d] = call[d]) /\ call'[c] = NoCall
  BY <1>1, AnswerMoves
<1>3. FlowTyped'
  BY <1>1 DEF FlowTyped
<1>4. ~Earning(call'[c]) /\ FlowCarries(call'[c]) /\ ~Owes(call'[c])
  BY <1>2, NoCallOwesNothing
<1>5. CASE ~Earning(call[c])
  BY <1>1, <1>2, <1>3, <1>4, <1>5, FlowReads
<1>6. CASE Earning(call[c])
  <2>1. q \in FlowRuns /\ Tells(q) /\ flowRuns[q].status # "NONE"
    BY <1>0, <1>1, <1>6 DEF FlowInv, FlowCarries, Earns
  <2>2. Tells(q)' /\ faults' # 0
    BY <1>1, <2>1 DEF Tells
  <2> QED
    BY <1>0, <1>1, <1>2, <1>3, <1>4, <1>6, <2>1, <2>2, FlowRunMoves
<1> QED
  BY <1>5, <1>6

-----------------------------------------------------------------------------
LEMMA FlowInitOK == FlowInit => FlowInv
<1> SUFFICES ASSUME FlowInit PROVE FlowInv
  OBVIOUS
<1>1. Shaped /\ (\A c \in Calls : call[c] = NoCall) /\ faults = 0
  BY ShapedAtFirst DEF FlowInit, HandlersInit
<1>2. FlowTyped /\ flow.count = 0
  BY DEF FlowInit, FlowTyped, FlowStatus
<1>3. \A r \in FlowRuns : flowRuns[r].status = "NONE" /\ done[r].ok = 0
  BY DEF FlowInit
<1>4. Rows = {} /\ Owing = {}
  BY <1>1, <1>3, NoCallOwesNothing DEF Rows, Owing
<1>5. Balanced
  BY <1>1, <1>2, <1>4, FS_EmptySet DEF Balanced
<1>6. \A r \in FlowRuns : Tells(r)
  BY <1>3 DEF Tells
<1>7. \A c \in Calls : FlowCarries(call[c]) /\ ~Earning(call[c])
  BY <1>1, NoCallOwesNothing
<1>8. \A r \in FlowRuns : flowRuns[r].status # "RUNNING"
  BY <1>3
<1> QED
  BY <1>1, <1>2, <1>5, <1>6, <1>7, <1>8 DEF FlowInv

LEMMA FlowStep == FlowInv /\ [FlowNext]_flowVars => FlowInv'
<1> SUFFICES ASSUME FlowInv, [FlowNext]_flowVars PROVE FlowInv'
  OBVIOUS
<1>1. CASE UNCHANGED flowVars
  <2>1. UNCHANGED <<call, faults, flow, flowRuns, done>>
    BY <1>1 DEF flowVars, flowData, handlerVars
  <2>2. Rows' = Rows /\ Owing' = Owing
    BY <2>1 DEF Rows, Owing, Owes, Earning
  <2>3. Balanced' /\ FlowTyped' /\ Shaped' /\ faults' \in Nat
    BY <2>1, <2>2 DEF FlowInv, Balanced, FlowTyped, Shaped
  <2>4. \A c \in Calls : FlowCarries(call[c])' /\ (Earning(call[c])' => Earns(call[c])')
    BY <2>1 DEF FlowInv, FlowCarries, Earning, Earns
  <2>5. \A r \in FlowRuns : Tells(r)'
    BY <2>1 DEF FlowInv, Tells
  <2> QED
    BY <2>1, <2>3, <2>4, <2>5 DEF FlowInv, Earning
<1> QED
  BY <1>1, ServeFlowKeeps, FindFlowKeeps, WriteFlowKeeps, LoadFlowKeeps, RecordFlowKeeps,
     FindStepAgentKeeps, ExecuteStepKeeps, MarkFailedKeeps, CountFailedKeeps, FinishFlowKeeps,
     RefuseFlowKeeps, RejectFlowKeeps, BreakFlowKeeps DEF FlowNext

(* However runs, edits and deletions of a workflow overlap and fail, a row *)
(* that says COMPLETED is of a run all of whose steps completed, a row     *)
(* that says FAILED kept the results so far, and the workflow's counter    *)
(* differs from the rows by no more than the awaits that failed.           *)
THEOREM FinishedRunsToldTheTruth == FlowSpec => []WorkflowRunsSettle
<1>1. FlowInv => WorkflowRunsSettle
  <2> SUFFICES ASSUME FlowInv PROVE WorkflowRunsSettle
    OBVIOUS
  <2>1. \A r \in Rows : r \in FlowRuns /\ Tells(r)
    BY DEF FlowInv, Rows
  <2>2. flow.count \in Nat /\ faults \in Nat /\ Balanced
    BY DEF FlowInv, FlowTyped
  <2>3. flow.count <= Cardinality(Rows) + faults
    BY <2>2, RowsFinite DEF Balanced
  <2>4. ASSUME Quiet
        PROVE  /\ \A c \in Calls : ~Earning(call[c])
               /\ Cardinality(Rows) <= flow.count + faults
    <3>1. (\A c \in Calls : ~Earning(call[c])) /\ Owing = {}
      BY <2>4 DEF Quiet, At, Owing, Owes, Earning
    <3> QED
      BY <2>2, <3>1, FS_EmptySet DEF Balanced
  <2>5. ASSUME Quiet, faults = 0 PROVE \A r \in Rows : flowRuns[r].status # "RUNNING"
    BY <2>1, <2>4, <2>5 DEF FlowInv
  <2> QED
    BY <2>1, <2>3, <2>4, <2>5 DEF WorkflowRunsSettle, Tells
<1> QED
  BY <1>1, FlowInitOK, FlowStep, PTL DEF FlowSpec

-----------------------------------------------------------------------------
(* Who may run an agent.                                                   *)

(* The awaits between the read of the agent and the answer.                *)
Checking == {"membership", "resolve", "grant", "admitted"}

(* What a handler carries from one await to the next.                      *)
AccessCarries(k) ==
  /\ k.at \in AccessLabels
  /\ k.at \in Checking \cup {"load", "roster"} => k.user \in People
  /\ k.at \in {"owned", "permission"} /\ k.op = "grant" => k.arg \in People
  /\ k.at = "permission" => k.op = "revoke"
  /\ k.at \in {"existing", "create"} => k.arg \in People
  /\ k.at = "roster" => k.arg \in Teams
  /\ k.at \in Checking => k.seen \in Row /\ k.seen.made
  /\ k.at = "membership" => k.seen.team \in Teams

(* One of the views is that of the row the check began with.               *)
Saw(u, row, views) ==
  \E v \in views : /\ v.live <=> row.status # "ARCHIVED"
                   /\ v.owner <=> Owner = u
                   /\ v.public <=> row.public
                   /\ v.team = row.team

NoMember(row, views) == row.team = Nobody \/ \E v \in views : row.team \notin v.teams

Grounded(views) == \/ \E v \in views : v.owner \/ v.public \/ v.grant
                   \/ \E v, w \in views : v.team \in w.teams

(* What a check has established so far, of the views it has had.           *)
Checks(k, views) ==
  /\ k.at \in Checking => Saw(k.user, k.seen, views)
  /\ k.at \in {"resolve", "grant"} => Owner # k.user /\ NoMember(k.seen, views)
  /\ k.at = "grant" => \E v \in views : ~v.public
  /\ k.at = "admitted" => Rests(views)

(* While calls do not overlap the row that was read is still the row.      *)
Calmly(k, views) ==
  /\ k.at \in Checking => agent.made /\ k.seen = agent
  /\ k.at = "admitted" => RestsAtOnce(views)

JobsRest == \A job \in jobs : /\ job.user \in People /\ Rests(job.views)
                              /\ calm => RestsAtOnce(job.views)

AccessTyped ==
  /\ agent \in Row /\ roster \in [People -> [Teams -> Membership]]
  /\ permissionIds \in Nat /\ grants \in [People -> 0 .. permissionIds]
  /\ turnedAway \subseteq Grounds \cup Teams

AccessInv ==
  /\ Shaped /\ Alone /\ calm \in BOOLEAN /\ faults \in Nat /\ AccessTyped /\ JobsRest
  /\ faults = 0 => turnedAway = {}
  /\ \A c \in Calls : AccessCarries(call[c])
  /\ \A c \in Calls : Checks(call[c], witnessed[c])
  /\ calm => \A c \in Calls : Calmly(call[c], witnessed[c])

-----------------------------------------------------------------------------
LEMMA ChecksGrow ==
  ASSUME NEW k, NEW views, NEW more, Checks(k, views), views \subseteq more
  PROVE  Checks(k, more)
  BY DEF Checks, Saw, NoMember, Rests

LEMMA Witnesses ==
  ASSUME Witness, NEW d \in Calls
  PROVE  /\ call'[d].at \in Checking => witnessed'[d] = witnessed[d] \cup {View(call[d].user)'}
         /\ call'[d].at \notin Checking => witnessed'[d] = {}
  BY DEF Witness, Checking

LEMMA NotCheckingIsFine ==
  ASSUME NEW k, k.at \notin Checking, NEW views
  PROVE  Checks(k, views) /\ Calmly(k, views)
  BY DEF Checks, Calmly, Checking

(* A step of handler c.                                                    *)
LEMMA AccessMoves ==
  ASSUME AccessInv, NEW c \in Calls, Shaped', \A d \in Calls \ {c} : call'[d] = call[d],
         Alone', calm' \in BOOLEAN, calm' => calm /\ \A d \in Calls \ {c} : At(d, "idle"),
         faults' \in Nat, Witness, AccessTyped', JobsRest', faults' = 0 => turnedAway' = {},
         AccessCarries(call'[c]), Checks(call'[c], witnessed'[c]),
         calm' => Calmly(call[c], witnessed[c])'
  PROVE  AccessInv'
<1>1. ASSUME NEW d \in Calls
      PROVE  AccessCarries(call'[d]) /\ Checks(call'[d], witnessed'[d])
  <2>1. CASE d = c
    BY <2>1
  <2>2. CASE d # c
    <3>1. call'[d] = call[d] /\ AccessCarries(call[d]) /\ Checks(call[d], witnessed[d])
      BY <2>2 DEF AccessInv
    <3>2. CASE call[d].at \in Checking
      <4>1. witnessed[d] \subseteq witnessed'[d]
        BY <3>1, <3>2, Witnesses
      <4> QED
        BY <3>1, <4>1, ChecksGrow
    <3>3. CASE call[d].at \notin Checking
      BY <3>1, <3>3, NotCheckingIsFine
    <3> QED
      BY <3>1, <3>2, <3>3
  <2> QED
    BY <2>1, <2>2
<1>2. ASSUME calm', NEW d \in Calls PROVE Calmly(call[d], witnessed[d])'
  <2>1. CASE d = c
    BY <1>2, <2>1
  <2>2. CASE d # c
    <3>1. call'[d].at = "idle"
      BY <1>2, <2>2 DEF At
    <3> QED
      BY <3>1 DEF Calmly, Checking
  <2> QED
    BY <2>1, <2>2
<1>3. \A d \in Calls : AccessCarries(call[d])' /\ Checks(call[d], witnessed[d])'
  BY <1>1 DEF AccessCarries, Checks
<1> QED
  BY <1>2, <1>3 DEF AccessInv

LEMMA StillAlone ==
  ASSUME AccessInv, NEW c \in Calls, \A d \in Calls \ {c} : call'[d] = call[d],
         call[c].at # "idle", calm' = calm
  PROVE  Alone' /\ calm' \in BOOLEAN /\ (calm' => calm /\ \A d \in Calls \ {c} : At(d, "idle"))
<1>1. Alone'
  BY AloneMoves DEF AccessInv, At
<1> QED
  BY <1>1 DEF AccessInv, Alone, At

(* A step of a handler that is not checking a run afterwards.              *)
LEMMA AccessLeaves ==
  ASSUME AccessInv, NEW c \in Calls, Shaped', \A d \in Calls \ {c} : call'[d] = call[d],
         call[c].at # "idle", calm' = calm, faults' \in Nat, Witness,
         AccessTyped', JobsRest', faults' = 0 => turnedAway' = {},
         AccessCarries(call'[c]), call'[c].at \notin Checking
  PROVE  AccessInv'
<1>1. Alone' /\ calm' \in BOOLEAN /\ (calm' => calm /\ \A d \in Calls \ {c} : At(d, "idle"))
  BY StillAlone
<1>2. Checks(call'[c], witnessed'[c])
  BY NotCheckingIsFine
<1>3. Calmly(call[c], witnessed[c])'
  BY DEF Calmly, Checking
<1> QED
  BY <1>1, <1>2, <1>3, AccessMoves

LEMMA NoCallChecksNothing == AccessCarries(NoCall) /\ NoCall.at \notin Checking
  BY DEF AccessCarries, NoCall, AccessLabels, Checking

(* A call that ends, whatever it has written.                              *)
LEMMA AccessEnds ==
  ASSUME AccessInv, NEW c \in Calls, Answer(c), call[c].at # "idle", calm' = calm,
         faults' \in Nat, Witness, AccessTyped', JobsRest', faults' = 0 => turnedAway' = {}
  PROVE  AccessInv'
<1>1. Shaped' /\ (\A d \in Calls \ {c} : call'[d] = call[d]) /\ call'[c] = NoCall
  BY AnswerMoves DEF AccessInv
<1> QED
  BY <1>1, NoCallChecksNothing, AccessLeaves

(* A step that leaves the rows of the run's check alone.                   *)
LEMMA AccessChecks ==
  ASSUME AccessInv, NEW c \in Calls, Shaped', \A d \in Calls \ {c} : call'[d] = call[d],
         call[c].at # "idle", UNCHANGED <<accessRows, calm, faults>>, Witness,
         NEW u, u = call'[c].user,
         AccessCarries(call'[c]), call'[c].at \in Checking,
         Checks(call'[c], witnessed[c] \cup {View(u)}),
         calm => Calmly(call'[c], witnessed[c] \cup {View(u)})
  PROVE  AccessInv'
<1>1. Alone' /\ calm' \in BOOLEAN /\ (calm' => calm /\ \A d \in Calls \ {c} : At(d, "idle"))
  BY StillAlone
<1>2. witnessed'[c] = witnessed[c] \cup {View(u)}
  <2>1. View(call[c].user)' = View(u)
    BY DEF View, accessRows
  <2> QED
    BY <2>1, Witnesses
<1>3. Checks(call'[c], witnessed'[c])
  BY <1>2
<1>4. calm' => Calmly(call[c], witnessed[c])'
  BY <1>2 DEF Calmly, accessRows
<1>5. AccessTyped' /\ JobsRest' /\ faults' \in Nat /\ (faults' = 0 => turnedAway' = {})
  BY DEF AccessInv, AccessTyped, JobsRest, accessRows
<1> QED
  BY <1>1, <1>3, <1>4, <1>5, AccessMoves

-----------------------------------------------------------------------------
(* The admission of a run.                                                 *)

Sees(c, u) == witnessed[c] \cup {View(u)}

LEMMA PassKeeps ==
  ASSUME AccessInv, NEW c \in Calls, NEW u \in People, u = call[c].user,
         call[c].at \in {"load", "membership", "resolve", "grant"},
         NEW row \in Row, row.made, Pass(c, row), UNCHANGED accessRows, Steady, Witness,
         Saw(u, row, Sees(c, u)), Grounded(Sees(c, u)),
         calm => agent.made /\ row = agent
                 /\ (row.status # "ARCHIVED" => RestsAtOnce(Sees(c, u)))
  PROVE  AccessInv'
<1>1. Shaped /\ UNCHANGED <<calm, faults>> /\ faults \in Nat
  BY DEF AccessInv, Steady
<1>2. CASE row.status = "ARCHIVED"
  <2>1. Answer(c)
    BY <1>2 DEF Pass
  <2>2. AccessTyped' /\ JobsRest' /\ faults' \in Nat /\ (faults' = 0 => turnedAway' = {})
    BY <1>1 DEF AccessInv, AccessTyped, JobsRest, accessRows
  <2> QED
    BY <1>1, <2>1, <2>2, AccessEnds
<1>3. CASE row.status # "ARCHIVED"
  <2>1. Note(c, "admitted", row)
    BY <1>3 DEF Pass
  <2>2. /\ Shaped' /\ \A d \in Calls \ {c} : call'[d] = call[d]
        /\ call'[c].at = "admitted" /\ call'[c].user = u /\ call'[c].seen = row
    BY <1>1, <2>1, NoteMoves
  <2>3. Rests(Sees(c, u))
    BY <1>3 DEF Rests, Saw, Grounded
  <2>4. AccessCarries(call'[c]) /\ call'[c].at \in Checking
    BY <2>2 DEF AccessCarries, AccessLabels, Checking
  <2>5. Checks(call'[c], Sees(c, u))
    BY <2>2, <2>3 DEF Checks
  <2>6. calm => Calmly(call'[c], Sees(c, u))
    BY <1>3, <2>2 DEF Calmly
  <2> QED
    BY <1>1, <2>2, <2>4, <2>5, <2>6, AccessChecks DEF Sees
<1> QED
  BY <1>2, <1>3

LEMMA JudgeKeeps ==
  ASSUME AccessInv, NEW c \in Calls, NEW u \in People, u = call[c].user,
         call[c].at \in {"load", "membership"},
         NEW row \in Row, row.made, NEW member \in BOOLEAN, Judge(c, row, member),
         UNCHANGED accessRows, Steady, Witness, Saw(u, row, Sees(c, u)),
         member => row.team \in Teams /\ row.team \in View(u).teams,
         ~member => NoMember(row, Sees(c, u)),
         calm => agent.made /\ row = agent
  PROVE  AccessInv'
<1>1. Shaped /\ UNCHANGED <<calm, faults>> /\ View(u) \in Sees(c, u)
  BY DEF AccessInv, Steady, Sees
<1>2. CASE u = Owner \/ (row.public /\ row.status = "ACTIVE") \/ member
  <2>1. Pass(c, row)
    BY <1>2 DEF Judge
  <2>2. Grounded(Sees(c, u))
    BY <1>1, <1>2 DEF Saw, Grounded
  <2>3. ASSUME calm, row.status # "ARCHIVED" PROVE RestsAtOnce(Sees(c, u))
    <3>1. \E g \in Grounds \cup Teams : Stands(View(u), g)
      <4>0. /\ View(u).live /\ View(u).team = row.team
            /\ View(u).owner <=> Owner = u
            /\ View(u).public <=> row.public
        BY <2>3 DEF View
      <4>1. CASE u = Owner
        BY <4>0, <4>1 DEF Stands, Grounds
      <4>2. CASE row.public
        BY <4>0, <4>2 DEF Stands, Grounds
      <4>3. CASE member
        BY <4>0, <4>3 DEF Stands
      <4> QED
        BY <1>2, <4>1, <4>2, <4>3
    <3> QED
      BY <1>1, <3>1 DEF RestsAtOnce
  <2> QED
    BY <2>1, <2>2, <2>3, PassKeeps
<1>3. CASE ~(u = Owner \/ (row.public /\ row.status = "ACTIVE") \/ member)
  <2>1. Note(c, "resolve", row)
    BY <1>3 DEF Judge
  <2>2. /\ Shaped' /\ \A d \in Calls \ {c} : call'[d] = call[d]
        /\ call'[c].at = "resolve" /\ call'[c].user = u /\ call'[c].seen = row
    BY <1>1, <2>1, NoteMoves
  <2>3. AccessCarries(call'[c]) /\ call'[c].at \in Checking
    BY <2>2 DEF AccessCarries, AccessLabels, Checking
  <2>4. Checks(call'[c], Sees(c, u))
    BY <1>3, <2>2 DEF Checks
  <2>5. calm => Calmly(call'[c], Sees(c, u))
    BY <2>2 DEF Calmly
  <2> QED
    BY <1>1, <2>2, <2>3, <2>4, <2>5, AccessChecks DEF Sees
<1> QED
  BY <1>2, <1>3

LEMMA LoadAgentKeeps ==
  ASSUME AccessInv, NEW c \in Calls, LoadAgent(c), Steady, Witness PROVE AccessInv'
<1>0. PICK u : u = call[c].user
  OBVIOUS
<1>1. /\ call[c].at = "load" /\ u \in People /\ agent.made /\ agent \in Row /\ Shaped
      /\ UNCHANGED <<accessRows, calm, faults>>
      /\ IF agent.team # Nobody THEN Note(c, "membership", agent) ELSE Judge(c, agent, FALSE)
  BY <1>0 DEF LoadAgent, At, AccessInv, AccessCarries, AccessTyped, Steady
<1>2. Saw(u, agent, Sees(c, u))
  <2>1. /\ View(u).live <=> agent.status # "ARCHIVED"
        /\ View(u).owner <=> Owner = u
        /\ View(u).public <=> agent.public
        /\ View(u).team = agent.team
    BY <1>1 DEF View, Row
  <2> QED
    BY <2>1 DEF Saw, Sees
<1>3. CASE agent.team # Nobody
  <2>1. /\ Shaped' /\ \A d \in Calls \ {c} : call'[d] = call[d]
        /\ call'[c].at = "membership" /\ call'[c].user = u /\ call'[c].seen = agent
    BY <1>0, <1>1, <1>3, NoteMoves
  <2>2. AccessCarries(call'[c]) /\ call'[c].at \in Checking
    BY <1>1, <1>3, <2>1 DEF AccessCarries, AccessLabels, Checking, Row
  <2>3. Checks(call'[c], Sees(c, u))
    BY <1>2, <2>1 DEF Checks
  <2>4. calm => Calmly(call'[c], Sees(c, u))
    BY <1>1, <2>1 DEF Calmly
  <2> QED
    BY <1>1, <2>1, <2>2, <2>3, <2>4, AccessChecks DEF Sees
<1>4. CASE agent.team = Nobody
  <2>1. Judge(c, agent, FALSE) /\ NoMember(agent, Sees(c, u)) /\ call[c].at \in {"load", "membership"}
    BY <1>1, <1>4 DEF NoMember
  <2> QED
    BY <1>0, <1>1, <1>2, <2>1, JudgeKeeps
<1> QED
  BY <1>3, <1>4

LEMMA ReadMembershipKeeps ==
  ASSUME AccessInv, NEW c \in Calls, ReadMembership(c), Steady, Witness PROVE AccessInv'
<1>0. PICK u, row, member : /\ u = call[c].user /\ row = call[c].seen
                            /\ member = Accepted(roster[u][row.team])
  OBVIOUS
<1>1. /\ call[c].at = "membership" /\ u \in People /\ row \in Row /\ row.made /\ row.team \in Teams
      /\ Checks(call[c], witnessed[c]) /\ Judge(c, row, member) /\ UNCHANGED accessRows
      /\ call[c].at \in Checking
  BY <1>0 DEF ReadMembership, At, AccessInv, AccessCarries, Checking
<1>2. Saw(u, row, Sees(c, u))
  BY <1>0, <1>1, ChecksGrow DEF Checks, Sees, Saw
<1>3. member \in BOOLEAN /\ View(u) \in Sees(c, u)
      /\ (member <=> row.team \in View(u).teams)
  BY <1>0, <1>1 DEF Accepted, View, Sees
<1>4. ~member => NoMember(row, Sees(c, u))
  BY <1>3 DEF NoMember
<1>5. calm => agent.made /\ row = agent
  BY <1>0, <1>1 DEF AccessInv, Calmly
<1> QED
  BY <1>0, <1>1, <1>2, <1>3, <1>4, <1>5, JudgeKeeps

(* Whoever is refused lacked the ground at one of the moments of the check.*)
LEMMA DenyKeeps ==
  ASSUME AccessInv, NEW c \in Calls, NEW u, u = call[c].user, Deny(c), call[c].at # "idle",
         calm' = calm, Witness, faults' \in Nat, faults' = 0 => faults = 0,
         \/ faults' # 0
         \/ \A g \in Grounds \cup Teams : \E v \in Sees(c, u) : ~Stands(v, g)
  PROVE  AccessInv'
<1>1. /\ Answer(c) /\ UNCHANGED <<agent, roster, grants, permissionIds, jobs>>
      /\ turnedAway' = turnedAway \cup {g \in Grounds \cup Teams : \A v \in Sees(c, u) : Stands(v, g)}
  BY DEF Deny, Sees
<1>2. faults' = 0 => turnedAway' = {}
  BY <1>1 DEF AccessInv
<1>3. AccessTyped' /\ JobsRest'
  BY <1>1 DEF AccessInv, AccessTyped, JobsRest
<1> QED
  BY <1>1, <1>2, <1>3, AccessEnds

LEMMA ResolveKeeps ==
  ASSUME AccessInv, NEW c \in Calls, Resolve(c), Steady, Witness PROVE AccessInv'
<1>0. PICK u, row : u = call[c].user /\ row = call[c].seen
  OBVIOUS
<1>1. /\ call[c].at = "resolve" /\ u \in People /\ row \in Row /\ row.made /\ Shaped
      /\ Checks(call[c], witnessed[c]) /\ UNCHANGED <<calm, faults>> /\ faults \in Nat
      /\ IF ~agent.made THEN Deny(c)
         ELSE /\ IF agent.public THEN Pass(c, row) ELSE Goto(c, "grant")
              /\ UNCHANGED accessRows
  BY <1>0 DEF Resolve, At, AccessInv, AccessCarries, Checking, Steady
<1>2. Saw(u, row, Sees(c, u)) /\ Owner # u /\ NoMember(row, Sees(c, u)) /\ View(u) \in Sees(c, u)
  <2>1. Checks(call[c], Sees(c, u))
    BY <1>1, ChecksGrow DEF Sees
  <2> QED
    BY <1>0, <1>1, <2>1 DEF Checks, Checking, Sees
<1>3. calm => agent.made /\ row = agent
  BY <1>0, <1>1 DEF AccessInv, Calmly, Checking
<1>4. CASE ~agent.made
  <2>1. ~View(u).live
    BY <1>4 DEF View
  <2>2. \A g \in Grounds \cup Teams : \E v \in Sees(c, u) : ~Stands(v, g)
    BY <1>2, <2>1 DEF Stands
  <2> QED
    BY <1>0, <1>1, <1>4, <2>2, DenyKeeps
<1>5. CASE agent.made /\ agent.public
  <2>1. Pass(c, row) /\ UNCHANGED accessRows
    BY <1>1, <1>5
  <2>2. View(u).public /\ View(u).live = (agent.status # "ARCHIVED")
    BY <1>5 DEF View
  <2>3. Grounded(Sees(c, u))
    BY <1>2, <2>2 DEF Grounded
  <2>4. ASSUME calm, row.status # "ARCHIVED" PROVE RestsAtOnce(Sees(c, u))
    <3>1. Stands(View(u), "public") /\ "public" \in Grounds \cup Teams
      BY <1>3, <2>2, <2>4 DEF Stands, Grounds
    <3> QED
      BY <1>2, <3>1 DEF RestsAtOnce
  <2> QED
    BY <1>0, <1>1, <1>2, <1>3, <2>1, <2>3, <2>4, PassKeeps
<1>6. CASE agent.made /\ ~agent.public
  <2>1. Goto(c, "grant") /\ UNCHANGED accessRows
    BY <1>1, <1>6
  <2>2. /\ Shaped' /\ \A d \in Calls \ {c} : call'[d] = call[d]
        /\ call'[c].at = "grant" /\ call'[c].user = u /\ call'[c].seen = row
    BY <1>0, <1>1, <2>1, GotoMoves
  <2>3. ~View(u).public
    BY <1>6 DEF View
  <2>4. AccessCarries(call'[c]) /\ call'[c].at \in Checking
    BY <1>1, <2>2 DEF AccessCarries, AccessLabels, Checking
  <2>5. Checks(call'[c], Sees(c, u))
    BY <1>2, <2>2, <2>3 DEF Checks
  <2>6. calm => Calmly(call'[c], Sees(c, u))
    BY <1>3, <2>2 DEF Calmly
  <2> QED
    BY <1>1, <2>1, <2>2, <2>4, <2>5, <2>6, AccessChecks DEF Sees
<1> QED
  BY <1>4, <1>5, <1>6

LEMMA ReadGrantKeeps ==
  ASSUME AccessInv, NEW c \in Calls, ReadGrant(c), Steady, Witness PROVE AccessInv'
<1>0. PICK u, row : u = call[c].user /\ row = call[c].seen
  OBVIOUS
<1>1. /\ call[c].at = "grant" /\ u \in People /\ row \in Row /\ row.made /\ Shaped
      /\ Checks(call[c], witnessed[c]) /\ UNCHANGED <<calm, faults>> /\ faults \in Nat
      /\ IF grants[u] # 0 THEN Pass(c, row) /\ UNCHANGED accessRows ELSE Deny(c)
  BY <1>0 DEF ReadGrant, At, AccessInv, AccessCarries, Checking, Steady
<1>2. /\ Saw(u, row, Sees(c, u)) /\ Owner # u /\ NoMember(row, Sees(c, u)) /\ View(u) \in Sees(c, u)
      /\ \E v \in Sees(c, u) : ~v.public
  <2>1. Checks(call[c], Sees(c, u))
    BY <1>1, ChecksGrow DEF Sees
  <2> QED
    BY <1>0, <1>1, <2>1 DEF Checks, Checking, Sees
<1>3. calm => agent.made /\ row = agent
  BY <1>0, <1>1 DEF AccessInv, Calmly, Checking
<1>4. CASE grants[u] # 0
  <2>1. Pass(c, row) /\ UNCHANGED accessRows /\ View(u).grant
    BY <1>1, <1>4 DEF View
  <2>2. Grounded(Sees(c, u))
    BY <1>2, <2>1 DEF Grounded
  <2>3. ASSUME calm, row.status # "ARCHIVED" PROVE RestsAtOnce(Sees(c, u))
    <3>1. View(u).live
      BY <1>3, <2>3 DEF View
    <3>2. Stands(View(u), "grant") /\ "grant" \in Grounds \cup Teams
      BY <2>1, <3>1 DEF Stands, Grounds
    <3> QED
      BY <1>2, <3>2 DEF RestsAtOnce
  <2> QED
    BY <1>0, <1>1, <1>2, <1>3, <2>1, <2>2, <2>3, PassKeeps
<1>5. CASE grants[u] = 0
  <2>1. ~View(u).grant /\ ~View(u).owner
    BY <1>2, <1>5 DEF View
  <2>2. ASSUME NEW g \in Grounds \cup Teams
        PROVE  \E v \in Sees(c, u) : ~Stands(v, g)
    <3>1. CASE g \in Teams
      <4>1. g \notin Grounds /\ g # Nobody
        BY <3>1
      <4>2. PICK v \in Sees(c, u) : v.team = row.team
        BY <1>2 DEF Saw
      <4>3. CASE row.team # g
        BY <4>1, <4>2, <4>3 DEF Stands
      <4>4. CASE row.team = g
        BY <1>2, <4>1, <4>4 DEF Stands, NoMember
      <4> QED
        BY <4>3, <4>4
    <3>2. CASE g \in Grounds
      <4>1. g \notin Teams /\ g \in {"owner", "public", "grant"}
        BY <3>2 DEF Grounds
      <4> QED
        BY <1>2, <2>1, <4>1 DEF Stands
    <3> QED
      BY <3>1, <3>2
  <2> QED
    BY <1>0, <1>1, <1>5, <2>2, DenyKeeps
<1> QED
  BY <1>4, <1>5

LEMMA AdmitRunKeeps ==
  ASSUME AccessInv, NEW c \in Calls, AdmitRun(c), Steady, Witness PROVE AccessInv'
<1>1. /\ call[c].at = "admitted" /\ call[c].user \in People /\ Answer(c)
      /\ UNCHANGED <<calm, faults>> /\ faults \in Nat
      /\ Rests(witnessed[c]) /\ (calm => RestsAtOnce(witnessed[c]))
      /\ jobs' \in {jobs, jobs \cup {[user |-> call[c].user, views |-> witnessed[c]]}}
      /\ UNCHANGED <<agent, roster, grants, permissionIds, turnedAway>>
  BY DEF AdmitRun, At, AccessInv, AccessCarries, Checks, Calmly, Checking, Steady
<1>2. JobsRest' /\ AccessTyped' /\ (faults' = 0 => turnedAway' = {}) /\ faults' \in Nat
  BY <1>1 DEF JobsRest, AccessTyped, AccessInv
<1> QED
  BY <1>1, <1>2, AccessEnds

LEMMA MisreadAgentKeeps ==
  ASSUME AccessInv, NEW c \in Calls, MisreadAgent(c), Witness PROVE AccessInv'
<1>1. /\ call[c].at = "resolve" /\ Deny(c) /\ calm' = calm /\ faults' \in Nat /\ faults' # 0
  BY DEF MisreadAgent, At, AccessInv
<1> QED
  BY <1>1, DenyKeeps

(* A request is served: its handler has seen nothing yet.                  *)
LEMMA ServeAccessKeeps ==
  ASSUME AccessInv, NEW c \in Calls, ServeAccess(c), Witness PROVE AccessInv'
<1>1. /\ Shaped /\ faults \in Nat /\ calm \in BOOLEAN /\ UNCHANGED accessRows
      /\ \E op, u, x, l :
           /\ Begin(c, op, u, x, l)
           /\ \/ l \in {"owned", "permission"} /\ u \in People /\ (op = "grant" => x \in People)
                 /\ (l = "permission" => op = "revoke")
              \/ l = "roster" /\ u \in People /\ x \in Teams
              \/ l = "erase"
              \/ l = "load" /\ u \in People
  <2>1. CASE ServeRun(c)
    BY <2>1 DEF ServeRun, AccessInv
  <2>2. CASE ServeChange(c)
    <3>1. CASE \E u \in People : Begin(c, "update", u, Nobody, "owned")
      BY <2>2, <3>1 DEF ServeChange, AccessInv
    <3>2. CASE \E u \in People : \E v \in People : Begin(c, "grant", u, v, "owned")
      BY <2>2, <3>2 DEF ServeChange, AccessInv
    <3>3. CASE \E u \in People : \E id \in 1 .. permissionIds : Begin(c, "revoke", u, id, "permission")
      BY <2>2, <3>3 DEF ServeChange, AccessInv
    <3>4. CASE \E u \in People : \E t \in Teams : Begin(c, "member", u, t, "roster")
      BY <2>2, <3>4 DEF ServeChange, AccessInv
    <3>5. CASE Begin(c, "erase", Nobody, Nobody, "erase")
      BY <2>2, <3>5 DEF ServeChange, AccessInv
    <3> QED
      BY <2>2, <3>1, <3>2, <3>3, <3>4, <3>5 DEF ServeChange
  <2> QED
    BY <2>1, <2>2 DEF ServeAccess
<1>2. PICK op, u, x, l :
           /\ Begin(c, op, u, x, l)
           /\ \/ l \in {"owned", "permission"} /\ u \in People /\ (op = "grant" => x \in People)
                 /\ (l = "permission" => op = "revoke")
              \/ l = "roster" /\ u \in People /\ x \in Teams
              \/ l = "erase"
              \/ l = "load" /\ u \in People
  BY <1>1
<1>3. /\ Shaped' /\ (\A d \in Calls \ {c} : call'[d] = call[d]) /\ call[c].at = "idle"
      /\ call'[c].at = l /\ call'[c].op = op /\ call'[c].user = u /\ call'[c].arg = x
      /\ faults' = faults /\ calm' = (calm /\ \A d \in Calls : At(d, "idle"))
  BY <1>1, <1>2, BeginMoves DEF At
<1>4. Alone'
  BY <1>3, AloneBegins
<1>5. AccessCarries(call'[c]) /\ call'[c].at \notin Checking
  BY <1>2, <1>3 DEF AccessCarries, AccessLabels, Checking
<1>6. AccessTyped' /\ JobsRest' /\ (faults' = 0 => turnedAway' = {})
  BY <1>1, <1>3 DEF AccessInv, AccessTyped, JobsRest, accessRows
<1>7. Checks(call'[c], witnessed'[c]) /\ Calmly(call[c], witnessed[c])'
  BY <1>5, NotCheckingIsFine DEF Calmly, Checking
<1>8. calm' \in BOOLEAN /\ faults' \in Nat /\ (calm' => calm /\ \A d \in Calls \ {c} : At(d, "idle"))
  BY <1>1, <1>3
<1> QED
  BY <1>3, <1>4, <1>5, <1>6, <1>7, <1>8, AccessMoves

(* A call that leaves the rows alone and ends.                             *)
LEMMA AccessStops ==
  ASSUME AccessInv, NEW c \in Calls, Answer(c), call[c].at # "idle", UNCHANGED accessRows,
         calm' = calm, faults' \in {faults, faults + 1}, Witness
  PROVE  AccessInv'
<1>1. AccessTyped' /\ JobsRest' /\ faults' \in Nat /\ (faults' = 0 => turnedAway' = {})
  BY DEF AccessInv, AccessTyped, JobsRest, accessRows
<1> QED
  BY <1>1, AccessEnds

(* A call that leaves the rows alone and goes on.                          *)
LEMMA AccessGoes ==
  ASSUME AccessInv, NEW c \in Calls, NEW l, Goto(c, l), call[c].at # "idle",
         UNCHANGED accessRows, Steady, Witness, l \notin Checking,
         \A k : k.at = l /\ k.op = call[c].op /\ k.user = call[c].user /\ k.arg = call[c].arg
                => AccessCarries(k)
  PROVE  AccessInv'
<1>1. /\ Shaped' /\ \A d \in Calls \ {c} : call'[d] = call[d]
      /\ call'[c].at = l /\ call'[c].op = call[c].op /\ call'[c].user = call[c].user
      /\ call'[c].arg = call[c].arg
  BY GotoMoves DEF AccessInv
<1>2. AccessTyped' /\ JobsRest' /\ faults' \in Nat /\ (faults' = 0 => turnedAway' = {})
  BY DEF AccessInv, AccessTyped, JobsRest, accessRows, Steady
<1>3. AccessCarries(call'[c]) /\ calm' = calm
  BY <1>1 DEF Steady
<1> QED
  BY <1>1, <1>2, <1>3, AccessLeaves

(* A call that writes a row and ends.                                      *)
LEMMA AccessWrites ==
  ASSUME AccessInv, NEW c \in Calls, Answer(c), call[c].at # "idle", AccessTyped',
         UNCHANGED <<jobs, turnedAway>>, Steady, Witness
  PROVE  AccessInv'
<1>1. JobsRest' /\ calm' = calm /\ faults' \in Nat /\ (faults' = 0 => turnedAway' = {})
  BY DEF AccessInv, JobsRest, Steady
<1> QED
  BY <1>1, AccessEnds

LEMMA ChangeKeeps ==
  ASSUME AccessInv, NEW c \in Calls, ChangeStep(c), Steady, Witness PROVE AccessInv'
<1>0. AccessCarries(call[c]) /\ AccessTyped /\ UNCHANGED <<calm, faults>>
  BY DEF AccessInv, Steady
<1>1. CASE FindPermission(c)
  <2>1. call[c].at = "permission" /\ call[c].op = "revoke" /\ Goto(c, "owned") /\ UNCHANGED accessRows
    BY <1>0, <1>1 DEF FindPermission, At, AccessCarries
  <2> QED
    BY <2>1, AccessGoes DEF AccessCarries, Checking, AccessLabels
<1>2. CASE FindOwned(c)
  <2>1. /\ call[c].at = "owned" /\ UNCHANGED accessRows
        /\ IF call[c].op = "grant" THEN Goto(c, "existing") ELSE Goto(c, "write")
        /\ call[c].op = "grant" => call[c].arg \in People
    BY <1>0, <1>2 DEF FindOwned, At, Is, AccessCarries
  <2>2. CASE call[c].op = "grant"
    BY <2>1, <2>2, AccessGoes DEF AccessCarries, Checking, AccessLabels
  <2>3. CASE call[c].op # "grant"
    BY <2>1, <2>3, AccessGoes DEF AccessCarries, Checking, AccessLabels
  <2> QED
    BY <2>2, <2>3
<1>3. CASE FindGrant(c)
  <2>1. /\ call[c].at = "existing" /\ UNCHANGED accessRows /\ call[c].arg \in People
        /\ Answer(c) \/ Goto(c, "create")
    BY <1>0, <1>3 DEF FindGrant, At, AccessCarries
  <2>2. CASE Answer(c)
    BY <1>0, <2>1, <2>2, AccessStops
  <2>3. CASE Goto(c, "create")
    BY <2>1, <2>3, AccessGoes DEF AccessCarries, Checking, AccessLabels
  <2> QED
    BY <2>1, <2>2, <2>3
<1>4. CASE CreateGrant(c)
  <2>1. /\ call[c].at = "create" /\ call[c].arg \in People /\ Answer(c)
        /\ permissionIds' = permissionIds + 1
        /\ grants' = [grants EXCEPT ![call[c].arg] = permissionIds + 1]
        /\ UNCHANGED <<agent, roster, jobs, turnedAway>>
    BY <1>0, <1>4 DEF CreateGrant, At, AccessCarries
  <2>2. AccessTyped'
    BY <1>0, <2>1 DEF AccessTyped
  <2> QED
    BY <2>1, <2>2, AccessWrites
<1>5. CASE DeleteGrant(c)
  <2>1. PICK u \in People : /\ call[c].at = "write" /\ Answer(c)
                            /\ grants' = [grants EXCEPT ![u] = 0]
                            /\ UNCHANGED <<agent, roster, permissionIds, jobs, turnedAway>>
    BY <1>5 DEF DeleteGrant, At
  <2>2. AccessTyped'
    BY <1>0, <2>1 DEF AccessTyped
  <2> QED
    BY <2>1, <2>2, AccessWrites
<1>6. CASE WriteAgentRow(c)
  <2>1. /\ call[c].at = "write" /\ Answer(c)
        /\ \/ \E x \in {"DRAFT", "ACTIVE", "ARCHIVED"} : agent' = [agent EXCEPT !.status = x]
           \/ \E b \in BOOLEAN : agent' = [agent EXCEPT !.public = b]
           \/ \E t \in Teams : agent' = [agent EXCEPT !.team = t]
        /\ UNCHANGED <<roster, grants, permissionIds, jobs, turnedAway>>
    BY <1>6 DEF WriteAgentRow, At
  <2>2. agent' \in Row
    BY <1>0, <2>1 DEF AccessTyped, Row
  <2>3. AccessTyped'
    BY <1>0, <2>1, <2>2 DEF AccessTyped
  <2> QED
    BY <2>1, <2>3, AccessWrites
<1>7. CASE EraseAgent(c)
  <2>1. /\ call[c].at = "erase" /\ Answer(c) /\ agent' = [agent EXCEPT !.made = FALSE]
        /\ UNCHANGED <<roster, grants, permissionIds, jobs, turnedAway>>
    BY <1>7 DEF EraseAgent, At
  <2>2. AccessTyped'
    BY <1>0, <2>1 DEF AccessTyped, Row
  <2> QED
    BY <2>1, <2>2, AccessWrites
<1>8. CASE WriteMember(c)
  <2>1. PICK x \in Membership :
          /\ call[c].at = "roster" /\ call[c].user \in People /\ call[c].arg \in Teams /\ Answer(c)
          /\ roster' = [roster EXCEPT ![call[c].user][call[c].arg] = x]
          /\ UNCHANGED <<agent, grants, permissionIds, jobs, turnedAway>>
    BY <1>0, <1>8 DEF WriteMember, At, AccessCarries
  <2>2. AccessTyped'
    BY <1>0, <2>1 DEF AccessTyped
  <2> QED
    BY <2>1, <2>2, AccessWrites
<1>9. CASE RefuseAccess(c)
  <2>1. call[c].at # "idle" /\ Answer(c) /\ UNCHANGED accessRows
    BY <1>9 DEF RefuseAccess
  <2> QED
    BY <1>0, <2>1, AccessStops
<1> QED
  BY <1>1, <1>2, <1>3, <1>4, <1>5, <1>6, <1>7, <1>8, <1>9 DEF ChangeStep

(* A worker takes a job, or nothing happens: every check goes on.          *)
LEMMA AccessRests ==
  ASSUME AccessInv, UNCHANGED <<agent, roster, grants, permissionIds, turnedAway, call, calm, faults>>,
         jobs' \subseteq jobs,
         \A c \in Calls : call[c].at \in Checking => witnessed[c] \subseteq witnessed'[c]
  PROVE  AccessInv'
<1>1. Shaped' /\ Alone' /\ AccessTyped' /\ JobsRest'
  BY DEF AccessInv, Shaped, Alone, At, AccessTyped, JobsRest
<1>2. ASSUME NEW c \in Calls
      PROVE  /\ AccessCarries(call[c])' /\ Checks(call[c], witnessed[c])'
             /\ calm => Calmly(call[c], witnessed[c])'
  <2>1. AccessCarries(call[c]) /\ Checks(call[c], witnessed[c]) /\ call'[c] = call[c]
        /\ (calm => Calmly(call[c], witnessed[c]))
    BY DEF AccessInv
  <2>2. CASE call[c].at \in Checking
    <3>1. witnessed[c] \subseteq witnessed'[c]
      BY <2>2
    <3>2. Checks(call[c], witnessed'[c])
      BY <2>1, <3>1, ChecksGrow
    <3>3. Checks(call[c], witnessed[c])'
      BY <2>1, <3>2 DEF Checks
    <3>4. calm => Calmly(call[c], witnessed[c])'
      BY <2>1, <3>1 DEF Calmly, RestsAtOnce
    <3> QED
      BY <2>1, <3>3, <3>4 DEF AccessCarries
  <2>3. CASE call[c].at \notin Checking
    BY <2>1, <2>3 DEF AccessCarries, Checks, Calmly, Checking
  <2> QED
    BY <2>2, <2>3
<1>3. calm' => \A c \in Calls : Calmly(call[c], witnessed[c])'
  BY <1>2
<1> QED
  BY <1>1, <1>2, <1>3 DEF AccessInv

-----------------------------------------------------------------------------
LEMMA AccessInitOK == AccessInit => AccessInv
<1> SUFFICES ASSUME AccessInit PROVE AccessInv
  OBVIOUS
<1>1. Shaped /\ Alone /\ (\A c \in Calls : call[c] = NoCall) /\ faults = 0 /\ calm = TRUE
  BY ShapedAtFirst, AloneAtFirst DEF AccessInit, HandlersInit
<1>2. AccessTyped /\ JobsRest /\ turnedAway = {}
  BY DEF AccessInit, AccessTyped, JobsRest, Membership, Row
<1>3. \A c \in Calls : AccessCarries(call[c]) /\ Checks(call[c], witnessed[c])
                       /\ Calmly(call[c], witnessed[c])
  BY <1>1, NoCallChecksNothing, NotCheckingIsFine
<1> QED
  BY <1>1, <1>2, <1>3 DEF AccessInv

LEMMA AccessStep == AccessInv /\ [AccessNext]_accessVars => AccessInv'
<1> SUFFICES ASSUME AccessInv, [AccessNext]_accessVars PROVE AccessInv'
  OBVIOUS
<1>1. CASE UNCHANGED accessVars
  BY <1>1, AccessRests DEF accessVars, accessData, accessRows, handlerVars
<1>2. CASE RunQueued /\ Witness
  <2>1. UNCHANGED <<agent, roster, grants, permissionIds, turnedAway, call, calm, faults>>
        /\ jobs' \subseteq jobs
    BY <1>2 DEF RunQueued, handlerVars
  <2>2. \A c \in Calls : call[c].at \in Checking => witnessed[c] \subseteq witnessed'[c]
    BY <1>2, <2>1, Witnesses
  <2> QED
    BY <2>1, <2>2, AccessRests
<1>3. ASSUME NEW c \in Calls, BreakAccess(c), Witness PROVE AccessInv'
  <2>1. call[c].at # "idle" /\ Answer(c) /\ UNCHANGED accessRows /\ calm' = calm /\ faults' = faults + 1
    BY <1>3 DEF BreakAccess, Break, At
  <2> QED
    BY <1>3, <2>1, AccessStops
<1>4. ASSUME NEW c \in Calls, RunStep(c), Steady, Witness PROVE AccessInv'
  BY <1>4, LoadAgentKeeps, ReadMembershipKeeps, ResolveKeeps, ReadGrantKeeps, AdmitRunKeeps DEF RunStep
<1> QED
  BY <1>1, <1>2, <1>3, <1>4, ServeAccessKeeps, MisreadAgentKeeps, ChangeKeeps DEF AccessNext

(* A run that resolveAccess admits, and a job that a worker runs without a *)
(* check, rests on a right that held while it was checked, at one instant  *)
(* when calls do not overlap; and nobody is turned away whose right lasted *)
(* for the whole of the check, unless a read failed.                       *)
THEOREM RunsRestOnARight == AccessSpec => []AdmissionsRest
<1>1. AccessInv => AdmissionsRest
  BY DEF AccessInv, AdmissionsRest, JobsRest, Checks, At
<1> QED
  BY <1>1, AccessInitOK, AccessStep, PTL DEF AccessSpec

(* The agent, the memberships, the grants, the jobs and the handlers keep  *)
(* their types.                                                            *)
THEOREM AccessIsTyped == AccessSpec => []AccessTypeOK
<1>1. AccessInv => AccessTypeOK
  BY DEF AccessInv, AccessTypeOK, AccessTyped, JobsRest, AccessCarries
<1> QED
  BY <1>1, AccessInitOK, AccessStep, PTL DEF AccessSpec

-----------------------------------------------------------------------------
(* The cached answers of an agent, for every time to live, and the loop of *)
(* a run, for every number of model calls, tool calls and tokens.          *)

CacheCall == [at: {"idle", "save", "edition", "lookup", "adapter", "setex"},
              op: {"none", "edit", "answer"}, user: {Nobody}, arg: {Nobody},
              seen: Nat \cup {Nobody}, todo: {{}}]

(* While calls do not overlap there is one at most, and what it has read   *)
(* of the agent is in force; every edit was a call of its own.             *)
OneAtATime ==
  /\ \A c, d \in Calls : ~At(c, "idle") /\ ~At(d, "idle") => c = d
  /\ edition <= served
  /\ \A c \in Calls : ~At(c, "idle") => edition + 1 <= served
  /\ \A c \in Calls : call[c].at \in {"lookup", "adapter", "setex"} => call[c].seen = edition

(* A handler that has read the agent holds an edition.                     *)
Informed == \A c \in Calls : call[c].at \in {"lookup", "adapter", "setex"} => call[c].seen \in Nat

(* An entry is of the edition in force, or will be gone before that        *)
(* edition has been out of force for longer than the entry may live.       *)
EntryExpires ==
  cached.left > 0 =>
    /\ cached.edition <= edition
    /\ cached.edition # edition => Age(cached.edition) + cached.left <= Ttl

CacheInv ==
  /\ call \in [Calls -> CacheCall] /\ served \in 0 .. MaxServed /\ calm \in BOOLEAN
  /\ edition \in Nat /\ ticks \in Nat
  /\ replaced \in [Editions -> Nat]
  /\ cached \in [edition: Nat, left: 0 .. Ttl]
  /\ Informed
  /\ calm => OneAtATime /\ EntryExpires /\ stalest \in Int /\ stalest <= Ttl

(* The first state is as it should be.                                     *)
LEMMA CacheInitOK == CacheInit => CacheInv
<1> SUFFICES ASSUME CacheInit PROVE CacheInv
  OBVIOUS
<1> USE DEF CacheInit, HandlersInit
<1>1. NoCall \in CacheCall /\ NoCall.at = "idle"
  BY DEF NoCall, CacheCall
<1>2. call \in [Calls -> CacheCall] /\ \A c \in Calls : call[c].at = "idle"
  BY <1>1
<1>3. served = 0 /\ calm = TRUE /\ edition = 0 /\ ticks = 0 /\ stalest = 0
  OBVIOUS
<1>4. replaced \in [Editions -> Nat]
  OBVIOUS
<1>5. cached \in [edition: Nat, left: 0 .. Ttl] /\ cached.left = 0
  BY DEF NoEntry
<1>6. Informed /\ OneAtATime /\ EntryExpires
  BY <1>2, <1>3, <1>5 DEF Informed, OneAtATime, EntryExpires, At
<1>7. served \in 0 .. MaxServed /\ edition \in Nat /\ ticks \in Nat /\ stalest \in Int
      /\ stalest <= Ttl
  BY <1>3
<1> QED
  BY <1>2, <1>3, <1>4, <1>5, <1>6, <1>7 DEF CacheInv

(* The handlers after a step of one of them.                               *)
LEMMA CacheCallMoves ==
  ASSUME call \in [Calls -> CacheCall], NEW c \in Calls, NEW r \in CacheCall,
         call' = [call EXCEPT ![c] = r]
  PROVE  /\ call' \in [Calls -> CacheCall]
         /\ call'[c] = r /\ \A d \in Calls \ {c} : call'[d] = call[d]
  OBVIOUS

(* A call that begins: if calls still do not overlap, it is alone.         *)
LEMMA BeginKeepsCache ==
  ASSUME CacheInv, NEW c \in Calls, NEW op \in {"edit", "answer"}, NEW l \in {"save", "edition"},
         Begin(c, op, Nobody, Nobody, l), UNCHANGED cacheData
  PROVE  CacheInv'
<1> DEFINE r == [NoCall EXCEPT !.at = l, !.op = op, !.user = Nobody, !.arg = Nobody]
<1>1. r \in CacheCall /\ r.at = l
  BY DEF NoCall, CacheCall
<1>2. /\ call' = [call EXCEPT ![c] = r] /\ served' = served + 1 /\ served < MaxServed
      /\ calm' = (calm /\ Quiet) /\ UNCHANGED <<edition, replaced, cached, ticks, stalest>>
  BY DEF Begin, cacheData
<1> HIDE DEF r
<1>3. /\ call' \in [Calls -> CacheCall]
      /\ call'[c] = r /\ \A d \in Calls \ {c} : call'[d] = call[d]
  BY <1>1, <1>2, CacheCallMoves DEF CacheInv
<1>4. calm' => OneAtATime'
  <2> SUFFICES ASSUME calm' PROVE OneAtATime'
    OBVIOUS
  <2>1. calm /\ \A d \in Calls : call[d].at = "idle"
    BY <1>2 DEF Quiet, At
  <2>2. \A d \in Calls \ {c} : call'[d].at = "idle"
    BY <1>3, <2>1
  <2>3. edition <= served /\ edition \in Nat /\ served \in Nat
    BY <2>1 DEF CacheInv, OneAtATime
  <2>4. edition' <= served' /\ edition' + 1 <= served'
    BY <1>2, <2>3
  <2>5. call'[c].at \notin {"lookup", "adapter", "setex"}
    BY <1>1, <1>3
  <2> QED
    BY <2>2, <2>4, <2>5 DEF OneAtATime, At
<1>5. calm' => EntryExpires' /\ stalest' \in Int /\ stalest' <= Ttl
  <2>1. calm' => calm
    BY <1>2
  <2>2. EntryExpires' <=> EntryExpires
    BY <1>2 DEF EntryExpires, Age
  <2> QED
    BY <1>2, <2>1, <2>2 DEF CacheInv
<1>6. calm' \in BOOLEAN /\ served' \in 0 .. MaxServed
  BY <1>2 DEF CacheInv
<1>7. Informed'
  BY <1>1, <1>3 DEF CacheInv, Informed
<1> QED
  BY <1>2, <1>3, <1>4, <1>5, <1>6, <1>7 DEF CacheInv

(* A call that moves on, or ends, and leaves the agent and the entry: what *)
(* it has read must be in force, what it delivers within the time.         *)
LEMMA MoveKeepsCache ==
  ASSUME CacheInv, NEW c \in Calls, NEW r \in CacheCall, ~At(c, "idle"),
         call' = [call EXCEPT ![c] = r],
         UNCHANGED <<served, calm, edition, replaced, cached, ticks>>,
         r.at \in {"lookup", "adapter", "setex"} => r.seen \in Nat,
         calm /\ r.at \in {"lookup", "adapter", "setex"} => r.seen = edition,
         calm => stalest' \in Int /\ stalest' <= Ttl
  PROVE  CacheInv'
<1>1. /\ call' \in [Calls -> CacheCall]
      /\ call'[c] = r /\ \A d \in Calls \ {c} : call'[d] = call[d]
  BY CacheCallMoves DEF CacheInv
<1>2. calm' => OneAtATime'
  BY <1>1 DEF CacheInv, OneAtATime, At
<1>3. calm' => EntryExpires'
  BY DEF CacheInv, EntryExpires, Age
<1>4. Informed'
  BY <1>1 DEF CacheInv, Informed
<1> QED
  BY <1>1, <1>2, <1>3, <1>4 DEF CacheInv

LEMMA AnswerKeepsCache ==
  ASSUME CacheInv, NEW c \in Calls, ~At(c, "idle"), Answer(c),
         UNCHANGED <<served, calm, edition, replaced, cached, ticks>>,
         calm => stalest' \in Int /\ stalest' <= Ttl
  PROVE  CacheInv'
<1>1. NoCall \in CacheCall /\ NoCall.at = "idle" /\ call' = [call EXCEPT ![c] = NoCall]
  BY DEF NoCall, CacheCall, Answer
<1> QED
  BY <1>1, MoveKeepsCache

LEMMA GotoKeepsCache ==
  ASSUME CacheInv, NEW c \in Calls, call[c].at \in {"lookup", "adapter"},
         NEW l \in {"adapter", "setex"}, Goto(c, l),
         UNCHANGED <<served, calm, edition, replaced, cached, ticks>>,
         calm => stalest' \in Int /\ stalest' <= Ttl
  PROVE  CacheInv'
<1> DEFINE r == [call[c] EXCEPT !.at = l]
<1>1. call \in [Calls -> CacheCall] /\ call[c] \in CacheCall
  BY DEF CacheInv
<1>2. r \in CacheCall /\ r.at = l /\ r.seen = call[c].seen
  BY <1>1 DEF CacheCall
<1>3. call' = [call EXCEPT ![c] = r] /\ ~At(c, "idle")
  BY <1>1 DEF Goto, At
<1>4. call[c].seen \in Nat /\ (calm => call[c].seen = edition)
  BY DEF CacheInv, OneAtATime, Informed
<1> HIDE DEF r
<1> QED
  BY <1>2, <1>3, <1>4, MoveKeepsCache

(* What goes out of the cache, or straight from the adapter, is in time.   *)
LEMMA DeliveredInTime ==
  ASSUME CacheInv, NEW e \in Nat, Delivered(e),
         calm => e = edition \/ (e = cached.edition /\ Hit)
  PROVE  calm => stalest' \in Int /\ stalest' <= Ttl
<1> SUFFICES ASSUME calm PROVE stalest' \in Int /\ stalest' <= Ttl
  OBVIOUS
<1>1. stalest \in Int /\ stalest <= Ttl /\ edition \in Nat /\ edition <= MaxServed
  BY DEF CacheInv, OneAtATime
<1>2. CASE e = edition
  BY <1>1, <1>2 DEF Delivered, Age
<1>3. CASE e # edition
  <2>1. e = cached.edition /\ cached.left > 0 /\ cached.left \in 0 .. Ttl
    BY <1>3 DEF Hit, CacheInv
  <2>2. e <= edition /\ Age(e) + cached.left <= Ttl
    BY <1>3, <2>1 DEF CacheInv, EntryExpires
  <2>3. replaced[e] \in Nat /\ ticks \in Nat
    BY <1>1, <2>2 DEF CacheInv, Editions
  <2>4. Age(e) \in Int
    BY <1>3, <2>3 DEF Age
  <2> HIDE DEF Age
  <2> QED
    BY <1>1, <2>1, <2>2, <2>4 DEF Delivered
<1> QED
  BY <1>2, <1>3

(* An edit: the edition in force until now is out of force from now.       *)
LEMMA SaveKeeps == ASSUME CacheInv, NEW c \in Calls, SaveEdition(c) PROVE CacheInv'
<1>1. /\ edition' = edition + 1 /\ replaced' = [replaced EXCEPT ![edition] = ticks]
      /\ call' = [call EXCEPT ![c] = NoCall] /\ call[c].at = "save"
      /\ UNCHANGED <<served, calm, cached, ticks, stalest>>
  BY DEF SaveEdition, Answer, Steady, At
<1>2. NoCall \in CacheCall /\ NoCall.at = "idle"
  BY DEF NoCall, CacheCall
<1>3. /\ call' \in [Calls -> CacheCall]
      /\ call'[c] = NoCall /\ \A d \in Calls \ {c} : call'[d] = call[d]
  BY <1>1, <1>2, CacheCallMoves DEF CacheInv
<1>4. replaced' \in [Editions -> Nat] /\ edition' \in Nat
  <2>1. replaced \in [Editions -> Nat] /\ ticks \in Nat /\ edition \in Nat
    BY DEF CacheInv
  <2> HIDE DEF Editions
  <2>2. replaced' \in [Editions -> Nat]
    BY <1>1, <2>1
  <2> QED
    BY <1>1, <2>1, <2>2
<1>5. ASSUME calm PROVE OneAtATime' /\ EntryExpires'
  <2>1. \A d \in Calls \ {c} : call[d].at = "idle"
    BY <1>1, <1>5 DEF CacheInv, OneAtATime, At
  <2>2. edition + 1 <= served /\ edition \in Editions
    BY <1>1, <1>5 DEF CacheInv, OneAtATime, At, Editions
  <2>3. OneAtATime'
    BY <1>1, <1>2, <1>3, <2>1, <2>2 DEF OneAtATime, At
  <2>4. EntryExpires'
    <3> SUFFICES ASSUME cached.left > 0
                 PROVE  /\ cached.edition <= edition + 1
                        /\ cached.edition # edition + 1 =>
                             ticks - replaced'[cached.edition] + cached.left <= Ttl
      BY <1>1 DEF EntryExpires, Age
    <3>1. /\ cached.edition \in Nat /\ cached.left \in 0 .. Ttl /\ cached.edition <= edition
          /\ cached.edition # edition => ticks - replaced[cached.edition] + cached.left <= Ttl
      BY <1>5 DEF CacheInv, EntryExpires, Age
    <3>2. CASE cached.edition = edition
      <4>1. replaced'[edition] = ticks /\ ticks \in Nat /\ edition \in Nat
        BY <1>1, <2>2 DEF CacheInv
      <4> QED
        BY <3>1, <3>2, <4>1
    <3>3. CASE cached.edition # edition
      <4>1. replaced'[cached.edition] = replaced[cached.edition]
        BY <1>1, <3>3 DEF CacheInv
      <4> QED
        BY <3>1, <3>3, <4>1 DEF CacheInv
    <3> QED
      BY <3>2, <3>3
  <2> QED
    BY <2>3, <2>4
<1>6. Informed'
  BY <1>2, <1>3 DEF CacheInv, Informed
<1> QED
  BY <1>1, <1>3, <1>4, <1>5, <1>6 DEF CacheInv

(* The answer is kept for the time to live.                                *)
LEMMA SetKeeps == ASSUME CacheInv, NEW c \in Calls, SetCached(c) PROVE CacheInv'
<1>1. /\ cached' = [edition |-> call[c].seen, left |-> Ttl]
      /\ call' = [call EXCEPT ![c] = NoCall] /\ call[c].at = "setex"
      /\ UNCHANGED <<served, calm, edition, replaced, ticks, stalest>>
  BY DEF SetCached, Answer, Steady, At, Expiry
<1>2. NoCall \in CacheCall /\ NoCall.at = "idle"
  BY DEF NoCall, CacheCall
<1>3. /\ call' \in [Calls -> CacheCall]
      /\ call'[c] = NoCall /\ \A d \in Calls \ {c} : call'[d] = call[d]
  BY <1>1, <1>2, CacheCallMoves DEF CacheInv
<1>4. cached' \in [edition: Nat, left: 0 .. Ttl]
  BY <1>1 DEF CacheInv, Informed
<1>5. ASSUME calm PROVE OneAtATime' /\ EntryExpires'
  <2>1. OneAtATime'
    BY <1>1, <1>2, <1>3, <1>5 DEF CacheInv, OneAtATime, At
  <2>2. call[c].seen = edition
    BY <1>1, <1>5 DEF CacheInv, OneAtATime
  <2>3. EntryExpires'
    BY <1>1, <2>2 DEF CacheInv, EntryExpires
  <2> QED
    BY <2>1, <2>3
<1>6. Informed'
  BY <1>2, <1>3 DEF CacheInv, Informed
<1> QED
  BY <1>1, <1>3, <1>4, <1>5, <1>6 DEF CacheInv

(* Time passes for the edition and for the entry alike.                    *)
LEMMA TickKeeps == ASSUME CacheInv, Tick PROVE CacheInv'
<1>1. /\ ticks' = ticks + 1 /\ UNCHANGED <<call, served, calm, edition, replaced, stalest>>
      /\ cached' = IF cached.left > 1 THEN [cached EXCEPT !.left = cached.left - 1] ELSE NoEntry
  BY DEF Tick, handlerVars
<1>2. cached \in [edition: Nat, left: 0 .. Ttl]
  BY DEF CacheInv
<1>3. /\ cached' \in [edition: Nat, left: 0 .. Ttl]
      /\ cached'.left > 0 => /\ cached.left > 0 /\ cached'.edition = cached.edition
                             /\ cached'.left = cached.left - 1
  BY <1>1, <1>2 DEF NoEntry
<1>4. ASSUME calm PROVE OneAtATime' /\ EntryExpires'
  <2>1. OneAtATime'
    BY <1>1, <1>4 DEF CacheInv, OneAtATime, At
  <2>2. EntryExpires'
    <3> SUFFICES ASSUME cached'.left > 0, cached'.edition # edition
                 PROVE  ticks' - replaced[cached'.edition] + cached'.left <= Ttl
      BY <1>1, <1>3, <1>4 DEF CacheInv, EntryExpires, Age
    <3>1. /\ cached.edition <= edition /\ cached.left \in Nat
          /\ ticks - replaced[cached.edition] + cached.left <= Ttl
      BY <1>2, <1>3, <1>4 DEF CacheInv, EntryExpires, Age
    <3>2. replaced[cached.edition] \in Nat
      BY <1>2, <1>4, <3>1 DEF CacheInv, OneAtATime, Editions
    <3> QED
      BY <1>1, <1>3, <3>1, <3>2 DEF CacheInv
  <2> QED
    BY <2>1, <2>2
<1>5. ticks' \in Nat
  BY <1>1 DEF CacheInv
<1>6. Informed'
  BY <1>1 DEF CacheInv, Informed
<1> QED
  BY <1>1, <1>3, <1>4, <1>5, <1>6 DEF CacheInv

(* Every step keeps the invariant.                                         *)
LEMMA CacheStep == CacheInv /\ [CacheNext]_cacheVars => CacheInv'
<1> SUFFICES ASSUME CacheInv, [CacheNext]_cacheVars PROVE CacheInv'
  OBVIOUS
<1>0. stalest' = stalest => (calm => stalest' \in Int /\ stalest' <= Ttl)
  BY DEF CacheInv
<1>1. ASSUME NEW c \in Calls,
             \/ ServeEdit(c) \/ SaveEdition(c) \/ ServeAnswer(c) \/ ReadEdition(c)
             \/ LookUp(c) \/ Adapt(c) \/ SetCached(c) \/ BreakCache(c)
      PROVE  CacheInv'
  <2>0. call \in [Calls -> CacheCall] /\ call[c] \in CacheCall /\ edition \in Nat
    BY DEF CacheInv
  <2>1. CASE ServeEdit(c)
    BY <2>1, BeginKeepsCache DEF ServeEdit
  <2>2. CASE SaveEdition(c)
    BY <2>2, SaveKeeps
  <2>3. CASE ServeAnswer(c)
    BY <2>3, BeginKeepsCache DEF ServeAnswer
  <2>4. CASE ReadEdition(c)
    <3> DEFINE r == [call[c] EXCEPT !.at = "lookup", !.seen = edition]
    <3>1. r \in CacheCall /\ r.seen = edition
      BY <2>0 DEF CacheCall
    <3>2. /\ call' = [call EXCEPT ![c] = r] /\ ~At(c, "idle")
          /\ UNCHANGED <<served, calm, edition, replaced, cached, ticks, stalest>>
      BY <2>0, <2>4 DEF ReadEdition, Note, Steady, cacheData, At
    <3> HIDE DEF r
    <3> QED
      BY <1>0, <2>0, <3>1, <3>2, MoveKeepsCache
  <2>5. CASE LookUp(c)
    <3>1. call[c].at = "lookup" /\ ~At(c, "idle")
          /\ UNCHANGED <<served, calm, edition, replaced, cached, ticks>>
      BY <2>5 DEF LookUp, Steady, At
    <3>2. CASE Hit /\ Delivered(cached.edition) /\ Answer(c)
      <4>1. cached.edition \in Nat
        BY DEF CacheInv
      <4>2. calm => stalest' \in Int /\ stalest' <= Ttl
        BY <3>2, <4>1, DeliveredInTime
      <4> QED
        BY <3>1, <3>2, <4>2, AnswerKeepsCache
    <3>3. CASE Goto(c, "adapter") /\ UNCHANGED stalest
      BY <1>0, <3>1, <3>3, GotoKeepsCache
    <3> QED
      BY <2>5, <3>2, <3>3 DEF LookUp
  <2>6. CASE Adapt(c)
    <3>1. call[c].at = "adapter" /\ ~At(c, "idle") /\ Delivered(call[c].seen)
          /\ UNCHANGED <<served, calm, edition, replaced, cached, ticks>>
      BY <2>6 DEF Adapt, Steady, At
    <3>2. call[c].seen \in Nat /\ (calm => call[c].seen = edition)
      BY <3>1 DEF CacheInv, OneAtATime, Informed
    <3>3. calm => stalest' \in Int /\ stalest' <= Ttl
      BY <2>0, <3>1, <3>2, DeliveredInTime
    <3>4. Goto(c, "setex") \/ Answer(c)
      BY <2>6 DEF Adapt
    <3> QED
      BY <3>1, <3>3, <3>4, AnswerKeepsCache, GotoKeepsCache
  <2>7. CASE SetCached(c)
    BY <2>7, SetKeeps
  <2>8. CASE BreakCache(c)
    BY <1>0, <2>8, AnswerKeepsCache DEF BreakCache, Break, cacheData
  <2> QED
    BY <1>1, <2>1, <2>2, <2>3, <2>4, <2>5, <2>6, <2>7, <2>8
<1>2. CASE Tick
  BY <1>2, TickKeeps
<1>3. CASE UNCHANGED cacheVars
  BY <1>3 DEF cacheVars, cacheData, handlerVars, CacheInv, Informed, OneAtATime,
              EntryExpires, Age, At
<1> QED
  BY <1>1, <1>2, <1>3 DEF CacheNext

(* StaleAnswersExpire for every time to live, and any number of edits.     *)
THEOREM StaleAnswersAlwaysExpire == CacheSpec => []StaleAnswersExpire
<1>1. CacheInv => StaleAnswersExpire
  BY DEF CacheInv, StaleAnswersExpire
<1> QED
  BY <1>1, CacheInitOK, CacheStep, PTL DEF CacheSpec
-----------------------------------------------------------------------------
(* The loop of a run.                                                      *)

(* The conversation's messages, and the calls of the messages.             *)
ToolCall == [id: Nat \X Nat, name: Tools, arguments: Nat \X Nat]
Message  == [role: {"system", "user"}] \cup [role: {"assistant"}, toolCalls: Seq(ToolCall)]
            \cup [role: {"tool"}, toolCallId: Nat \X Nat, content: Nat \X Nat]

(* The answer to the k-th call of the message at i.                        *)
AnswerAt(i, k) ==
  messages[i + k].role = "tool" /\ messages[i + k].content = messages[i].toolCalls[k].id

LoopTyped ==
  /\ phase \in {"call", "tools", "done"} /\ iteration \in Nat
  /\ messages \in Seq(Message) /\ toolCalls \in Seq(ToolCall) /\ next \in Nat \ {0}
  /\ cumUsage \in Nat /\ spent \in Nat

(* The message with the calls of the last response.                        *)
Turn == Len(messages) - next + 1

(* While tools run, the calls due are those of the last response, and they *)
(* are answered up to the one that is due.                                 *)
TurnOpen ==
  phase = "tools" =>
    /\ adapter = "llm" /\ next <= Len(toolCalls)
    /\ Turn \in 1 .. Len(messages)
    /\ messages[Turn].role = "assistant" /\ messages[Turn].toolCalls = toolCalls

(* Only the last turn may lack answers.                                    *)
EarlierAnswered ==
  \A i \in 1 .. Len(messages) : messages[i].role = "assistant" =>
    \A k \in 1 .. Len(messages[i].toolCalls) :
      \/ i + k <= Len(messages) /\ AnswerAt(i, k)
      \/ i + k > Len(messages) /\ phase = "tools" /\ i = Turn

(* Nothing but the answers to a message's calls follows it.                *)
OnlyAnswers ==
  \A j \in 1 .. Len(messages) : messages[j].role = "tool" =>
    \E i \in 1 .. Len(messages) :
      messages[i].role = "assistant" /\ i < j /\ j - i <= Len(messages[i].toolCalls)

LoopCounted == adapter = "llm" => cumUsage = spent

(* The last request carried the first n messages, whole turns of them.     *)
Carried(n) ==
  /\ n <= Len(messages) /\ DOMAIN request = 1 .. n - Apart
  /\ \A j \in 1 .. n - Apart : request[j] = Sent(messages[j + Apart])
  /\ \A i \in 1 .. n : messages[i].role = "assistant" =>
       \A k \in 1 .. Len(messages[i].toolCalls) : i + k <= n

TurnsSent == \E n \in Nat : Carried(n)

LoopInv ==
  /\ LoopTyped /\ TurnOpen /\ EarlierAnswered /\ OnlyAnswers /\ LoopCounted
  /\ UsageAllOrNothing /\ TurnsSent

(* A message's shape says whether it is a result when it is sent.          *)
LEMMA SentShape ==
  ASSUME NEW m \in Message
  PROVE  /\ IsResult(Sent(m)) <=> m.role = "tool"
         /\ m.role = "tool" => Sent(m).content = m.content
<1>1. CASE m \in [role: {"system", "user"}]
  BY <1>1 DEF Sent, IsResult
<1>2. CASE m \in [role: {"assistant"}, toolCalls: Seq(ToolCall)]
  BY <1>2 DEF Sent, IsResult
<1>3. CASE m \in [role: {"tool"}, toolCallId: Nat \X Nat, content: Nat \X Nat]
  BY <1>3 DEF Sent, IsResult
<1> QED
  BY <1>1, <1>2, <1>3 DEF Message

(* A request that is sent between turns carries them all; messages that    *)
(* are added after it leave what it carried as it was.                     *)
LEMMA RequestCarriesTurns ==
  ASSUME LoopInv, phase = "call", SendRequest, provider' = provider,
         messages' \in Seq(Message), Len(messages) <= Len(messages'),
         \A i \in 1 .. Len(messages) : messages'[i] = messages[i]
  PROVE  TurnsSent'
<1> DEFINE n == Len(messages)
<1>1. n \in Nat /\ n <= Len(messages') /\ Apart \in 0 .. 1 /\ Apart' = Apart
  BY DEF LoopInv, LoopTyped, Apart
<1>3. request' = [j \in 1 .. n - Apart |-> Sent(messages[j + Apart])]
  BY DEF SendRequest
<1>4. ASSUME NEW j \in 1 .. n - Apart PROVE request'[j] = Sent(messages[j + Apart])'
  <2> DEFINE i == j + Apart
  <2>1. i \in 1 .. n
    BY <1>1
  <2>2. messages'[i] = messages[i]
    BY <2>1
  <2>3. request'[j] = Sent(messages[i])
    BY <1>3
  <2> QED
    BY <1>1, <2>2, <2>3 DEF Sent, Field
<1>5. \A i \in 1 .. n : messages'[i].role = "assistant" =>
        \A k \in 1 .. Len(messages'[i].toolCalls) : i + k <= n
  BY DEF LoopInv, EarlierAnswered
<1> QED
  BY <1>1, <1>3, <1>4, <1>5 DEF TurnsSent, Carried

LEMMA RequestStays ==
  ASSUME LoopInv, UNCHANGED <<request, provider>>,
         messages' \in Seq(Message), Len(messages) <= Len(messages'),
         \A i \in 1 .. Len(messages) : messages'[i] = messages[i]
  PROVE  TurnsSent'
<1>1. PICK n \in Nat : Carried(n)
  BY DEF LoopInv, TurnsSent
<1>2. Len(messages) \in Nat /\ Len(messages') \in Nat /\ Apart \in 0 .. 1 /\ Apart' = Apart
  BY DEF LoopInv, LoopTyped, Apart
<1>3. ASSUME NEW j \in 1 .. n - Apart PROVE request'[j] = Sent(messages[j + Apart])'
  <2> DEFINE i == j + Apart
  <2>1. i \in 1 .. Len(messages)
    BY <1>1, <1>2 DEF Carried
  <2>2. messages'[i] = messages[i]
    BY <2>1
  <2>3. request'[j] = Sent(messages[i])
    BY <1>1 DEF Carried
  <2> QED
    BY <1>2, <2>2, <2>3 DEF Sent, Field
<1>4. n <= Len(messages') /\ DOMAIN request' = 1 .. n - Apart'
  BY <1>1, <1>2 DEF Carried
<1>5. \A i \in 1 .. n : messages'[i].role = "assistant" =>
        \A k \in 1 .. Len(messages'[i].toolCalls) : i + k <= n
  <2>1. \A i \in 1 .. n : messages'[i] = messages[i]
    BY <1>1, <1>2 DEF Carried
  <2>2. \A i \in 1 .. n : messages[i].role = "assistant" =>
          \A k \in 1 .. Len(messages[i].toolCalls) : i + k <= n
    BY <1>1 DEF Carried
  <2> QED
    BY <2>1, <2>2
<1>6. Carried(n)'
  BY <1>2, <1>3, <1>4, <1>5 DEF Carried
<1> QED
  BY <1>6 DEF TurnsSent

(* The first state is as it should be.                                     *)
LEMMA LoopInitOK == LoopInit => LoopInv
<1> SUFFICES ASSUME LoopInit PROVE LoopInv
  OBVIOUS
<1> USE DEF LoopInit
<1>1. [role |-> "system"] \in Message /\ [role |-> "user"] \in Message
  BY DEF Message
<1>2. /\ messages \in Seq(Message) /\ Len(messages) = 2
      /\ messages[1].role = "system" /\ messages[2].role = "user"
  BY <1>1
<1>3. \A i \in 1 .. Len(messages) : messages[i].role \in {"system", "user"}
  BY <1>2
<1>4. LoopTyped
  BY <1>2 DEF LoopTyped
<1>5. EarlierAnswered /\ OnlyAnswers
  BY <1>3 DEF EarlierAnswered, OnlyAnswers
<1>6. TurnsSent
  <2>1. Apart \in 0 .. 1 /\ Len(messages) \in Nat
    BY <1>2 DEF Apart
  <2>2. Carried(0)
    BY <2>1 DEF Carried
  <2> QED
    BY <2>2 DEF TurnsSent
<1> QED
  BY <1>4, <1>5, <1>6 DEF LoopInv, TurnOpen, LoopCounted, UsageAllOrNothing

(* A response's calls are calls.                                           *)
LEMMA AskedTyped ==
  ASSUME iteration \in Nat, NEW names \in Responses
  PROVE  Asked(names) \in Seq(ToolCall) /\ Len(Asked(names)) = Len(names)
<1>1. PICK n \in 0 .. MaxCalls : names \in [1 .. n -> Tools]
  BY DEF Responses
<1>2. n \in Nat
  BY LoopConstants
<1>3. \A k \in 1 .. n : <<iteration + 1, k>> \in Nat \X Nat
  BY <1>2
<1>4. Asked(names) \in [1 .. n -> ToolCall]
  BY <1>1, <1>3 DEF Asked, ToolCall
<1>5. Asked(names) \in Seq(ToolCall) /\ Len(Asked(names)) = n
  BY <1>2, <1>4
<1>6. Len(names) = n
  BY <1>1, <1>2
<1> QED
  BY <1>5, <1>6

(* An answer of the model ends the run or opens a turn; no earlier turn is *)
(* open then.                                                              *)
LEMMA NewTurn ==
  ASSUME LoopInv, ModelAnswers
  PROVE  LoopInv'
<1> USE DEF LoopInv
<1>1. PICK names \in Responses, reason \in Reasons, tokens \in 0 .. MaxTokens :
        /\ iteration' = iteration + 1
        /\ cumUsage' = cumUsage + tokens /\ spent' = spent + tokens
        /\ \/ /\ reason # "tool_calls" \/ names = <<>>
              /\ Finish(TRUE, cumUsage')
              /\ UNCHANGED <<messages, toolCalls, next>>
           \/ /\ reason = "tool_calls" /\ names # <<>>
              /\ phase' = "tools" /\ toolCalls' = Asked(names) /\ next' = 1
              /\ messages' = Append(messages, [role |-> "assistant", toolCalls |-> toolCalls'])
              /\ UNCHANGED result
  BY DEF ModelAnswers, Added
<1>2. adapter = "llm" /\ phase = "call" /\ adapter' = adapter /\ provider' = provider /\ SendRequest
  BY DEF ModelAnswers
<1>3. tokens \in Nat
  BY LoopConstants
<1>4. iteration' \in Nat /\ cumUsage' \in Nat /\ spent' \in Nat /\ cumUsage' = spent'
  BY <1>1, <1>2, <1>3 DEF LoopTyped, LoopCounted
<1>5. CASE /\ Finish(TRUE, cumUsage')
           /\ UNCHANGED <<messages, toolCalls, next>>
  <2>1. phase' = "done" /\ result'.usage = cumUsage'
    BY <1>5 DEF Finish
  <2>2. EarlierAnswered' /\ OnlyAnswers'
    BY <1>2, <1>5, <2>1 DEF EarlierAnswered, OnlyAnswers, AnswerAt
  <2>3. LoopTyped' /\ TurnOpen' /\ LoopCounted' /\ UsageAllOrNothing'
    BY <1>4, <1>5, <2>1 DEF LoopTyped, TurnOpen, LoopCounted, UsageAllOrNothing
  <2>4. TurnsSent'
    BY <1>2, <1>5, RequestCarriesTurns DEF LoopTyped
  <2> QED
    BY <2>2, <2>3, <2>4
<1>6. CASE /\ reason = "tool_calls" /\ names # <<>>
           /\ phase' = "tools" /\ toolCalls' = Asked(names) /\ next' = 1
           /\ messages' = Append(messages, [role |-> "assistant", toolCalls |-> toolCalls'])
           /\ UNCHANGED result
  <2> DEFINE m == [role |-> "assistant", toolCalls |-> toolCalls']
  <2>1. toolCalls' \in Seq(ToolCall) /\ Len(toolCalls') = Len(names)
    BY <1>6, AskedTyped DEF LoopTyped
  <2>2. Len(names) \in Nat \ {0}
    <3>1. PICK n \in 0 .. MaxCalls : names \in [1 .. n -> Tools]
      BY DEF Responses
    <3>2. n # 0
      BY <1>6, <3>1
    <3> QED
      BY <3>1, <3>2, LoopConstants
  <2>3. m \in Message
    BY <2>1 DEF Message
  <2>4. /\ messages' \in Seq(Message) /\ Len(messages') = Len(messages) + 1
        /\ \A i \in 1 .. Len(messages) : messages'[i] = messages[i]
        /\ messages'[Len(messages) + 1] = m
    BY <1>6, <2>3 DEF LoopTyped
  <2>5. Len(messages) \in Nat
    BY DEF LoopTyped
  <2>6. Turn' = Len(messages) + 1
    BY <1>6, <2>4, <2>5 DEF Turn
  <2>7. LoopTyped'
    BY <1>4, <1>6, <2>1, <2>4 DEF LoopTyped
  <2>8. TurnOpen'
    BY <1>2, <1>6, <2>1, <2>2, <2>4, <2>5, <2>6 DEF TurnOpen
  <2>9. EarlierAnswered'
    <3> SUFFICES ASSUME NEW i \in 1 .. Len(messages'), messages'[i].role = "assistant",
                        NEW k \in 1 .. Len(messages'[i].toolCalls)
                 PROVE  \/ i + k <= Len(messages') /\ AnswerAt(i, k)'
                        \/ i + k > Len(messages') /\ phase' = "tools" /\ i = Turn'
      BY DEF EarlierAnswered
    <3>1. CASE i \in 1 .. Len(messages)
      <4>1. messages[i].role = "assistant" /\ k \in 1 .. Len(messages[i].toolCalls)
        BY <2>4, <3>1
      <4>2. i + k <= Len(messages) /\ AnswerAt(i, k)
        BY <1>2, <3>1, <4>1 DEF EarlierAnswered
      <4>3. messages'[i + k] = messages[i + k]
        BY <2>4, <2>5, <3>1, <4>2
      <4> QED
        BY <2>4, <2>5, <3>1, <4>2, <4>3 DEF AnswerAt
    <3>2. CASE i = Len(messages) + 1
      BY <1>6, <2>4, <2>5, <2>6, <3>2
    <3> QED
      BY <2>4, <2>5, <3>1, <3>2
  <2>10. OnlyAnswers'
    <3> SUFFICES ASSUME NEW j \in 1 .. Len(messages'), messages'[j].role = "tool"
                 PROVE  \E i \in 1 .. Len(messages') :
                          /\ messages'[i].role = "assistant"
                          /\ i < j /\ j - i <= Len(messages'[i].toolCalls)
      BY DEF OnlyAnswers
    <3>1. j \in 1 .. Len(messages) /\ messages[j].role = "tool"
      BY <2>4, <2>5
    <3>2. PICK i \in 1 .. Len(messages) :
            messages[i].role = "assistant" /\ i < j /\ j - i <= Len(messages[i].toolCalls)
      BY <3>1 DEF OnlyAnswers
    <3> QED
      BY <2>4, <2>5, <3>2
  <2>11. LoopCounted' /\ UsageAllOrNothing'
    BY <1>4, <1>6 DEF LoopCounted, UsageAllOrNothing
  <2>12. TurnsSent'
    BY <1>2, <2>4, <2>5, RequestCarriesTurns
  <2> QED
    BY <2>7, <2>8, <2>9, <2>10, <2>11, <2>12
<1> QED
  BY <1>1, <1>5, <1>6

(* A tool that ran, failed or was refused answers the call that is due.    *)
LEMMA NextAnswer ==
  ASSUME LoopInv, phase = "tools", Advance,
         messages' = Append(messages, ToolResult(toolCalls[next]))
  PROVE  LoopInv'
<1> USE DEF LoopInv
<1> DEFINE tc == toolCalls[next]
<1>1. /\ next \in 1 .. Len(toolCalls) /\ tc \in ToolCall /\ Len(messages) \in Nat
      /\ Turn \in 1 .. Len(messages) /\ Turn + next = Len(messages) + 1
      /\ messages[Turn].role = "assistant" /\ messages[Turn].toolCalls = toolCalls
      /\ adapter = "llm"
  BY DEF LoopTyped, TurnOpen, Turn
<1>2. ToolResult(tc) \in Message /\ ToolResult(tc).role = "tool" /\ ToolResult(tc).content = tc.id
  BY <1>1 DEF ToolResult, Message, ToolCall
<1>3. /\ messages' \in Seq(Message) /\ Len(messages') = Len(messages) + 1
      /\ \A i \in 1 .. Len(messages) : messages'[i] = messages[i]
      /\ messages'[Len(messages) + 1] = ToolResult(tc)
  BY <1>2 DEF LoopTyped
<1>4. /\ next' = next + 1 /\ toolCalls' = toolCalls /\ adapter' = adapter
      /\ phase' = IF next = Len(toolCalls) THEN "call" ELSE "tools"
      /\ UNCHANGED <<provider, request, iteration, cumUsage, spent, result>>
  BY DEF Advance
<1>5. Turn' = Turn
  BY <1>1, <1>3, <1>4 DEF Turn, LoopTyped
<1>6. LoopTyped'
  BY <1>3, <1>4 DEF LoopTyped
<1>7. TurnOpen'
  BY <1>1, <1>3, <1>4, <1>5 DEF TurnOpen, LoopTyped
<1>8. EarlierAnswered'
  <2> SUFFICES ASSUME NEW i \in 1 .. Len(messages'), messages'[i].role = "assistant",
                      NEW k \in 1 .. Len(messages'[i].toolCalls)
               PROVE  \/ i + k <= Len(messages') /\ AnswerAt(i, k)'
                      \/ i + k > Len(messages') /\ phase' = "tools" /\ i = Turn'
    BY DEF EarlierAnswered
  <2>1. i \in 1 .. Len(messages) /\ messages'[i] = messages[i]
    <3> HIDE DEF tc
    <3>1. i # Len(messages) + 1
      BY <1>2, <1>3
    <3>2. Len(messages) \in Nat /\ Len(messages') = Len(messages) + 1
      BY <1>1, <1>3
    <3>3. i \in 1 .. Len(messages)
      BY <3>1, <3>2
    <3> QED
      BY <1>3, <3>3
  <2>2. messages[i].role = "assistant" /\ k \in 1 .. Len(messages[i].toolCalls)
    BY <2>1
  <2>3. CASE i + k <= Len(messages) /\ AnswerAt(i, k)
    BY <1>1, <1>3, <2>1, <2>3 DEF AnswerAt
  <2>4. CASE i + k > Len(messages) /\ i = Turn
    <3>1. k \in 1 .. Len(toolCalls) /\ messages'[i].toolCalls = toolCalls
      BY <1>1, <2>1, <2>2, <2>4
    <3>2. k >= next
      BY <1>1, <2>4, <3>1
    <3>3. CASE k = next
      <4>1. i + k = Len(messages) + 1
        BY <1>1, <2>4, <3>3
      <4> QED
        BY <1>1, <1>2, <1>3, <3>1, <3>3, <4>1 DEF AnswerAt
    <3>4. CASE k > next
      BY <1>1, <1>3, <1>4, <1>5, <2>4, <3>1, <3>4
    <3> QED
      BY <1>1, <3>1, <3>2, <3>3, <3>4
  <2>5. \/ i + k <= Len(messages) /\ AnswerAt(i, k)
        \/ i + k > Len(messages) /\ i = Turn
    BY <2>1, <2>2 DEF EarlierAnswered
  <2> QED
    BY <2>3, <2>4, <2>5
<1>9. OnlyAnswers'
  <2> SUFFICES ASSUME NEW j \in 1 .. Len(messages'), messages'[j].role = "tool"
               PROVE  \E i \in 1 .. Len(messages') :
                        /\ messages'[i].role = "assistant"
                        /\ i < j /\ j - i <= Len(messages'[i].toolCalls)
    BY DEF OnlyAnswers
  <2>1. CASE j = Len(messages) + 1
    <3>1. Turn \in 1 .. Len(messages') /\ messages'[Turn] = messages[Turn]
      BY <1>1, <1>3
    <3>2. Turn < j /\ j - Turn = next
      BY <1>1, <2>1
    <3>3. next <= Len(messages'[Turn].toolCalls) /\ messages'[Turn].role = "assistant"
      BY <1>1, <3>1
    <3> QED
      BY <3>1, <3>2, <3>3
  <2>2. CASE j \in 1 .. Len(messages)
    <3>1. PICK i \in 1 .. Len(messages) :
            messages[i].role = "assistant" /\ i < j /\ j - i <= Len(messages[i].toolCalls)
      BY <1>3, <2>2 DEF OnlyAnswers
    <3>2. i \in 1 .. Len(messages') /\ messages'[i] = messages[i]
      BY <1>1, <1>3
    <3> QED
      BY <3>1, <3>2
  <2>3. j = Len(messages) + 1 \/ j \in 1 .. Len(messages)
    <3>1. Len(messages') = Len(messages) + 1 /\ Len(messages) \in Nat
      BY <1>1, <1>3
    <3> HIDE DEF LoopInv
    <3> QED
      BY <3>1
  <2> QED
    BY <2>1, <2>2, <2>3
<1>10. LoopCounted' /\ UsageAllOrNothing'
  BY <1>4 DEF LoopCounted, UsageAllOrNothing
<1>11. TurnsSent'
  BY <1>1, <1>3, <1>4, RequestStays
<1> QED
  BY <1>6, <1>7, <1>8, <1>9, <1>10, <1>11

(* Every other step leaves the conversation alone.                         *)
LEMMA SameMessages ==
  ASSUME LoopInv, phase = "call", UNCHANGED <<adapter, provider, messages, toolCalls, next, cumUsage>>,
         UNCHANGED request \/ SendRequest,
         phase' \in {"call", "done"}, iteration' \in Nat, spent' \in Nat,
         adapter = "llm" => spent' = spent,
         phase' = "done" => result'.usage = 0
  PROVE  LoopInv'
<1> USE DEF LoopInv
<1>1. EarlierAnswered' /\ OnlyAnswers'
  BY DEF EarlierAnswered, OnlyAnswers, AnswerAt
<1>2. LoopTyped' /\ TurnOpen' /\ LoopCounted' /\ UsageAllOrNothing'
  BY DEF LoopTyped, TurnOpen, LoopCounted, UsageAllOrNothing
<1>3. TurnsSent'
  BY RequestStays, RequestCarriesTurns DEF LoopTyped
<1> QED
  BY <1>1, <1>2, <1>3

(* Every step keeps the invariant.                                         *)
LEMMA LoopStep == LoopInv /\ [LoopNext]_loopVars => LoopInv'
<1> SUFFICES ASSUME LoopInv, [LoopNext]_loopVars PROVE LoopInv'
  OBVIOUS
<1>1. CASE ModelAnswers
  BY <1>1, NewTurn
<1>2. CASE ToolRefused
  BY <1>2, NextAnswer DEF ToolRefused, Reported
<1>3. CASE ToolHandled
  BY <1>3, NextAnswer DEF ToolHandled, Reported
<1>4. CASE MaxIterations \/ RemoteAnswers \/ CallFails
  BY <1>4, SameMessages DEF MaxIterations, RemoteAnswers, CallFails, Finish, LoopInv, LoopTyped
<1>5. CASE MemberAnswers
  <2>1. PICK tokens \in 0 .. MaxTokens : spent' = spent + tokens
    BY <1>5 DEF MemberAnswers
  <2>2. spent' \in Nat /\ iteration' \in Nat
    BY <1>5, <2>1, LoopConstants DEF MemberAnswers, LoopInv, LoopTyped
  <2>3. phase' \in {"call", "done"} /\ (phase' = "done" => result'.usage = 0)
    BY <1>5 DEF MemberAnswers, Finish
  <2> QED
    BY <1>5, <2>2, <2>3, SameMessages DEF MemberAnswers
<1>6. CASE UNCHANGED loopVars
  BY <1>6 DEF loopVars, LoopInv, LoopTyped, TurnOpen, Turn, EarlierAnswered, OnlyAnswers,
              AnswerAt, LoopCounted, UsageAllOrNothing, TurnsSent, Carried, Sent, Apart
<1> QED
  BY <1>1, <1>2, <1>3, <1>4, <1>5, <1>6 DEF LoopNext

(* The invariant holds in every reachable state.                           *)
LEMMA LoopInvariant == LoopSpec => []LoopInv
<1> QED
  BY LoopInitOK, LoopStep, PTL DEF LoopSpec

(* However many turns and calls there are, whatever tools fail and whoever *)
(* the provider is, each call of a turn has one result in the next request *)
(* that is sent, the results are in the order of the calls, and there is   *)
(* no other result.                                                        *)
THEOREM ResultsAreSentInOrder == LoopSpec => []ResultsInOrder
<1>1. LoopInv => ResultsInOrder
  <2> SUFFICES ASSUME LoopInv PROVE ResultsInOrder
    OBVIOUS
  <2>1. messages \in Seq(Message) /\ DOMAIN messages = 1 .. Len(messages) /\ Len(messages) \in Nat
    BY DEF LoopInv, LoopTyped
  <2>2. \A i \in 1 .. Len(messages) : messages[i] \in Message /\ (messages[i].role = "assistant" =>
          DOMAIN messages[i].toolCalls = 1 .. Len(messages[i].toolCalls))
    BY <2>1 DEF Message
  <2>3. PICK n \in Nat : Carried(n)
    BY DEF LoopInv, TurnsSent
  <2>4. Apart \in 0 .. 1
    BY DEF Apart
  <2>5. \A i \in Int : Went(i) <=> i \in 1 + Apart .. n
    BY <2>3, <2>4 DEF Went, Carried
  <2>6. \A i \in 1 + Apart .. n : SentOf(i) = Sent(messages[i]) /\ i \in 1 .. Len(messages)
    <3> SUFFICES ASSUME NEW i \in 1 + Apart .. n
                 PROVE  SentOf(i) = Sent(messages[i]) /\ i \in 1 .. Len(messages)
      OBVIOUS
    <3>1. i - Apart \in 1 .. n - Apart /\ i - Apart + Apart = i /\ n <= Len(messages)
      BY <2>3, <2>4 DEF Carried
    <3> QED
      BY <2>1, <2>3, <2>4, <3>1 DEF Carried, SentOf
  <2>7. ASSUME NEW i \in 1 .. Len(messages), messages[i].role = "assistant", Went(i),
               NEW k \in 1 .. Len(messages[i].toolCalls)
        PROVE  /\ Went(i + k) /\ IsResult(SentOf(i + k))
               /\ SentOf(i + k).content = messages[i].toolCalls[k].id
    <3>1. i \in 1 + Apart .. n /\ i + k \in 1 + Apart .. n /\ i + k <= Len(messages)
      BY <2>1, <2>3, <2>4, <2>5, <2>7 DEF Carried
    <3>2. AnswerAt(i, k)
      BY <2>7, <3>1 DEF LoopInv, EarlierAnswered
    <3>3. SentOf(i + k) = Sent(messages[i + k]) /\ messages[i + k] \in Message
      BY <2>2, <2>6, <3>1
    <3>4. Went(i + k)
      BY <2>5, <3>1
    <3> QED
      BY <3>2, <3>3, <3>4, SentShape DEF AnswerAt
  <2>8. ASSUME NEW j \in 1 .. Len(messages), Went(j), IsResult(SentOf(j))
        PROVE  \E i \in 1 .. Len(messages) :
                 messages[i].role = "assistant" /\ i < j /\ j - i <= Len(messages[i].toolCalls)
    <3>1. SentOf(j) = Sent(messages[j]) /\ messages[j] \in Message
      BY <2>2, <2>5, <2>6, <2>8
    <3>2. messages[j].role = "tool"
      BY <2>8, <3>1, SentShape
    <3> QED
      BY <2>8, <3>2 DEF LoopInv, OnlyAnswers
  <2> QED
    BY <2>1, <2>2, <2>7, <2>8 DEF ResultsInOrder
<1> QED
  BY <1>1, LoopInvariant, PTL

(* A run reports the tokens of all its model calls or of none.             *)
THEOREM UsageIsAllOrNothing == LoopSpec => []UsageAllOrNothing
<1>1. LoopInv => UsageAllOrNothing
  BY DEF LoopInv
<1> QED
  BY <1>1, LoopInvariant, PTL
=============================================================================
