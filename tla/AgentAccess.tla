----------------------------- MODULE AgentAccess ----------------------------
(***************************************************************************)
(* Who may run one agent: its row, the memberships of the teams it may     *)
(* belong to, the RUN grants on it, and the admission of execute and of    *)
(* enqueue, whose checks read these rows one after the other.  A job that  *)
(* was enqueued is run without being checked again.                        *)
(***************************************************************************)
EXTENDS Handlers

CONSTANTS
  People,  \* users
  Owner,   \* the one who owns the agent; no code changes Agent.userId
  Teams    \* teams an agent may be moved to

ASSUME PeopleFinite == IsFiniteSet(People) /\ Owner \in People /\ IsFiniteSet(Teams)

VARIABLES
  agent,      \* the Agent row
  roster,     \* per user and team: TeamMember.inviteStatus
  grants,     \* Permission rows (RUN): per user the row's id, 0 without one
  permissionIds,  \* ids given to Permission rows so far
  jobs,       \* the agent-runs queue: runs that were enqueued
  witnessed,  \* history, per call: see View
  turnedAway  \* history: the grounds of those a check has refused

accessRows == <<agent, roster, grants, permissionIds, jobs, turnedAway>>
accessData == <<accessRows, witnessed>>
accessVars == <<accessData, handlerVars>>

Membership == {"NONE", "PENDING", "ACCEPTED"}
Row == [made: BOOLEAN, public: BOOLEAN, team: Teams \cup {Nobody},
        status: {"DRAFT", "ACTIVE", "ARCHIVED"}]

(* The agent has been created; users other than its owner may have been    *)
(* invited to a team by address.                                           *)
AccessInit ==
  /\ HandlersInit
  /\ agent \in {row \in Row : row.made /\ row.status = "DRAFT"}
  /\ roster \in [People -> [Teams -> {"NONE", "PENDING"}]]
  /\ \A t \in Teams : roster[Owner][t] = "NONE"
  /\ grants = [u \in People |-> 0] /\ permissionIds = 0
  /\ jobs = {}
  /\ witnessed = [c \in Calls |-> {}] /\ turnedAway = {}

(* What there is to see of user u's right to run the agent.  Its grants    *)
(* stay in the table when the agent is erased.                             *)
View(u) ==
  [live   |-> agent.made /\ agent.status # "ARCHIVED",
   owner  |-> agent.made /\ Owner = u,
   public |-> agent.made /\ agent.public,
   grant  |-> grants[u] # 0,
   team   |-> IF agent.made THEN agent.team ELSE Nobody,
   teams  |-> {t \in Teams : roster[u][t] = "ACCEPTED"}]

(* The right is there: the agent is live, and one ground holds; to be a    *)
(* member is another ground in each team.                                  *)
Grounds == {"owner", "public", "grant"}
ASSUME TeamsAreTeams == Teams \cap (Grounds \cup {Nobody}) = {}
Stands(view, g) ==
  view.live /\ (\/ g \in Grounds /\ view[g]
                \/ g \in Teams /\ view.team = g /\ g \in view.teams)

-----------------------------------------------------------------------------
(* Changes of the facts: agentsService.update, delete and hardDelete, the  *)
(* grants, and the memberships, which TeamMembership models in detail; the *)
(* owner needs none.                                                       *)

ServeChange(c) ==
  /\ \E u \in People :
       \/ Begin(c, "update", u, Nobody, "owned")
       \/ \E v \in People : Begin(c, "grant", u, v, "owned")
       \/ \E id \in 1 .. permissionIds : Begin(c, "revoke", u, id, "permission")
       \/ u # Owner /\ \E t \in Teams : Begin(c, "member", u, t, "roster")
     \/ Begin(c, "erase", Nobody, Nobody, "erase")
  /\ UNCHANGED accessRows

FindPermission(c) ==
  /\ At(c, "permission") /\ call[c].arg \in {grants[u] : u \in People}
  /\ Goto(c, "owned") /\ UNCHANGED accessRows

(* Only the owner changes the agent and its grants, and not for themselves. *)
FindOwned(c) ==
  /\ At(c, "owned") /\ agent.made /\ Owner = call[c].user
  /\ Is(c, {"grant"}) => call[c].arg # call[c].user
  /\ Goto(c, IF Is(c, {"grant"}) THEN "existing" ELSE "write")
  /\ UNCHANGED accessRows

(* grant is idempotent; it makes its row later, and the unique index       *)
(* refuses a second one.                                                   *)
FindGrant(c) ==
  /\ At(c, "existing")
  /\ IF grants[call[c].arg] # 0 THEN Answer(c) ELSE Goto(c, "create")
  /\ UNCHANGED accessRows

CreateGrant(c) ==
  /\ At(c, "create") /\ grants[call[c].arg] = 0
  /\ permissionIds' = permissionIds + 1
  /\ grants' = [grants EXCEPT ![call[c].arg] = permissionIds + 1]
  /\ Answer(c)
  /\ UNCHANGED <<agent, roster, jobs, turnedAway>>

DeleteGrant(c) ==
  /\ At(c, "write") /\ Is(c, {"revoke"})
  /\ \E u \in People :
       /\ grants[u] = call[c].arg
       /\ grants' = [grants EXCEPT ![u] = 0]
  /\ Answer(c)
  /\ UNCHANGED <<agent, roster, permissionIds, jobs, turnedAway>>

(* update writes the fields of its input, of which a teamId may be any     *)
(* team's; delete writes the status ARCHIVED.                              *)
WriteAgentRow(c) ==
  /\ At(c, "write") /\ Is(c, {"update"}) /\ agent.made
  /\ \/ \E s \in {"DRAFT", "ACTIVE", "ARCHIVED"} : agent' = [agent EXCEPT !.status = s]
     \/ \E b \in BOOLEAN : agent' = [agent EXCEPT !.public = b]
     \/ \E t \in Teams : agent' = [agent EXCEPT !.team = t]
  /\ Answer(c)
  /\ UNCHANGED <<roster, grants, permissionIds, jobs, turnedAway>>

(* hardDelete leaves the Permission rows of the agent.                     *)
EraseAgent(c) ==
  /\ At(c, "erase") /\ agent.made
  /\ agent' = [agent EXCEPT !.made = FALSE]
  /\ Answer(c)
  /\ UNCHANGED <<roster, grants, permissionIds, jobs, turnedAway>>

(* An invite by address, by id (accepted at once), an answer, a removal.   *)
WriteMember(c) ==
  LET u == call[c].user
      t == call[c].arg
  IN /\ At(c, "roster")
     /\ \E status \in Membership \ {roster[u][t]} :
          roster' = [roster EXCEPT ![u][t] = status]
     /\ Answer(c)
     /\ UNCHANGED <<agent, grants, permissionIds, jobs, turnedAway>>

-----------------------------------------------------------------------------
(* loadAndValidateAgent, for execute and for enqueue.                      *)

ServeRun(c) ==
  /\ \E u \in People : Begin(c, "run", u, Nobody, "load")
  /\ UNCHANGED accessRows

(* Whoever passes: the status that decides is that of the first read.      *)
Pass(c, row) ==
  IF row.status = "ARCHIVED" THEN Answer(c) ELSE Note(c, "admitted", row)

(* The owner, a public agent that is active, an accepted member of the     *)
(* team; who is none of these is looked up by the permission service.      *)
Judge(c, row, member) ==
  IF call[c].user = Owner \/ (row.public /\ row.status = "ACTIVE") \/ member
  THEN Pass(c, row) ELSE Note(c, "resolve", row)

LoadAgent(c) ==
  /\ At(c, "load") /\ agent.made
  /\ IF agent.team # Nobody THEN Note(c, "membership", agent) ELSE Judge(c, agent, FALSE)
  /\ UNCHANGED accessRows

(* Slip: an invitation is enough.                                          *)
Invited(status)  == status # "NONE"
Accepted(status) == status = "ACCEPTED"

ReadMembership(c) ==
  /\ At(c, "membership")
  /\ Judge(c, call[c].seen, Accepted(roster[call[c].user][call[c].seen.team]))
  /\ UNCHANGED accessRows

Deny(c) ==
  /\ Answer(c)
  /\ turnedAway' = turnedAway \cup
       {g \in Grounds \cup Teams : \A view \in witnessed[c] \cup {View(call[c].user)} : Stands(view, g)}
  /\ UNCHANGED <<agent, roster, grants, permissionIds, jobs>>

Resolve(c) ==
  /\ At(c, "resolve")
  /\ IF ~agent.made THEN Deny(c)
     ELSE /\ IF agent.public THEN Pass(c, call[c].seen) ELSE Goto(c, "grant")
          /\ UNCHANGED accessRows

ReadGrant(c) ==
  /\ At(c, "grant")
  /\ IF grants[call[c].user] # 0 THEN Pass(c, call[c].seen) /\ UNCHANGED accessRows
     ELSE Deny(c)

(* validate takes a read that rejects for an agent that is not there.      *)
MisreadAgent(c) ==
  /\ At(c, "resolve") /\ faults < MaxFaults /\ faults' = faults + 1
  /\ Deny(c)
  /\ UNCHANGED <<served, calm>>

(* execute goes on as RunPipeline says; enqueue adds the job.              *)
AdmitRun(c) ==
  /\ At(c, "admitted")
  /\ jobs' \in {jobs, jobs \cup {[user |-> call[c].user, views |-> witnessed[c]]}}
  /\ Answer(c)
  /\ UNCHANGED <<agent, roster, grants, permissionIds, turnedAway>>

(* executeQueued: the agent has to be there, and nothing else is checked.  *)
RunQueued ==
  /\ \E job \in jobs : jobs' = jobs \ {job}
  /\ UNCHANGED <<agent, roster, grants, permissionIds, turnedAway, handlerVars>>

-----------------------------------------------------------------------------
(* A check refuses the call, or the row it wants is not there.             *)
RefuseAccess(c) ==
  /\ call[c].at \in {"permission", "owned", "create", "write", "erase", "load"}
  /\ Answer(c) /\ UNCHANGED accessRows

(* An await rejects, or the process dies.                                  *)
BreakAccess(c) ==
  /\ ~At(c, "idle") /\ Break(c)
  /\ UNCHANGED accessRows

ServeAccess(c) == ServeChange(c) \/ ServeRun(c)

ChangeStep(c) ==
  \/ FindPermission(c) \/ FindOwned(c) \/ FindGrant(c) \/ CreateGrant(c) \/ DeleteGrant(c)
  \/ WriteAgentRow(c) \/ EraseAgent(c) \/ WriteMember(c) \/ RefuseAccess(c)

RunStep(c) ==
  LoadAgent(c) \/ ReadMembership(c) \/ Resolve(c) \/ ReadGrant(c) \/ AdmitRun(c)

(* What a run has witnessed since it read the agent.                       *)
Witness ==
  witnessed' = [c \in Calls |->
    IF call'[c].at \in {"membership", "resolve", "grant", "admitted"}
    THEN witnessed[c] \cup {View(call[c].user)'} ELSE {}]

AccessNext ==
  /\ \/ \E c \in Calls :
          \/ ServeAccess(c) \/ MisreadAgent(c) \/ BreakAccess(c)
          \/ ChangeStep(c) /\ Steady
          \/ RunStep(c) /\ Steady
     \/ RunQueued
  /\ Witness

AccessSpec == AccessInit /\ [][AccessNext]_accessVars

-----------------------------------------------------------------------------
(* Properties.                                                             *)

AccessLabels == {"idle", "owned", "permission", "existing", "create", "write", "erase",
                 "roster", "load", "membership", "resolve", "grant", "admitted"}

(* Types of the rows and of the handlers.                                  *)
AccessTypeOK ==
  /\ agent \in Row /\ roster \in [People -> [Teams -> Membership]]
  /\ permissionIds \in Nat /\ grants \in [People -> 0 .. permissionIds]
  /\ turnedAway \subseteq Grounds \cup Teams
  /\ \A job \in jobs : job.user \in People
  /\ \A c \in Calls : call[c].at \in AccessLabels

(* What a run may rest on: while it was checked the agent was live, and    *)
(* one ground held; of a membership, the two rows it joins may have been   *)
(* there at different times.                                               *)
Rests(views) ==
  /\ \E v \in views : v.live
  /\ \/ \E v \in views : v.owner \/ v.public \/ v.grant
     \/ \E v, w \in views : v.team \in w.teams

RestsAtOnce(views) == \E v \in views : \E g \in Grounds \cup Teams : Stands(v, g)

(* However grants, memberships and edits overlap with it, a run that is    *)
(* admitted, and a job that a worker will run unchecked, rests on what     *)
(* held while it was checked, at one instant when calls do not overlap;    *)
(* and nobody is turned away, unless a read failed, whose right lasted for *)
(* the whole of the check.                                                 *)
AdmissionsRest ==
  /\ \A c \in Calls : At(c, "admitted") => Rests(witnessed[c])
  /\ \A job \in jobs : Rests(job.views) /\ (calm => RestsAtOnce(job.views))
  /\ faults = 0 => turnedAway = {}
=============================================================================
