---------------------------- MODULE BillingPlans ----------------------------
(***************************************************************************)
(* A user's plan: the subscription row, its life cycle over time, the      *)
(* credits and the invoice that come with it, and the agents the plan      *)
(* allows.  Agents are created against that quota, changed, archived and   *)
(* deleted by the agents service.                                          *)
(***************************************************************************)
EXTENDS Handlers

CONSTANTS
  Plans,      \* BillingPlan rows, all active
  FreePlan,   \* the one named Free
  MaxAgents,  \* features.maxAgents
  Credits,    \* features.monthlyCredits
  Period,     \* days a period lasts
  Grace,      \* DEFAULT_GRACE_PERIOD_DAYS
  AgentIds,   \* ids of Agent rows, used once each, in their order
  MaxDays     \* bound: days that pass

ASSUME FreeIsPlan   == FreePlan \in Plans
ASSUME QuotasAreNat == MaxAgents \in [Plans -> Nat] /\ Credits \in [Plans -> Nat]
ASSUME DaysAreNat   == Period \in Nat /\ Grace \in Nat /\ MaxDays \in Nat
ASSUME IdsFinite    == IsFiniteSet(AgentIds) /\ AgentIds \subseteq Nat

VARIABLES
  plan,     \* the BillingSubscription row
  day,      \* the date
  granted,  \* per plan: allocations of its monthly credits
  billed,   \* per plan: its invoices
  begun,    \* history, per plan: how often it was taken up by who did not hold it
  agents,   \* Agent rows: status, and whether the agent belongs to a team
  exempt    \* history: the quota was passed by, see Exempts

planVars  == <<plan, granted, billed, begun>>
planData  == <<planVars, day, agents, exempt>>
planAll   == <<planData, handlerVars>>

AgentStatus == {"NONE", "DRAFT", "ACTIVE", "ARCHIVED", "GONE"}
AgentRow    == [status: AgentStatus, team: BOOLEAN]

PlanInit ==
  /\ HandlersInit
  /\ plan = [made |-> FALSE, id |-> FreePlan, end |-> 0, cancel |-> FALSE]
  /\ day = 0 /\ exempt = FALSE
  /\ granted = [p \in Plans |-> 0] /\ billed = [p \in Plans |-> 0]
  /\ begun = [p \in Plans |-> 0]
  /\ agents = [i \in AgentIds |-> [status |-> "NONE", team |-> FALSE]]

-----------------------------------------------------------------------------
(* getLifecycle.  No code sets the status past_due.                        *)
Lifecycle ==
  IF ~plan.made THEN "free"
  ELSE IF plan.cancel /\ day < plan.end THEN "canceling"
  ELSE IF day <= plan.end THEN "active"
  ELSE IF day <= plan.end + Grace THEN "grace_period"
  ELSE "expired"

InForce == Lifecycle # "expired"

(* getEffectivePlan: an expired subscription still names its plan.         *)
EffectivePlan == IF plan.made THEN plan.id ELSE FreePlan

Holds(p) == plan.made /\ plan.id = p /\ InForce /\ ~plan.cancel

(* subscribe: who holds the plan is refused; then the row, the credits and *)
(* the invoice, one after the other.                                       *)
ServePlan(c) ==
  /\ \/ \E p \in Plans : Begin(c, "subscribe", Nobody, p, "plans")
     \/ Begin(c, "cancel", Nobody, Nobody, "find")
  /\ UNCHANGED planData

(* Slip: who holds the plan may subscribe again.                           *)
OpenToAll(p) == TRUE
OpenTo(p)    == ~Holds(p)

ReadPlan(c) ==
  /\ At(c, "plans") /\ OpenTo(call[c].arg)
  /\ Note(c, "upsert", day)
  /\ Steady /\ UNCHANGED planData

UpsertPlan(c) ==
  LET p == call[c].arg
  IN /\ At(c, "upsert")
     /\ plan' = [made |-> TRUE, id |-> p, end |-> call[c].seen + Period, cancel |-> FALSE]
     /\ begun' = [begun EXCEPT ![p] = IF Holds(p) THEN @ ELSE @ + 1]
     /\ exempt' = (exempt \/ MaxAgents[p] < MaxAgents[EffectivePlan])
     /\ Goto(c, IF Credits[p] > 0 THEN "grant" ELSE "invoice")
     /\ Steady /\ UNCHANGED <<granted, billed, day, agents>>

GrantCredits(c) ==
  /\ At(c, "grant")
  /\ granted' = [granted EXCEPT ![call[c].arg] = @ + 1]
  /\ Goto(c, "invoice")
  /\ Steady /\ UNCHANGED <<plan, billed, begun, day, agents, exempt>>

(* A free plan has no line above zero, and so no invoice.                  *)
InvoicePlan(c) ==
  LET p == call[c].arg
  IN /\ At(c, "invoice")
     /\ billed' = IF p = FreePlan THEN billed ELSE [billed EXCEPT ![p] = @ + 1]
     /\ Answer(c) /\ Steady
     /\ UNCHANGED <<plan, granted, begun, day, agents, exempt>>

CancelPlan(c) ==
  /\ \/ /\ At(c, "find") /\ plan.made
        /\ Goto(c, "cancel") /\ UNCHANGED plan
     \/ /\ At(c, "cancel")
        /\ plan' = [plan EXCEPT !.cancel = TRUE]
        /\ Answer(c)
  /\ Steady /\ UNCHANGED <<granted, billed, begun, day, agents, exempt>>

NextDay ==
  /\ day < MaxDays /\ day' = day + 1
  /\ UNCHANGED <<handlerVars, planVars, agents, exempt>>

-----------------------------------------------------------------------------
(* Agents: create, update, delete, hardDelete.  The audit row that follows *)
(* each write has no reader here.                                          *)

Live    == {i \in AgentIds : agents[i].status \in {"DRAFT", "ACTIVE"}}
Unused  == {i \in AgentIds : agents[i].status = "NONE"}
Present == {i \in AgentIds : agents[i].status \notin {"NONE", "GONE"}}

ServeAgent(c) ==
  /\ \/ \E team \in BOOLEAN :
          Begin(c, "create", Nobody, team, IF team THEN "insert" ELSE "quota")
     \/ \E op \in {"DRAFT", "ACTIVE", "archive"}, i \in Present : Begin(c, op, Nobody, i, "agent")
     \/ \E i \in Present : Begin(c, "hardDelete", Nobody, i, "write")
  /\ UNCHANGED planData

(* assertCanCreateAgent: the plan, then the count of agents not archived.  *)
CheckPlan(c) ==
  /\ At(c, "quota")
  /\ InForce \/ EffectivePlan = FreePlan
  /\ Note(c, "tally", MaxAgents[EffectivePlan])
  /\ Steady /\ UNCHANGED planData

(* Slip: the comparison admits one agent more than the plan.               *)
UnderInclusive(max) == Cardinality(Live) <= max
Under(max) == Cardinality(Live) < max

CountAgents(c) ==
  /\ At(c, "tally") /\ Under(call[c].seen)
  /\ Goto(c, "insert")
  /\ Steady /\ UNCHANGED planData

CreateAgent(c) ==
  /\ At(c, "insert")
  /\ \E i \in Unused :
       /\ \A j \in Unused : i <= j
       /\ agents' = [agents EXCEPT ![i] = [status |-> "DRAFT", team |-> call[c].arg]]
  /\ exempt' = (exempt \/ call[c].arg)
  /\ Answer(c)
  /\ Steady /\ UNCHANGED <<planVars, day>>

FindAgent(c) ==
  /\ At(c, "agent") /\ call[c].arg \in Present
  /\ Goto(c, "write")
  /\ Steady /\ UNCHANGED planData

(* update may give any status, also to an archived agent: the quota is not *)
(* asked again.  A row that has gone makes the write throw.                *)
StatusOf(op) ==
  CASE op = "archive" -> "ARCHIVED" [] op = "hardDelete" -> "GONE" [] OTHER -> op

Exempts(i, status) == i \notin Live /\ status \in {"DRAFT", "ACTIVE"}

WriteAgent(c) ==
  LET i == call[c].arg
      status == StatusOf(call[c].op)
  IN /\ At(c, "write") /\ i \in Present
     /\ agents' = [agents EXCEPT ![i].status = status]
     /\ exempt' = (exempt \/ Exempts(i, status))
     /\ Answer(c)
     /\ Steady /\ UNCHANGED <<planVars, day>>

-----------------------------------------------------------------------------
(* A check refuses the call, or the read before it rejects.                *)
RefusePlan(c) ==
  /\ call[c].at \in {"plans", "find", "quota", "tally", "agent", "write"}
  /\ Answer(c) /\ Steady /\ UNCHANGED planData

BreakPlan(c) ==
  /\ ~At(c, "idle") /\ Break(c)
  /\ UNCHANGED planData

PlanNext ==
  \/ \E c \in Calls :
       \/ ServePlan(c) \/ ReadPlan(c) \/ UpsertPlan(c) \/ GrantCredits(c) \/ InvoicePlan(c)
       \/ CancelPlan(c) \/ ServeAgent(c) \/ CheckPlan(c) \/ CountAgents(c) \/ CreateAgent(c)
       \/ FindAgent(c) \/ WriteAgent(c) \/ RefusePlan(c) \/ BreakPlan(c)
  \/ NextDay

PlanSpec == PlanInit /\ [][PlanNext]_planAll

-----------------------------------------------------------------------------
(* Properties.                                                             *)

PlanLabels == {"idle", "plans", "upsert", "grant", "invoice", "find", "cancel", "quota",
               "tally", "insert", "agent", "write"}

(* Types of the rows and the handlers.                                     *)
PlanTypeOK ==
  /\ plan \in [made: BOOLEAN, id: Plans, end: Nat, cancel: BOOLEAN]
  /\ day \in 0 .. MaxDays /\ exempt \in BOOLEAN
  /\ granted \in [Plans -> Nat] /\ billed \in [Plans -> Nat] /\ begun \in [Plans -> Nat]
  /\ agents \in [AgentIds -> AgentRow]
  /\ \A c \in Calls : call[c].at \in PlanLabels

(* subscribe checks the row and then writes row, credits and invoice: when *)
(* calls do not overlap a plan's credits are granted no more often than it *)
(* is taken up and never without an invoice to follow, except when a call  *)
(* breaks off between them.                                                *)
GrantsAreBacked ==
  /\ calm => \A p \in Plans : granted[p] <= begun[p]
  /\ Sequential => \A p \in Plans \ {FreePlan} :
       /\ billed[p] = begun[p]
       /\ Credits[p] > 0 => granted[p] = begun[p]

(* The quota is read and compared before the agent is created: calls that  *)
(* do not overlap keep the number of agents within the plan, as long as no *)
(* archived agent is taken back, none is made for a team and the plan does *)
(* not shrink, which are the ways past the check.                          *)
QuotaHolds ==
  calm /\ ~exempt => Cardinality(Live) <= MaxAgents[EffectivePlan]
=============================================================================
