----------------------------- MODULE MCServices -----------------------------
(* Services that share no row, the loop of an adapter and the schedule     *)
(* page, one of them in use in each behaviour: the run checks the sum of   *)
(* their state spaces.                                                     *)
EXTENDS Marketplace, ApiKeys, BillingPlans, AgentVersions, Sessions, WorkflowRuns,
        AgentAccess, AdapterCache, AgentLoop, SchedulePage, TLC

CONSTANTS c1, c2, u1, u2, free, pro, big

VARIABLE subject   \* the service whose routes are called

Quotas  == [p \in Plans |-> CASE p = free -> 1 [] p = pro -> 2 [] p = big -> 2]
Bonuses == [p \in Plans |-> IF p = big THEN 5 ELSE 0]
TimePatterns ==
  {[kind |-> "daily", date |-> 1], [kind |-> "weekly", date |-> 1], [kind |-> "event", date |-> 1],
   [kind |-> "monthly", date |-> 2], [kind |-> "monthly", date |-> 3]}
Alike   == {p @@ q : p \in Permutations({c1, c2}), q \in Permutations({u1, u2})}

(* Bound, per service: the calls that are served.                          *)
Served == [marketplace |-> 3, apis |-> 3, plans |-> 3, versions |-> 5, sessions |-> 4,
           workflows |-> 3, access |-> 3, cache |-> 4, loop |-> 0, schedule |-> 0]
Services == DOMAIN Served

(* Bound, per service: the calls that are served once two have overlapped. *)
Overlapped == [Served EXCEPT !.apis = 2]

(* Bound: of two schedules one is on an event; the page's operations on    *)
(* the two share nothing but the flag of a run under way.                  *)
OnEvent == \A k \in DOMAIN timers :
             timers[k].op = "create" /\ timers[k].id = 2 => timers[k].with.pattern.kind = "event"

(* The services that are not in use start from one state.                  *)
Plain ==
  /\ subject # "marketplace" => listing = [status |-> "NONE", monthly |-> FALSE]
  /\ Cardinality(Active) <= 1
  /\ subject # "apis" => drawn = 0 /\ pricing = "monthly"
  /\ subject # "sessions" => password = Nobody
  /\ subject # "access" => /\ agent.public /\ agent.team = Nobody
                           /\ roster = [u \in People |-> [t \in Teams |-> "NONE"]]
  /\ subject # "loop" => adapter = "llm" /\ provider = "openai"
  /\ subject # "schedule" => clock = 0

ServicesInit ==
  /\ subject \in Services
  /\ MarketInit /\ ApiInit /\ PlanInit /\ VersionInit /\ SessionInit /\ FlowInit
  /\ AccessInit /\ CacheInit /\ LoopInit /\ ScheduleInit
  /\ Plain

(* The rows and the fields of the service that is not in use.              *)
Rest(service) ==
  /\ service # "marketplace" => UNCHANGED marketData
  /\ service # "apis" => UNCHANGED apiData
  /\ service # "plans" => UNCHANGED planData
  /\ service # "versions" => UNCHANGED versionData
  /\ service # "sessions" => UNCHANGED sessionData
  /\ service # "workflows" => UNCHANGED flowData
  /\ service # "access" => UNCHANGED accessData
  /\ service # "cache" => UNCHANGED cacheData
  /\ service # "loop" => UNCHANGED loopVars
  /\ service # "schedule" => UNCHANGED scheduleVars
  /\ service \in {"loop", "schedule"} => UNCHANGED handlerVars

ServicesNext ==
  /\ UNCHANGED subject
  /\ \/ subject = "marketplace" /\ MarketNext
     \/ subject = "apis" /\ ApiNext
     \/ subject = "plans" /\ PlanNext
     \/ subject = "versions" /\ VersionNext
     \/ subject = "sessions" /\ SessionNext
     \/ subject = "workflows" /\ FlowNext
     \/ subject = "access" /\ AccessNext
     \/ subject = "cache" /\ CacheNext
     \/ subject = "loop" /\ LoopNext
     \/ subject = "schedule" /\ ScheduleNext
  /\ Rest(subject)
  /\ served' <= IF calm' THEN Served[subject] ELSE Overlapped[subject]
  /\ OnEvent'

servicesVars == <<subject, marketData, apiData, planData, versionData, sessionData, flowData,
                  accessData, cacheData, handlerVars, loopVars, scheduleVars>>

ServicesSpec == ServicesInit /\ [][ServicesNext]_servicesVars
=============================================================================
