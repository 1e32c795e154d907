----------------------------- MODULE PageProofs -----------------------------
(***************************************************************************)
(* The parts of the browser, for every number of clicks, requests,         *)
(* workflows, schedules and instants and whatever order they end in: the   *)
(* dialog that runs an agent, the client that refreshes its token, the     *)
(* collaboration page, the query cache and the schedule page.              *)
(***************************************************************************)
EXTENDS AgentRunner, ApiClient, WorkflowCanvas, QueryCache, SchedulePage, SequenceTheorems, TLAPS

USE ClicksAreNat, ExpiriesAreNat, CanvasIds, MockData

(* The dialog of the agent runner.                                         *)

RunnerType == [step: Steps, failed: BOOLEAN, review: {"none", "ok", "blocked"},
               checked: BOOLEAN, result: {"none", "success", "failed"}, busy: SUBSET Flags]

(* The invariant.  Its parts: a dialog that shows the first step waits for *)
(* its answer; every spinner has what ends it; a run that is after is      *)
(* under way; a result that is after is there.                             *)
InitAwaited == On("init") /\ ~runner.failed => pending["init"] > 0

SpinnersEnd ==
  /\ "saving" \in runner.busy => pending["save"] > 0
  /\ "checking" \in runner.busy => pending["check"] > 0
  /\ "picking" \in runner.busy => pending["pick"] > 0
  /\ "configuring" \in runner.busy => pending["configure"] > 0
  /\ "validating" \in runner.busy => pending["validate"] > 0
  /\ "executing" \in runner.busy => pending["run"] > 0 \/ pending["reveal"] > 0

RunAwaited == On("execution") => pending["run"] > 0 \/ pending["reveal"] > 0

ResultKnown == runner.step = "result" => runner.result # "none"

(* What follows the review of the permissions, after or on its way, comes  *)
(* of this opening: while the dialog is closed nothing is under way, and   *)
(* what is past the review was cleared.                                    *)
PastReview ==
  \/ runner.step \in {"user_type", "api_config", "validation", "execution"}
  \/ pending["advance"] > 0 \/ pending["pick"] > 0 \/ pending["configure"] > 0

Reviewed == ~crossed => /\ ~open => \A k \in Kinds : pending[k] = 0
                        /\ PastReview => cleared

RunnerInv ==
  /\ RunnerTypeOK
  /\ InitAwaited /\ SpinnersEnd /\ RunAwaited /\ ResultKnown /\ Reviewed

(* What a start and an end do to the number of each kind under way.        *)
LEMMA Started ==
  ASSUME pending \in [Kinds -> Nat], NEW k \in Kinds, Start(k)
  PROVE  /\ pending' \in [Kinds -> Nat]
         /\ pending'[k] = pending[k] + 1
         /\ \A l \in Kinds \ {k} : pending'[l] = pending[l]
  BY DEF Start

LEMMA Finished ==
  ASSUME pending \in [Kinds -> Nat], NEW k \in Kinds, Finish(k)
  PROVE  /\ pending' \in [Kinds -> Nat]
         /\ pending[k] > 0 /\ pending'[k] = pending[k] - 1
         /\ \A l \in Kinds \ {k} : pending'[l] = pending[l]
  BY DEF Finish

LEMMA Followed ==
  ASSUME pending \in [Kinds -> Nat], NEW k \in Kinds, NEW l \in Kinds, k # l, Follow(k, l)
  PROVE  /\ pending' \in [Kinds -> Nat]
         /\ pending[k] > 0 /\ pending'[k] = pending[k] - 1 /\ pending'[l] = pending[l] + 1
         /\ \A m \in Kinds \ {k, l} : pending'[m] = pending[m]
  BY DEF Follow

(* What is after when a spinner starts, when one stops, and otherwise.     *)
LEMMA ShownBusy ==
  ASSUME runner \in RunnerType, NEW step \in Steps, NEW flag \in Flags
  PROVE  /\ Show(step, {flag}, {}) \in RunnerType
         /\ Show(step, {flag}, {}).step = step
         /\ Show(step, {flag}, {}).busy = runner.busy \cup {flag}
         /\ Show(step, {flag}, {}).failed = runner.failed
         /\ Show(step, {flag}, {}).result = runner.result
  BY DEF Show, RunnerType

LEMMA ShownIdle ==
  ASSUME runner \in RunnerType, NEW step \in Steps, NEW flag \in Flags
  PROVE  /\ Show(step, {}, {flag}) \in RunnerType
         /\ Show(step, {}, {flag}).step = step
         /\ Show(step, {}, {flag}).busy = runner.busy \ {flag}
         /\ Show(step, {}, {flag}).failed = runner.failed
         /\ Show(step, {}, {flag}).result = runner.result
  BY DEF Show, RunnerType

LEMMA ShownNext ==
  ASSUME runner \in RunnerType
  PROVE  LET after == Show("validation", {"validating"}, {"configuring"})
         IN /\ after \in RunnerType /\ after.step = "validation"
            /\ after.busy = (runner.busy \cup {"validating"}) \ {"configuring"}
  BY DEF Show, RunnerType, Steps, Flags

LEMMA ShownStep ==
  ASSUME runner \in RunnerType, NEW step \in Steps
  PROVE  /\ Show(step, {}, {}) \in RunnerType
         /\ Show(step, {}, {}).step = step
         /\ Show(step, {}, {}).busy = runner.busy
         /\ Show(step, {}, {}).failed = runner.failed
         /\ Show(step, {}, {}).result = runner.result
  BY DEF Show, RunnerType

(* The invariant's parts speak of every spinner of the property.           *)
LEMMA InvImplies == RunnerInv => RunnerProceeds
<1> SUFFICES ASSUME RunnerInv PROVE RunnerProceeds
  OBVIOUS
<1>1. runner.busy \subseteq Flags
  BY DEF RunnerInv, RunnerTypeOK
<1>2. \A flag \in runner.busy : Awaited(Enders[flag])
  <2> SUFFICES ASSUME NEW flag \in runner.busy PROVE Awaited(Enders[flag])
    OBVIOUS
  <2>1. CASE flag = "saving"
    BY <2>1 DEF RunnerInv, SpinnersEnd, Awaited, Enders
  <2>2. CASE flag = "checking"
    BY <2>2 DEF RunnerInv, SpinnersEnd, Awaited, Enders
  <2>3. CASE flag = "picking"
    BY <2>3 DEF RunnerInv, SpinnersEnd, Awaited, Enders
  <2>4. CASE flag = "configuring"
    BY <2>4 DEF RunnerInv, SpinnersEnd, Awaited, Enders
  <2>5. CASE flag = "validating"
    BY <2>5 DEF RunnerInv, SpinnersEnd, Awaited, Enders
  <2>6. CASE flag = "executing"
    BY <2>6 DEF RunnerInv, SpinnersEnd, Awaited, Enders
  <2> QED
    BY <1>1, <2>1, <2>2, <2>3, <2>4, <2>5, <2>6 DEF Flags
<1> QED
  BY <1>2 DEF RunnerInv, RunnerProceeds, InitAwaited, RunAwaited, ResultKnown, Reviewed,
              PastReview, On, Awaited

LEMMA RunnerInitOK == RunnerInit => RunnerInv
<1> SUFFICES ASSUME RunnerInit PROVE RunnerInv
  OBVIOUS
<1>1. Initial \in RunnerType /\ Initial.step = "init" /\ Initial.busy = {}
  BY DEF Initial, RunnerType, Steps, Flags
<1>2. /\ open = FALSE /\ runner = Initial /\ cleared = FALSE /\ crossed = FALSE /\ clicks = 0
      /\ pending \in [Kinds -> Nat] /\ \A k \in Kinds : pending[k] = 0
  BY DEF RunnerInit
<1>3. RunnerTypeOK
  <2>1. open \in BOOLEAN /\ cleared \in BOOLEAN /\ crossed \in BOOLEAN
    BY <1>2
  <2>2. runner \in RunnerType /\ pending \in [Kinds -> Nat] /\ clicks \in 0 .. MaxClicks
    BY <1>1, <1>2
  <2> QED
    BY <2>1, <2>2 DEF RunnerTypeOK, RunnerType
<1>4. InitAwaited /\ SpinnersEnd /\ RunAwaited /\ ResultKnown
  BY <1>1, <1>2 DEF InitAwaited, SpinnersEnd, RunAwaited, ResultKnown, On
<1>5. Reviewed
  BY <1>1, <1>2 DEF Reviewed, PastReview, Kinds
<1> QED
  BY <1>3, <1>4, <1>5 DEF RunnerInv

(* Every step keeps the invariant.                                         *)
LEMMA RunnerStep == RunnerInv /\ [RunnerNext]_runnerVars => RunnerInv'
<1> SUFFICES ASSUME RunnerInv, [RunnerNext]_runnerVars PROVE RunnerInv'
  OBVIOUS
<1> USE DEF RunnerInv, RunnerTypeOK, InitAwaited, SpinnersEnd, RunAwaited, ResultKnown,
            Reviewed, PastReview, On
<1>1. runner \in RunnerType /\ pending \in [Kinds -> Nat]
  BY DEF RunnerType
<1>0. Steps = {"init", "permissions", "permission_review", "user_type", "api_config",
               "validation", "execution", "result"}
      /\ Flags = {"saving", "checking", "picking", "configuring", "validating", "executing"}
  BY DEF Steps, Flags
<1>2. CASE Open
  <2>1. Initialising \in RunnerType /\ Initialising.step = "init"
        /\ Initialising.busy = runner.busy
    BY <1>1 DEF Initialising, RunnerType, Steps
  <2>2. /\ runner' = Initialising /\ open' = TRUE /\ cleared' = FALSE /\ crossed' = crossed
        /\ clicks' \in 0 .. MaxClicks /\ ~open /\ Start("init")
    BY <1>2 DEF Open, Click
  <2>3. /\ pending' \in [Kinds -> Nat] /\ pending'["init"] = pending["init"] + 1
        /\ \A l \in Kinds \ {"init"} : pending'[l] = pending[l]
    BY <1>1, <2>2, Started DEF Kinds
  <2>4. pending["init"] \in Nat
    BY <1>1 DEF Kinds
  <2>5. RunnerTypeOK'
    BY <2>1, <2>2, <2>3 DEF RunnerType
  <2>6. InitAwaited' /\ RunAwaited' /\ ResultKnown'
    BY <2>1, <2>2, <2>3, <2>4
  <2>7. SpinnersEnd'
    BY <2>1, <2>2, <2>3 DEF Kinds
  <2>8. Reviewed'
    BY <2>1, <2>2, <2>3 DEF Kinds
  <2> QED
    BY <2>5, <2>6, <2>7, <2>8
<1>3. CASE Reset
  <2>1. Initial \in RunnerType /\ Initial.step = "init" /\ Initial.busy = {}
    BY DEF Initial, RunnerType, Steps, Flags
  <2>2. /\ runner' = Initial /\ open' = FALSE /\ pending' = pending /\ cleared' = cleared
        /\ crossed' = (crossed \/ \E k \in Kinds : pending[k] > 0)
        /\ clicks' \in 0 .. MaxClicks
    BY <1>3 DEF Reset, Click
  <2>3. RunnerTypeOK'
    <3>1. crossed' \in BOOLEAN /\ open' \in BOOLEAN
      BY <2>2
    <3> QED
      BY <2>1, <2>2, <3>1 DEF RunnerType
  <2>4. InitAwaited' /\ RunAwaited' /\ ResultKnown' /\ SpinnersEnd'
    BY <2>1, <2>2
  <2>5. ~crossed' => \A k \in Kinds : pending'[k] = 0
    BY <1>1, <2>2
  <2>6. Reviewed'
    BY <2>1, <2>2, <2>5 DEF Kinds
  <2> QED
    BY <2>3, <2>4, <2>6
<1>4. CASE Initialised
  <2>1. /\ Finish("init") /\ UNCHANGED <<open, crossed, clicks>>
    BY <1>4 DEF Initialised
  <2>2. /\ pending' \in [Kinds -> Nat] /\ pending["init"] > 0
        /\ \A l \in Kinds \ {"init"} : pending'[l] = pending[l]
    BY <1>1, <2>1, Finished DEF Kinds
  <2>3. \A l \in Kinds : pending'[l] > 0 => pending[l] > 0
    BY <1>1, <2>2
  <2>4. ASSUME NEW some \in BOOLEAN, NEW review \in {"ok", "blocked"},
               runner' = [runner EXCEPT !.step = IF some THEN "permissions" ELSE "user_type",
                                        !.failed = FALSE, !.review = review],
               cleared' = (cleared \/ ~some)
        PROVE  RunnerInv'
    <3>1. /\ runner' \in RunnerType /\ runner'.busy = runner.busy
          /\ runner'.step = IF some THEN "permissions" ELSE "user_type"
      BY <1>1, <2>4 DEF RunnerType, Steps
    <3>2. RunnerTypeOK'
      BY <2>1, <2>2, <2>4, <3>1 DEF RunnerType
    <3>3. InitAwaited' /\ RunAwaited' /\ ResultKnown'
      BY <3>1
    <3>4. SpinnersEnd'
      BY <2>2, <3>1 DEF Kinds
    <3>5. Reviewed'
      BY <2>1, <2>2, <2>4, <3>1 DEF Kinds
    <3> QED
      BY <3>2, <3>3, <3>4, <3>5
  <2>5. ASSUME runner' = [runner EXCEPT !.failed = TRUE], cleared' = cleared
        PROVE  RunnerInv'
    <3>1. /\ runner' \in RunnerType /\ runner'.busy = runner.busy /\ runner'.failed
          /\ runner'.step = runner.step /\ runner'.result = runner.result
      BY <1>1, <2>5 DEF RunnerType
    <3>2. RunnerTypeOK'
      BY <2>1, <2>2, <2>5, <3>1 DEF RunnerType
    <3>3. InitAwaited' /\ RunAwaited' /\ ResultKnown'
      BY <2>1, <2>2, <3>1 DEF Kinds
    <3>4. SpinnersEnd'
      BY <2>2, <3>1 DEF Kinds
    <3>5. Reviewed'
      BY <2>1, <2>2, <2>5, <3>1 DEF Kinds
    <3> QED
      BY <3>2, <3>3, <3>4, <3>5
  <2> QED
    BY <1>4, <2>4, <2>5 DEF Initialised
<1>5. CASE SavePermissions
  <2>1. /\ open /\ runner.step = "permissions" /\ Start("save") /\ clicks' \in 0 .. MaxClicks
        /\ runner' = Show("permissions", {"saving"}, {}) /\ UNCHANGED <<open, cleared, crossed>>
    BY <1>5 DEF SavePermissions, Click
  <2>2. /\ pending' \in [Kinds -> Nat] /\ pending'["save"] = pending["save"] + 1
        /\ pending["save"] \in Nat
        /\ \A l \in Kinds \ {"save"} : pending'[l] = pending[l]
    BY <1>1, <2>1, Started DEF Kinds
  <2>3. /\ runner' \in RunnerType /\ runner'.step = "permissions"
        /\ runner'.busy = runner.busy \cup {"saving"}
        /\ runner'.failed = runner.failed /\ runner'.result = runner.result
    BY <1>0, <1>1, <2>1, ShownBusy
  <2>4. RunnerTypeOK'
    BY <2>1, <2>2, <2>3 DEF RunnerType
  <2>5. InitAwaited' /\ RunAwaited' /\ ResultKnown' /\ SpinnersEnd'
    BY <2>1, <2>2, <2>3 DEF Kinds
  <2>6. Reviewed'
    BY <2>1, <2>2, <2>3 DEF Kinds
  <2> QED
    BY <2>4, <2>5, <2>6
<1>6. CASE PermissionsSaved
  <2>1. PICK ok \in BOOLEAN :
          runner' = Show(IF ok THEN "permission_review" ELSE runner.step, {}, {"saving"})
    BY <1>6 DEF PermissionsSaved
  <2>2. Finish("save") /\ UNCHANGED <<open, cleared, crossed, clicks>>
    BY <1>6 DEF PermissionsSaved
  <2>3. /\ pending' \in [Kinds -> Nat] /\ pending["save"] > 0
        /\ \A l \in Kinds \ {"save"} : pending'[l] = pending[l]
    BY <1>1, <2>2, Finished DEF Kinds
  <2>4. \/ runner' = Show("permission_review", {}, {"saving"})
        \/ runner' = Show(runner.step, {}, {"saving"})
    BY <2>1
  <2>5. /\ runner' \in RunnerType /\ runner'.busy = runner.busy \ {"saving"}
        /\ runner'.step \in {"permission_review", runner.step}
        /\ runner'.failed = runner.failed /\ runner'.result = runner.result
    <3>1. /\ "permission_review" \in Steps /\ runner.step \in Steps
          /\ "saving" \in Flags
      BY <1>0, <1>1 DEF RunnerType
    <3>2. CASE runner' = Show("permission_review", {}, {"saving"})
      BY <1>1, <3>1, <3>2, ShownIdle
    <3>3. CASE runner' = Show(runner.step, {}, {"saving"})
      BY <1>1, <3>1, <3>3, ShownIdle
    <3> QED
      BY <2>4, <3>2, <3>3
  <2>6. RunnerTypeOK'
    BY <2>2, <2>3, <2>5 DEF RunnerType
  <2>7. InitAwaited' /\ RunAwaited' /\ ResultKnown'
    BY <2>2, <2>3, <2>5 DEF Kinds
  <2>8. SpinnersEnd'
    BY <2>3, <2>5 DEF Kinds
  <2>9. Reviewed'
    BY <2>2, <2>3, <2>5 DEF Kinds
  <2> QED
    BY <2>6, <2>7, <2>8, <2>9
<1>7. CASE ConnectIntegration
  BY <1>1, <1>7, Started DEF ConnectIntegration, Kinds, Click
<1>8. CASE AuthUrl
  BY <1>1, <1>8, Finished, Followed DEF AuthUrl, Kinds
<1>9. CASE WindowClosed
  <2>1. /\ Initialising \in RunnerType /\ Initialising.step = "init"
        /\ Initialising.busy = runner.busy
    BY <1>1 DEF Initialising, RunnerType, Steps
  <2>2. /\ Follow("popup", "init") /\ runner' = Initialising
        /\ UNCHANGED <<open, cleared, crossed, clicks>>
    BY <1>9 DEF WindowClosed
  <2>3. /\ pending' \in [Kinds -> Nat] /\ pending["popup"] > 0
        /\ pending'["init"] = pending["init"] + 1
        /\ \A l \in Kinds \ {"popup", "init"} : pending'[l] = pending[l]
    BY <1>1, <2>2, Followed DEF Kinds
  <2>4. pending["init"] \in Nat
    BY <1>1 DEF Kinds
  <2>5. RunnerTypeOK'
    BY <2>1, <2>2, <2>3 DEF RunnerType
  <2>6. InitAwaited' /\ RunAwaited' /\ ResultKnown'
    BY <2>1, <2>2, <2>3, <2>4
  <2>7. SpinnersEnd'
    BY <2>1, <2>2, <2>3 DEF Kinds
  <2>8. Reviewed'
    BY <2>1, <2>2, <2>3 DEF Kinds
  <2> QED
    BY <2>5, <2>6, <2>7, <2>8
<1>10. CASE ConfirmPermissions
  <2>1. /\ open /\ runner.step = "permission_review" /\ Start("check") /\ clicks' \in 0 .. MaxClicks
        /\ runner' = Show("permission_review", {"checking"}, {}) /\ UNCHANGED <<open, cleared, crossed>>
    BY <1>10 DEF ConfirmPermissions, Click
  <2>2. /\ pending' \in [Kinds -> Nat] /\ pending'["check"] = pending["check"] + 1
        /\ pending["check"] \in Nat
        /\ \A l \in Kinds \ {"check"} : pending'[l] = pending[l]
    BY <1>1, <2>1, Started DEF Kinds
  <2>3. /\ runner' \in RunnerType /\ runner'.step = "permission_review"
        /\ runner'.busy = runner.busy \cup {"checking"}
        /\ runner'.failed = runner.failed /\ runner'.result = runner.result
    BY <1>0, <1>1, <2>1, ShownBusy
  <2>4. RunnerTypeOK'
    BY <2>1, <2>2, <2>3 DEF RunnerType
  <2>5. InitAwaited' /\ RunAwaited' /\ ResultKnown' /\ SpinnersEnd'
    BY <2>1, <2>2, <2>3 DEF Kinds
  <2>6. Reviewed'
    BY <2>1, <2>2, <2>3 DEF Kinds
  <2> QED
    BY <2>4, <2>5, <2>6
<1>11. CASE PermissionsChecked
  <2>1. PICK ok \in BOOLEAN :
          /\ IF ok THEN Follow("check", "advance") ELSE Finish("check")
          /\ runner' = [Show(runner.step, {}, {"checking"}) EXCEPT
                          !.review = IF ok THEN "ok" ELSE "blocked"]
          /\ cleared' = (cleared \/ ok)
    BY <1>11 DEF PermissionsChecked, Passes
  <2>2. UNCHANGED <<open, crossed, clicks>>
    BY <1>11 DEF PermissionsChecked
  <2>3. /\ pending' \in [Kinds -> Nat] /\ pending["check"] > 0
        /\ ~ok => pending'["advance"] = pending["advance"]
        /\ \A l \in Kinds \ {"check", "advance"} : pending'[l] = pending[l]
    BY <1>1, <2>1, Finished, Followed DEF Kinds
  <2> DEFINE after == Show(runner.step, {}, {"checking"})
  <2>5. /\ after \in RunnerType /\ after.busy = runner.busy \ {"checking"}
        /\ after.step = runner.step /\ after.failed = runner.failed
        /\ after.result = runner.result
    <3>1. runner.step \in Steps /\ "checking" \in Flags
      BY <1>0, <1>1 DEF RunnerType
    <3> QED
      BY <1>1, <3>1, ShownIdle
  <2> HIDE DEF after
  <2>6. /\ runner' \in RunnerType /\ runner'.busy = runner.busy \ {"checking"}
        /\ runner'.step = runner.step /\ runner'.failed = runner.failed
        /\ runner'.result = runner.result
    BY <2>1, <2>5 DEF RunnerType, after
  <2>7. RunnerTypeOK'
    BY <2>1, <2>2, <2>3, <2>6 DEF RunnerType
  <2>8. InitAwaited' /\ RunAwaited' /\ ResultKnown'
    BY <2>2, <2>3, <2>6 DEF Kinds
  <2>9. SpinnersEnd'
    BY <2>3, <2>6 DEF Kinds
  <2>10. Reviewed'
    <3>1. ~crossed /\ ~open => FALSE
      BY <1>1, <2>3 DEF Kinds
    <3>2. ~crossed' /\ PastReview' => cleared'
      <4>1. CASE ok
        BY <2>1, <4>1
      <4>2. CASE ~ok
        BY <2>1, <2>2, <2>3, <2>6, <4>2 DEF Kinds
      <4> QED
        BY <4>1, <4>2
    <3> QED
      BY <2>2, <3>1, <3>2
  <2> QED
    BY <2>7, <2>8, <2>9, <2>10
<1>12. CASE Advance
  <2>1. /\ Finish("advance") /\ UNCHANGED <<open, cleared, crossed, clicks>>
        /\ runner' = Show("user_type", {}, {})
    BY <1>12 DEF Advance
  <2>2. /\ pending' \in [Kinds -> Nat] /\ pending["advance"] > 0
        /\ \A l \in Kinds \ {"advance"} : pending'[l] = pending[l]
    BY <1>1, <2>1, Finished DEF Kinds
  <2>3. /\ runner' \in RunnerType /\ runner'.step = "user_type" /\ runner'.busy = runner.busy
    BY <1>0, <1>1, <2>1, ShownStep
  <2>4. RunnerTypeOK'
    BY <2>1, <2>2, <2>3 DEF RunnerType
  <2>5. InitAwaited' /\ RunAwaited' /\ ResultKnown' /\ SpinnersEnd'
    BY <2>1, <2>2, <2>3 DEF Kinds
  <2>6. Reviewed'
    BY <2>1, <2>2, <2>3 DEF Kinds
  <2> QED
    BY <2>4, <2>5, <2>6
<1>13. CASE SelectUserType
  <2>1. /\ open /\ runner.step = "user_type" /\ Start("pick") /\ clicks' \in 0 .. MaxClicks
        /\ runner' = Show("user_type", {"picking"}, {}) /\ UNCHANGED <<open, cleared, crossed>>
    BY <1>13 DEF SelectUserType, Click
  <2>2. /\ pending' \in [Kinds -> Nat] /\ pending'["pick"] = pending["pick"] + 1
        /\ pending["pick"] \in Nat
        /\ \A l \in Kinds \ {"pick"} : pending'[l] = pending[l]
    BY <1>1, <2>1, Started DEF Kinds
  <2>3. /\ runner' \in RunnerType /\ runner'.step = "user_type"
        /\ runner'.busy = runner.busy \cup {"picking"}
        /\ runner'.failed = runner.failed /\ runner'.result = runner.result
    BY <1>0, <1>1, <2>1, ShownBusy
  <2>4. RunnerTypeOK'
    BY <2>1, <2>2, <2>3 DEF RunnerType
  <2>5. InitAwaited' /\ RunAwaited' /\ ResultKnown' /\ SpinnersEnd'
    BY <2>1, <2>2, <2>3 DEF Kinds
  <2>6. Reviewed'
    BY <2>1, <2>2, <2>3 DEF Kinds
  <2> QED
    BY <2>4, <2>5, <2>6
<1>14. CASE UserTypeSelected
  <2>1. /\ Finish("pick") /\ UNCHANGED <<open, cleared, crossed, clicks>>
        /\ runner' = Show("api_config", {}, {"picking"})
    BY <1>14 DEF UserTypeSelected
  <2>2. /\ pending' \in [Kinds -> Nat] /\ pending["pick"] > 0
        /\ \A l \in Kinds \ {"pick"} : pending'[l] = pending[l]
    BY <1>1, <2>1, Finished DEF Kinds
  <2>3. /\ runner' \in RunnerType /\ runner'.step = "api_config" /\ runner'.busy = runner.busy \ {"picking"}
    BY <1>0, <1>1, <2>1, ShownIdle
  <2>4. RunnerTypeOK'
    BY <2>1, <2>2, <2>3 DEF RunnerType
  <2>5. InitAwaited' /\ RunAwaited' /\ ResultKnown' /\ SpinnersEnd'
    BY <2>1, <2>2, <2>3 DEF Kinds
  <2>6. Reviewed'
    BY <2>1, <2>2, <2>3 DEF Kinds
  <2> QED
    BY <2>4, <2>5, <2>6
<1>15. CASE SubmitApiConfig
  <2>1. /\ open /\ runner.step = "api_config" /\ Start("configure") /\ clicks' \in 0 .. MaxClicks
        /\ runner' = Show("api_config", {"configuring"}, {}) /\ UNCHANGED <<open, cleared, crossed>>
    BY <1>15 DEF SubmitApiConfig, Click
  <2>2. /\ pending' \in [Kinds -> Nat] /\ pending'["configure"] = pending["configure"] + 1
        /\ pending["configure"] \in Nat
        /\ \A l \in Kinds \ {"configure"} : pending'[l] = pending[l]
    BY <1>1, <2>1, Started DEF Kinds
  <2>3. /\ runner' \in RunnerType /\ runner'.step = "api_config"
        /\ runner'.busy = runner.busy \cup {"configuring"}
        /\ runner'.failed = runner.failed /\ runner'.result = runner.result
    BY <1>0, <1>1, <2>1, ShownBusy
  <2>4. RunnerTypeOK'
    BY <2>1, <2>2, <2>3 DEF RunnerType
  <2>5. InitAwaited' /\ RunAwaited' /\ ResultKnown' /\ SpinnersEnd'
    BY <2>1, <2>2, <2>3 DEF Kinds
  <2>6. Reviewed'
    BY <2>1, <2>2, <2>3 DEF Kinds
  <2> QED
    BY <2>4, <2>5, <2>6
<1>16. CASE Configured
  <2>1. UNCHANGED <<open, cleared, crossed, clicks>>
    BY <1>16 DEF Configured
  <2>2. CASE Finish("configure") /\ runner' = Show(runner.step, {}, {"configuring"})
    <3>1. /\ pending' \in [Kinds -> Nat] /\ pending["configure"] > 0
          /\ \A l \in Kinds \ {"configure"} : pending'[l] = pending[l]
      BY <1>1, <2>2, Finished DEF Kinds
    <3>2. /\ runner' \in RunnerType /\ runner'.busy = runner.busy \ {"configuring"}
          /\ runner'.step = runner.step /\ runner'.failed = runner.failed
          /\ runner'.result = runner.result
      <4>1. runner.step \in Steps /\ "configuring" \in Flags
        BY <1>0, <1>1 DEF RunnerType
      <4> QED
        BY <1>1, <2>2, <4>1, ShownIdle
    <3>3. RunnerTypeOK'
      BY <2>1, <3>1, <3>2 DEF RunnerType
    <3>4. InitAwaited' /\ RunAwaited' /\ ResultKnown' /\ SpinnersEnd'
      BY <2>1, <3>1, <3>2 DEF Kinds
    <3>5. Reviewed'
      BY <2>1, <3>1, <3>2 DEF Kinds
    <3> QED
      BY <3>3, <3>4, <3>5
  <2>3. CASE /\ Follow("configure", "validate")
             /\ runner' = Show("validation", {"validating"}, {"configuring"})
    <3>1. /\ pending' \in [Kinds -> Nat] /\ pending["configure"] > 0
          /\ pending'["validate"] = pending["validate"] + 1 /\ pending["validate"] \in Nat
          /\ \A l \in Kinds \ {"configure", "validate"} : pending'[l] = pending[l]
      BY <1>1, <2>3, Followed DEF Kinds
    <3>2. /\ runner' \in RunnerType /\ runner'.step = "validation"
          /\ runner'.busy = (runner.busy \cup {"validating"}) \ {"configuring"}
      BY <1>1, <2>3, ShownNext
    <3>3. RunnerTypeOK'
      BY <2>1, <3>1, <3>2 DEF RunnerType
    <3>4. InitAwaited' /\ RunAwaited' /\ ResultKnown' /\ SpinnersEnd'
      BY <2>1, <3>1, <3>2 DEF Kinds
    <3>5. Reviewed'
      BY <2>1, <3>1, <3>2 DEF Kinds
    <3> QED
      BY <3>3, <3>4, <3>5
  <2> QED
    BY <1>16, <2>2, <2>3 DEF Configured
<1>17. CASE Validated
  <2>1. /\ Finish("validate") /\ UNCHANGED <<open, cleared, crossed, clicks>>
        /\ runner' = [Show(runner.step, {}, {"validating"}) EXCEPT !.checked = TRUE]
    BY <1>17 DEF Validated
  <2>2. /\ pending' \in [Kinds -> Nat] /\ pending["validate"] > 0
        /\ \A l \in Kinds \ {"validate"} : pending'[l] = pending[l]
    BY <1>1, <2>1, Finished DEF Kinds
  <2> DEFINE after == Show(runner.step, {}, {"validating"})
  <2>3. /\ after \in RunnerType /\ after.busy = runner.busy \ {"validating"}
        /\ after.step = runner.step /\ after.failed = runner.failed
        /\ after.result = runner.result
    <3>1. runner.step \in Steps /\ "validating" \in Flags
      BY <1>0, <1>1 DEF RunnerType
    <3> QED
      BY <1>1, <3>1, ShownIdle
  <2> HIDE DEF after
  <2>4. /\ runner' \in RunnerType /\ runner'.busy = runner.busy \ {"validating"}
        /\ runner'.step = runner.step /\ runner'.failed = runner.failed
        /\ runner'.result = runner.result
    BY <2>1, <2>3 DEF RunnerType, after
  <2>5. RunnerTypeOK'
    BY <2>1, <2>2, <2>4 DEF RunnerType
  <2>6. InitAwaited' /\ RunAwaited' /\ ResultKnown' /\ SpinnersEnd'
    BY <2>1, <2>2, <2>4 DEF Kinds
  <2>7. Reviewed'
    BY <2>1, <2>2, <2>4 DEF Kinds
  <2> QED
    BY <2>5, <2>6, <2>7
<1>18. CASE ProceedToExecution
  <2>1. /\ runner.step = "validation" /\ Start("run") /\ clicks' \in 0 .. MaxClicks
        /\ runner' = Show("execution", {"executing"}, {}) /\ UNCHANGED <<open, cleared, crossed>>
        /\ open
    BY <1>18 DEF ProceedToExecution, Click
  <2>2. /\ pending' \in [Kinds -> Nat] /\ pending'["run"] = pending["run"] + 1
        /\ pending["run"] \in Nat
        /\ \A l \in Kinds \ {"run"} : pending'[l] = pending[l]
    BY <1>1, <2>1, Started DEF Kinds
  <2>3. /\ runner' \in RunnerType /\ runner'.step = "execution"
        /\ runner'.busy = runner.busy \cup {"executing"}
    BY <1>0, <1>1, <2>1, ShownBusy
  <2>4. RunnerTypeOK'
    BY <2>1, <2>2, <2>3 DEF RunnerType
  <2>5. InitAwaited' /\ RunAwaited' /\ ResultKnown' /\ SpinnersEnd'
    BY <2>1, <2>2, <2>3 DEF Kinds
  <2>6. Reviewed'
    BY <2>1, <2>2, <2>3 DEF Kinds
  <2> QED
    BY <2>4, <2>5, <2>6
<1>19. CASE Executed
  <2>1. UNCHANGED <<open, cleared, crossed, clicks>>
    BY <1>19 DEF Executed
  <2>2. CASE Follow("run", "reveal") /\ UNCHANGED runner
    <3>1. /\ pending' \in [Kinds -> Nat] /\ pending["run"] > 0
          /\ pending'["reveal"] = pending["reveal"] + 1 /\ pending["reveal"] \in Nat
          /\ \A l \in Kinds \ {"run", "reveal"} : pending'[l] = pending[l]
      BY <1>1, <2>2, Followed DEF Kinds
    <3>2. RunnerTypeOK'
      BY <2>1, <2>2, <3>1
    <3>3. InitAwaited' /\ RunAwaited' /\ ResultKnown' /\ SpinnersEnd'
      BY <2>1, <2>2, <3>1 DEF Kinds
    <3>4. Reviewed'
      BY <2>1, <2>2, <3>1 DEF Kinds
    <3> QED
      BY <3>2, <3>3, <3>4
  <2>3. ASSUME Finish("run") \/ Finish("reveal"), NEW result \in {"success", "failed"},
               runner' = [Show("result", {}, {"executing"}) EXCEPT !.result = result]
        PROVE  RunnerInv'
    <3>1. /\ pending' \in [Kinds -> Nat]
          /\ pending["run"] > 0 \/ pending["reveal"] > 0
          /\ \A l \in Kinds \ {"run", "reveal"} : pending'[l] = pending[l]
      BY <1>1, <2>3, Finished DEF Kinds
    <3> DEFINE after == Show("result", {}, {"executing"})
    <3>2. /\ after \in RunnerType /\ after.busy = runner.busy \ {"executing"}
          /\ after.step = "result"
      BY <1>0, <1>1, ShownIdle
    <3> HIDE DEF after
    <3>3. /\ runner' \in RunnerType /\ runner'.busy = runner.busy \ {"executing"}
          /\ runner'.step = "result" /\ runner'.result = result
      BY <2>3, <3>2 DEF RunnerType, after
    <3>4. RunnerTypeOK'
      BY <2>1, <3>1, <3>3 DEF RunnerType
    <3>5. InitAwaited' /\ RunAwaited' /\ ResultKnown' /\ SpinnersEnd'
      BY <2>1, <3>1, <3>3 DEF Kinds
    <3>6. Reviewed'
      <4>1. ~crossed => open
        BY <1>1, <3>1 DEF Kinds
      <4> QED
        BY <2>1, <3>1, <3>3, <4>1 DEF Kinds
    <3> QED
      BY <3>4, <3>5, <3>6
  <2> QED
    BY <1>19, <2>2, <2>3 DEF Executed
<1>20. CASE Retry
  <2>1. /\ open /\ UNCHANGED <<open, pending, cleared, crossed>> /\ clicks' \in 0 .. MaxClicks
        /\ runner' = [Show("permissions", {}, {"executing"}) EXCEPT !.checked = FALSE,
                                                                    !.result = "none"]
    BY <1>20 DEF Retry, Click
  <2> DEFINE after == Show("permissions", {}, {"executing"})
  <2>2. /\ after \in RunnerType /\ after.busy = runner.busy \ {"executing"}
        /\ after.step = "permissions"
    BY <1>0, <1>1, ShownIdle
  <2> HIDE DEF after
  <2>3. /\ runner' \in RunnerType /\ runner'.busy = runner.busy \ {"executing"}
        /\ runner'.step = "permissions"
    BY <2>1, <2>2 DEF RunnerType, after
  <2>4. RunnerTypeOK'
    BY <1>1, <2>1, <2>3 DEF RunnerType
  <2>5. InitAwaited' /\ RunAwaited' /\ ResultKnown' /\ SpinnersEnd'
    BY <2>1, <2>3
  <2>6. Reviewed'
    BY <2>1, <2>3 DEF Kinds
  <2> QED
    BY <2>4, <2>5, <2>6
<1>21. CASE UNCHANGED runnerVars
  BY <1>21 DEF runnerVars
<1> QED
  BY <1>2, <1>3, <1>4, <1>5, <1>6, <1>7, <1>8, <1>9, <1>10, <1>11, <1>12, <1>13, <1>14, <1>15,
     <1>16, <1>17, <1>18, <1>19, <1>20, <1>21 DEF RunnerNext

(* RunnerProceeds for every number of clicks: no spinner is left behind    *)
(* and no run begins before its review, whatever crosses.                  *)
THEOREM RunnerAlwaysProceeds == RunnerSpec => []RunnerProceeds
  BY RunnerInitOK, RunnerStep, InvImplies, PTL DEF RunnerSpec

-----------------------------------------------------------------------------
(* The client: one refresh at a time, and whoever waits for it goes on.    *)

(* Exactly one request refreshes while the flag is set, none otherwise.    *)
Refreshing(r) == request[r].at = "refreshing"

OneRefresh ==
  /\ \A q, r \in ApiCalls : Refreshing(q) /\ Refreshing(r) => q = r
  /\ (\E r \in ApiCalls : Refreshing(r)) <=> isRefreshing
  /\ \A r \in ApiCalls : Refreshing(r) => request[r].first

ClientInv == ClientTypeOK /\ OneRefresh /\ SubscribersResume

RequestType == [at: Places, token: Nat, first: BOOLEAN]

(* The requests after a step, when one of them changes.                    *)
LEMMA OneChanges ==
  ASSUME request \in [ApiCalls -> RequestType], NEW r \in ApiCalls, NEW s \in RequestType,
         request' = [request EXCEPT ![r] = s]
  PROVE  /\ request' \in [ApiCalls -> RequestType]
         /\ \A q \in ApiCalls : request'[q] = IF q = r THEN s ELSE request[q]
  OBVIOUS

(* The first state is as it should be.                                     *)
LEMMA ClientInitOK == ClientInit => ClientInv
<1> SUFFICES ASSUME ClientInit PROVE ClientInv
  OBVIOUS
<1> USE DEF ClientInit
<1>1. NoRequest \in RequestType /\ NoRequest.at = "none"
  BY DEF NoRequest, RequestType, Places
<1>2. ClientTypeOK
  <2>1. request \in [ApiCalls -> RequestType]
    BY <1>1
  <2>2. stored = 1 /\ oldest = 1
    OBVIOUS
  <2>3. stored \in Nat /\ oldest \in 1 .. stored + 1
    BY <2>2
  <2>4. isRefreshing \in BOOLEAN /\ subscribers \subseteq ApiCalls
    BY Zenon
  <2>5. made \in 0 .. MaxRequests /\ expiries \in 0 .. MaxExpiries
    OBVIOUS
  <2> QED
    BY <2>1, <2>3, <2>4, <2>5 DEF ClientTypeOK, RequestType
<1>3. \A q \in ApiCalls : request[q].at = "none"
  BY <1>1
<1> QED
  BY <1>2, <1>3 DEF ClientInv, OneRefresh, SubscribersResume, Refreshing

(* A step of a request that is neither refreshing nor waiting, to a place  *)
(* that is neither, touches nothing of the refresh.                        *)
LEMMA Elsewhere ==
  ASSUME ClientInv, NEW r \in ApiCalls, NEW s \in RequestType,
         request[r].at \notin {"refreshing", "waiting"}, s.at \notin {"refreshing", "waiting"},
         request' = [request EXCEPT ![r] = s],
         UNCHANGED <<stored, oldest, isRefreshing, subscribers, expiries>>,
         made' \in 0 .. MaxRequests
  PROVE  ClientInv'
<1> USE DEF ClientInv, ClientTypeOK
<1>1. request \in [ApiCalls -> RequestType]
  BY DEF RequestType
<1>2. request' \in [ApiCalls -> RequestType]
      /\ \A q \in ApiCalls : request'[q] = IF q = r THEN s ELSE request[q]
  BY <1>1, OneChanges
<1>3. ClientTypeOK'
  BY <1>2 DEF RequestType
<1>4. \A q \in ApiCalls : (request'[q].at = "refreshing" <=> request[q].at = "refreshing")
                          /\ (request'[q].at \in {"refreshing", "waiting"} => request'[q] = request[q])
  BY <1>2
<1>5. OneRefresh'
  BY <1>4 DEF OneRefresh, Refreshing
<1>6. SubscribersResume'
  BY <1>4 DEF SubscribersResume
<1> QED
  BY <1>3, <1>5, <1>6

(* A 401: a second request never starts a refresh of its own.              *)
LEMMA DeniedKeeps == ASSUME ClientInv, NEW r \in ApiCalls, Denied(r) PROVE ClientInv'
<1> USE DEF ClientInv, ClientTypeOK
<1>1. request \in [ApiCalls -> RequestType]
  BY DEF RequestType
<1>2. CASE isRefreshing
  <2> DEFINE s == [request[r] EXCEPT !.at = "waiting"]
  <2>1. s \in RequestType /\ s.at = "waiting"
    BY <1>1 DEF RequestType, Places
  <2>2. request' = [request EXCEPT ![r] = s]
    BY <1>2 DEF Denied
  <2>3. request' \in [ApiCalls -> RequestType]
        /\ \A q \in ApiCalls : request'[q] = IF q = r THEN s ELSE request[q]
    BY <1>1, <2>1, <2>2, OneChanges
  <2>4. subscribers' = subscribers \cup {r}
        /\ UNCHANGED <<isRefreshing, stored, oldest, made, expiries>> /\ request[r].at = "denied"
    BY <1>2 DEF Denied
  <2> HIDE DEF s
  <2>5. ClientTypeOK'
    BY <2>3, <2>4 DEF RequestType
  <2>6. \A q \in ApiCalls : (Refreshing(q)' <=> Refreshing(q))
                            /\ (Refreshing(q)' => request'[q] = request[q])
    BY <2>1, <2>3, <2>4 DEF Refreshing
  <2>7. OneRefresh'
    BY <2>4, <2>6 DEF OneRefresh
  <2>8. SubscribersResume'
    BY <1>2, <2>1, <2>3, <2>4, <2>6 DEF SubscribersResume, OneRefresh, Refreshing
  <2> QED
    BY <2>5, <2>7, <2>8
<1>3. CASE ~isRefreshing
  <2> DEFINE s == [request[r] EXCEPT !.at = "refreshing", !.first = TRUE]
  <2>1. s \in RequestType /\ s.at = "refreshing" /\ s.first
    BY <1>1 DEF RequestType, Places
  <2>2. request' = [request EXCEPT ![r] = s]
    BY <1>1, <1>3 DEF Denied, RequestType
  <2>3. request' \in [ApiCalls -> RequestType]
        /\ \A q \in ApiCalls : request'[q] = IF q = r THEN s ELSE request[q]
    BY <1>1, <2>1, <2>2, OneChanges
  <2>4. isRefreshing' = TRUE /\ request[r].at = "denied"
        /\ UNCHANGED <<subscribers, stored, oldest, made, expiries>>
    BY <1>3 DEF Denied
  <2> HIDE DEF s
  <2>5. ClientTypeOK'
    BY <2>3, <2>4 DEF RequestType
  <2>6. \A q \in ApiCalls : Refreshing(q)' <=> q = r
    BY <1>3, <2>1, <2>3 DEF OneRefresh, Refreshing
  <2>7. OneRefresh'
    BY <2>1, <2>3, <2>4, <2>6 DEF OneRefresh
  <2>8. SubscribersResume'
    BY <2>1, <2>3, <2>4 DEF SubscribersResume
  <2> QED
    BY <2>5, <2>7, <2>8
<1> QED
  BY <1>2, <1>3

(* The new token has come: all who waited are sent again, and the request  *)
(* that fetched it is the only one left waiting.                           *)
LEMMA RefreshedKeeps == ASSUME ClientInv, NEW r \in ApiCalls, Refreshed(r) PROVE ClientInv'
<1> USE DEF ClientInv, ClientTypeOK
<1>1. request \in [ApiCalls -> RequestType]
  BY DEF RequestType
<1>2. /\ isRefreshing' = FALSE /\ stored' = stored + 1 /\ subscribers' = {r}
      /\ request[r].at = "refreshing" /\ UNCHANGED <<oldest, made, expiries>>
  BY DEF Refreshed, Released
<1>3. request' = [q \in ApiCalls |->
         IF q = r THEN [request[q] EXCEPT !.at = "waiting"]
         ELSE IF q \in subscribers THEN Sent(stored + 1) ELSE request[q]]
  BY DEF Refreshed
<1>4. ASSUME NEW q \in ApiCalls
      PROVE  /\ request'[q] \in RequestType
             /\ q = r => request'[q].at = "waiting" /\ request'[q].first = request[r].first
             /\ q # r /\ q \in subscribers => request'[q].at = "sent"
             /\ q # r /\ q \notin subscribers => request'[q] = request[q]
  <2>1. request[q] \in RequestType /\ Sent(stored + 1) \in RequestType
        /\ Sent(stored + 1).at = "sent"
    BY <1>1 DEF Sent, RequestType, Places
  <2>2. CASE q = r
    BY <1>3, <2>1, <2>2 DEF RequestType, Places
  <2>3. CASE q # r
    BY <1>3, <2>1, <2>3
  <2> QED
    BY <2>2, <2>3
<1>5. ClientTypeOK'
  <2>1. request' \in [ApiCalls -> RequestType]
    BY <1>3, <1>4
  <2>2. stored' \in Nat /\ oldest' \in 1 .. stored' + 1
    BY <1>2
  <2> QED
    BY <1>2, <2>1, <2>2 DEF RequestType
<1>6. \A q \in ApiCalls : ~Refreshing(q)'
  BY <1>2, <1>4 DEF OneRefresh, Refreshing
<1>7. OneRefresh'
  BY <1>2, <1>6 DEF OneRefresh
<1>8. SubscribersResume'
  <2> SUFFICES ASSUME NEW q \in ApiCalls, request'[q].at = "waiting"
               PROVE  q \in subscribers' /\ request'[q].first
    BY DEF SubscribersResume
  <2>1. q = r
    BY <1>4 DEF SubscribersResume
  <2>2. request[r].first
    BY <1>2 DEF OneRefresh, Refreshing
  <2> QED
    BY <1>2, <1>4, <2>1, <2>2
<1> QED
  BY <1>5, <1>7, <1>8

(* A session that is no longer valid leaves no request behind.             *)
LEMMA RefusedKeeps == ASSUME ClientInv, NEW r \in ApiCalls, RefreshRefused(r) PROVE ClientInv'
<1> USE DEF ClientInv, ClientTypeOK
<1>1. /\ request' = [q \in ApiCalls |-> NoRequest]
      /\ isRefreshing' = FALSE /\ subscribers' = {} /\ stored' = stored + 1
      /\ UNCHANGED <<oldest, made, expiries>>
  BY DEF RefreshRefused
<1>2. NoRequest \in RequestType /\ NoRequest.at = "none"
  BY DEF NoRequest, RequestType, Places
<1>3. ClientTypeOK'
  <2>1. stored' \in Nat /\ oldest' \in 1 .. stored' + 1
    BY <1>1
  <2> QED
    BY <1>1, <1>2, <2>1 DEF RequestType
<1>4. \A q \in ApiCalls : request'[q].at = "none"
  BY <1>1, <1>2
<1>5. OneRefresh' /\ SubscribersResume'
  BY <1>1, <1>4 DEF OneRefresh, SubscribersResume, Refreshing
<1> QED
  BY <1>3, <1>5

(* The steps that change no request, or one that is not part of a refresh. *)
LEMMA PlainKeeps ==
  ASSUME ClientInv, NEW r \in ApiCalls, Fetching(r) \/ Check(r) \/ Settle(r)
  PROVE  ClientInv'
<1> USE DEF ClientInv, ClientTypeOK
<1>1. request \in [ApiCalls -> RequestType]
  BY DEF RequestType
<1>2. CASE Fetching(r)
  <2>1. Sent(stored) \in RequestType /\ Sent(stored).at = "sent" /\ made' \in 0 .. MaxRequests
    BY <1>2 DEF Fetching, Sent, RequestType, Places
  <2>2. request[r].at = "none" /\ request' = [request EXCEPT ![r] = Sent(stored)]
        /\ UNCHANGED <<stored, oldest, isRefreshing, subscribers, expiries>>
    BY <1>2 DEF Fetching
  <2> QED
    BY <2>1, <2>2, Elsewhere
<1>3. CASE Check(r)
  <2> DEFINE s == [request[r] EXCEPT !.at = IF request[r].token >= oldest
                                            THEN "ok" ELSE "denied"]
  <2>1. s \in RequestType /\ s.at \notin {"refreshing", "waiting"}
    BY <1>1 DEF RequestType, Places
  <2>2. request[r].at = "sent" /\ request' = [request EXCEPT ![r] = s]
        /\ UNCHANGED <<stored, oldest, isRefreshing, subscribers, made, expiries>>
    BY <1>3 DEF Check
  <2> HIDE DEF s
  <2> QED
    BY <2>1, <2>2, Elsewhere
<1>4. CASE Settle(r)
  <2>1. NoRequest \in RequestType /\ NoRequest.at = "none"
    BY DEF NoRequest, RequestType, Places
  <2>2. request[r].at = "ok" /\ request' = [request EXCEPT ![r] = NoRequest]
        /\ UNCHANGED <<stored, oldest, isRefreshing, subscribers, made, expiries>>
    BY <1>4 DEF Settle
  <2> QED
    BY <2>1, <2>2, Elsewhere
<1> QED
  BY <1>2, <1>3, <1>4

(* Every step keeps the invariant.                                         *)
LEMMA ClientStep == ClientInv /\ [ClientNext]_clientVars => ClientInv'
<1> SUFFICES ASSUME ClientInv, [ClientNext]_clientVars PROVE ClientInv'
  OBVIOUS
<1>1. CASE Expire
  <2>1. UNCHANGED <<request, isRefreshing, subscribers>>
    BY <1>1 DEF Expire
  <2>2. ClientTypeOK'
    BY <1>1 DEF Expire, ClientInv, ClientTypeOK
  <2> QED
    BY <2>1, <2>2 DEF ClientInv, OneRefresh, SubscribersResume, Refreshing
<1>2. ASSUME NEW r \in ApiCalls, Fetching(r) \/ Progress(r) PROVE ClientInv'
  BY <1>2, PlainKeeps, DeniedKeeps, RefreshedKeeps, RefusedKeeps DEF Progress
<1>3. CASE UNCHANGED clientVars
  BY <1>3 DEF ClientInv, ClientTypeOK, OneRefresh, SubscribersResume, Refreshing, clientVars
<1> QED
  BY <1>1, <1>2, <1>3 DEF ClientNext

(* At most one refresh is under way, and the flag isRefreshing says so.    *)
THEOREM OneRefreshAtATime == ClientSpec => []OneRefresh
<1>1. ClientInv => OneRefresh
  BY DEF ClientInv
<1> QED
  BY <1>1, ClientInitOK, ClientStep, PTL DEF ClientSpec

(* SubscribersResume for every number of requests and expiries.            *)
THEOREM WaitersResume == ClientSpec => []SubscribersResume
<1>1. ClientInv => SubscribersResume
  BY DEF ClientInv
<1> QED
  BY <1>1, ClientInitOK, ClientStep, PTL DEF ClientSpec

-----------------------------------------------------------------------------
(* The collaboration page.                                                 *)

(* The invariant.  A run keeps a copy of a workflow that has ended as many *)
(* runs as it has; there is one run at most, while isRunning.              *)
RunsKeepCopies ==
  /\ isRunning <=> underway # {}
  /\ \A q, r \in underway : q = r
  /\ \A r \in underway : r.copy.made /\ (flows[r.of].made => r.copy.runs = ended[r.of])

(* An id that was never given has no history, and no run.                  *)
UnusedIsNew ==
  \A w \in Canvases \ issued :
    /\ ~flows[w].made /\ ended[w] = 0 /\ placed[w] = {} /\ drawn[w] = {} /\ w \notin takenBack
    /\ \A r \in underway : r.of # w

(* An edge is drawn from a node that was put on the workflow that is shown. *)
DrawnFromANode ==
  drawing # Nothing => shown # Nothing /\ (shown \notin takenBack => drawing \in placed[shown])

(* What a workflow has to show unless the end of a run has undone an edit: *)
(* a deleted node stays, the edges of its own go.                          *)
Kept(nodes, edges, put, drew, gone) ==
  /\ nodes = put /\ edges \subseteq nodes \X nodes /\ edges \subseteq drew
  /\ \A e \in drew : e[1] \notin gone /\ e[2] \notin gone => e \in edges

(* What the list shows of one workflow.                                    *)
Agrees(w) ==
  /\ flows[w].running => \E r \in underway : r.of = w
  /\ flows[w].runs = ended[w]
  /\ w \notin takenBack => Kept(flows[w].nodes, flows[w].edges, placed[w], drawn[w], deleted[w])

CanvasInv ==
  /\ CanvasTypeOK /\ RunsKeepCopies /\ UnusedIsNew /\ DrawnFromANode
  /\ \A w \in Made : Agrees(w)

USE DEF edits

LEMMA NoFlowIsFlow ==
  /\ NoFlow \in FlowRecord
  /\ ~NoFlow.made /\ ~NoFlow.running /\ NoFlow.runs = 0 /\ NoFlow.nodes = {} /\ NoFlow.edges = {}
  BY DEF NoFlow, FlowRecord

LEMMA CanvasInitOK == CanvasInit => CanvasInv
<1> SUFFICES ASSUME CanvasInit PROVE CanvasInv
  OBVIOUS
<1> DEFINE mock == [NoFlow EXCEPT !.made = TRUE, !.nodes = {ItsNode}]
<1>1. mock \in FlowRecord /\ mock.made /\ ~mock.running /\ mock.runs = 0 /\ mock.nodes = {ItsNode}
      /\ mock.edges = {}
  BY DEF NoFlow, FlowRecord
<1>2. /\ flows = [w \in Canvases |-> IF w = TheFirst THEN mock ELSE NoFlow]
      /\ shown = TheFirst /\ issued = {TheFirst, ItsNode}
      /\ placed = [w \in Canvases |-> flows[w].nodes]
      /\ drawn = [w \in Canvases |-> {}] /\ deleted = [w \in Canvases |-> {}]
      /\ picked = Nothing /\ drawing = Nothing
      /\ isRunning = FALSE /\ underway = {}
      /\ ended = [w \in Canvases |-> 0] /\ takenBack = {}
  BY DEF CanvasInit
<1> HIDE DEF mock
<1>3. flows \in [Canvases -> FlowRecord] /\ Made = {TheFirst}
      /\ \A w \in Canvases : placed[w] = IF w = TheFirst THEN {ItsNode} ELSE {}
  BY <1>1, <1>2, NoFlowIsFlow DEF Made
<1>4. CanvasTypeOK
  <2>1. placed \in [Canvases -> SUBSET NodeIds]
    BY <1>2, <1>3
  <2> QED
    BY <1>2, <1>3, <2>1 DEF CanvasTypeOK
<1>5. RunsKeepCopies /\ DrawnFromANode /\ UnusedIsNew
  BY <1>2, <1>3, NoFlowIsFlow DEF RunsKeepCopies, DrawnFromANode, UnusedIsNew
<1>6. \A w \in Made : Agrees(w)
  BY <1>1, <1>2, <1>3 DEF Agrees, Kept
<1> QED
  BY <1>4, <1>5, <1>6 DEF CanvasInv

(* One workflow of the list is replaced.                                   *)
LEMMA OneReplaced ==
  ASSUME flows \in [Canvases -> FlowRecord], NEW w \in Canvases, NEW f \in FlowRecord,
         flows' = [flows EXCEPT ![w] = f]
  PROVE  /\ flows' \in [Canvases -> FlowRecord] /\ flows'[w] = f
         /\ \A v \in Canvases \ {w} : flows'[v] = flows[v] /\ (v \in Made' <=> v \in Made)
         /\ w \in Made' <=> f.made
         /\ Made' \subseteq Canvases
  BY DEF Made

(* The workflow that is shown gets other nodes or edges, while no run      *)
(* begins or ends.                                                         *)
LEMMA EditKeeps ==
  ASSUME CanvasInv, shown # Nothing, NEW f \in FlowRecord, flows' = [flows EXCEPT ![shown] = f],
         f.made, f.running = Rendered.running, f.runs = Rendered.runs,
         placed' \in [Canvases -> SUBSET NodeIds], deleted' \in [Canvases -> SUBSET NodeIds],
         drawn' \in [Canvases -> SUBSET (NodeIds \X NodeIds)],
         placed[shown] \subseteq placed'[shown],
         \A v \in Canvases \ {shown} :
           placed'[v] = placed[v] /\ drawn'[v] = drawn[v] /\ deleted'[v] = deleted[v],
         shown \notin takenBack => Kept(f.nodes, f.edges, placed'[shown], drawn'[shown], deleted'[shown]),
         issued \subseteq issued', issued' \subseteq Canvases \cup NodeIds,
         picked' \in NodeIds \cup {Nothing}, drawing' \in {drawing, Nothing},
         UNCHANGED <<shown, isRunning, underway, ended, takenBack>>
  PROVE  CanvasInv'
<1>1. shown \in Canvases /\ shown \in Made /\ flows \in [Canvases -> FlowRecord]
  BY DEF CanvasInv, CanvasTypeOK, Made
<1>2. /\ flows' \in [Canvases -> FlowRecord] /\ flows'[shown] = f
      /\ \A v \in Canvases \ {shown} : flows'[v] = flows[v] /\ (v \in Made' <=> v \in Made)
      /\ Made' = Made
  BY <1>1, OneReplaced DEF Made
<1>3. CanvasTypeOK'
  BY <1>2 DEF CanvasInv, CanvasTypeOK
<1>4. RunsKeepCopies'
  BY <1>1, <1>2 DEF CanvasInv, RunsKeepCopies, CanvasTypeOK, Made, FlowRecord
<1>5. UnusedIsNew'
  <2>1. shown \in issued
    BY <1>1 DEF CanvasInv, UnusedIsNew, Made
  <2> QED
    BY <1>2, <2>1 DEF CanvasInv, UnusedIsNew
<1>6. DrawnFromANode'
  BY DEF CanvasInv, DrawnFromANode
<1>7. ASSUME NEW w \in Made' PROVE Agrees(w)'
  <2>1. Agrees(w) /\ w \in Canvases
    BY <1>2, <1>7 DEF CanvasInv, Made
  <2>2. CASE w = shown
    BY <1>2, <2>1, <2>2 DEF Agrees, Rendered
  <2>3. CASE w # shown
    BY <1>2, <2>1, <2>3 DEF Agrees
  <2> QED
    BY <2>2, <2>3
<1> QED
  BY <1>3, <1>4, <1>5, <1>6, <1>7 DEF CanvasInv

(* The list stays as it is.                                                *)
LEMMA LookingKeeps ==
  ASSUME CanvasInv, UNCHANGED <<flows, isRunning, underway, issued, edits, ended, takenBack>>,
         shown' \in Made \cup {Nothing}, picked' \in NodeIds \cup {Nothing},
         \/ drawing' = Nothing
         \/ shown' = shown /\ shown # Nothing /\ drawing' \in Rendered.nodes
  PROVE  CanvasInv'
<1>1. Made' = Made
  BY DEF Made
<1>2. shown # Nothing => shown \in Made /\ shown \in Canvases /\ flows[shown] \in FlowRecord
                         /\ Agrees(shown)
  BY DEF CanvasInv, CanvasTypeOK, Made
<1>a. DrawnFromANode'
  BY <1>2 DEF CanvasInv, CanvasTypeOK, DrawnFromANode, Agrees, Rendered, Kept
<1>b. Rendered.nodes \subseteq NodeIds \/ shown = Nothing
  BY <1>2 DEF FlowRecord, Rendered
<1>3. CanvasTypeOK' /\ DrawnFromANode'
  BY <1>1, <1>2, <1>a, <1>b DEF CanvasInv, CanvasTypeOK
<1>4. RunsKeepCopies' /\ UnusedIsNew'
  BY DEF CanvasInv, RunsKeepCopies, UnusedIsNew
<1>5. \A w \in Made' : Agrees(w)'
  BY <1>1 DEF CanvasInv, Agrees
<1> QED
  BY <1>3, <1>4, <1>5 DEF CanvasInv

LEMMA BeginRunKeeps ==
  ASSUME CanvasInv, shown # Nothing, MayStart, BeginRun, shown' \in Made, drawing = Nothing,
         UNCHANGED <<picked, drawing, issued, edits, ended, takenBack>>
  PROVE  CanvasInv'
<1> DEFINE f   == [Rendered EXCEPT !.running = TRUE]
           run == [of |-> shown, copy |-> Rendered]
<1>1. /\ shown \in Canvases /\ shown \in Made /\ flows \in [Canvases -> FlowRecord]
      /\ Rendered \in FlowRecord /\ Rendered = flows[shown] /\ Agrees(shown) /\ Rendered.made
  BY DEF CanvasInv, CanvasTypeOK, Made, Rendered
<1>2. /\ f \in FlowRecord /\ f.made /\ f.running /\ f.runs = Rendered.runs
      /\ f.nodes = Rendered.nodes /\ f.edges = Rendered.edges
  BY <1>1 DEF FlowRecord
<1>3. underway = {} /\ underway' = {run} /\ isRunning' = TRUE /\ flows' = [flows EXCEPT ![shown] = f]
  BY DEF CanvasInv, RunsKeepCopies, MayStart, BeginRun
<1>4. run \in [of: Canvases, copy: FlowRecord] /\ run.of = shown /\ run.copy = Rendered
  BY <1>1
<1> HIDE DEF f, run
<1>5. /\ flows' \in [Canvases -> FlowRecord] /\ flows'[shown] = f
      /\ \A v \in Canvases \ {shown} : flows'[v] = flows[v] /\ (v \in Made' <=> v \in Made)
      /\ Made' = Made
  BY <1>1, <1>2, <1>3, OneReplaced DEF Made
<1>6. CanvasTypeOK' /\ DrawnFromANode'
  BY <1>3, <1>4, <1>5 DEF CanvasInv, CanvasTypeOK, DrawnFromANode
<1>7. RunsKeepCopies'
  BY <1>1, <1>3, <1>4, <1>5 DEF RunsKeepCopies, Agrees
<1>8. UnusedIsNew'
  <2>1. shown \in issued
    BY <1>1 DEF CanvasInv, UnusedIsNew, Made
  <2> QED
    BY <1>3, <1>4, <1>5, <2>1 DEF CanvasInv, UnusedIsNew
<1>9. ASSUME NEW w \in Made' PROVE Agrees(w)'
  <2>1. Agrees(w) /\ w \in Canvases
    BY <1>5, <1>9 DEF CanvasInv, Made
  <2>2. CASE w = shown
    BY <1>1, <1>2, <1>3, <1>4, <1>5, <2>1, <2>2 DEF Agrees
  <2>3. CASE w # shown
    BY <1>3, <1>5, <2>1, <2>3 DEF Agrees
  <2> QED
    BY <2>2, <2>3
<1> QED
  BY <1>6, <1>7, <1>8, <1>9 DEF CanvasInv

LEMMA EndRunKeeps == ASSUME CanvasInv, NEW run \in underway, EndRun(run) PROVE CanvasInv'
<1>1. PICK w \in Canvases : w = run.of
  BY DEF CanvasInv, CanvasTypeOK
<1>2. /\ run.copy \in FlowRecord /\ run.copy.made /\ flows \in [Canvases -> FlowRecord]
      /\ underway' = {} /\ isRunning' = FALSE
      /\ flows[w].made => run.copy.runs = ended[w]
      /\ UNCHANGED <<shown, picked, drawing, issued, edits>>
      /\ \A r \in underway : r.of = w
  BY <1>1 DEF CanvasInv, CanvasTypeOK, RunsKeepCopies, EndRun
<1>3. CASE ~flows[w].made
  <2>1. UNCHANGED <<flows, ended, takenBack>> /\ Made' = Made
    BY <1>1, <1>3 DEF EndRun, Made
  <2>2. CanvasTypeOK' /\ DrawnFromANode' /\ RunsKeepCopies' /\ UnusedIsNew'
    BY <1>2, <2>1 DEF CanvasInv, CanvasTypeOK, DrawnFromANode, RunsKeepCopies, UnusedIsNew
  <2>3. \A v \in Made' : Agrees(v)'
    BY <1>2, <1>3, <2>1 DEF CanvasInv, Agrees, Made
  <2> QED
    BY <2>2, <2>3 DEF CanvasInv
<1>4. CASE flows[w].made
  <2> DEFINE f == [run.copy EXCEPT !.running = FALSE, !.runs = run.copy.runs + 1]
  <2>1. /\ f \in FlowRecord /\ f.made /\ ~f.running /\ f.runs = run.copy.runs + 1
        /\ f.nodes = run.copy.nodes /\ f.edges = run.copy.edges
    <3>1. run.copy.runs + 1 \in Nat
      BY <1>2 DEF FlowRecord
    <3>2. f \in FlowRecord
      BY <1>2, <3>1 DEF FlowRecord
    <3> QED
      BY <1>2, <3>2 DEF FlowRecord
  <2>2. /\ flows' = [flows EXCEPT ![w] = f] /\ ended' = [ended EXCEPT ![w] = ended[w] + 1]
        /\ takenBack' = IF flows[w].nodes # run.copy.nodes \/ flows[w].edges # run.copy.edges
                        THEN takenBack \cup {w} ELSE takenBack
    BY <1>1, <1>4 DEF EndRun
  <2> HIDE DEF f
  <2>3. /\ flows' \in [Canvases -> FlowRecord] /\ flows'[w] = f
        /\ \A v \in Canvases \ {w} : flows'[v] = flows[v] /\ (v \in Made' <=> v \in Made)
        /\ Made' = Made
    BY <1>2, <1>4, <2>1, <2>2, OneReplaced DEF Made
  <2>4. /\ ended' \in [Canvases -> Nat] /\ ended'[w] = ended[w] + 1
        /\ \A v \in Canvases \ {w} : ended'[v] = ended[v]
    BY <2>2 DEF CanvasInv, CanvasTypeOK
  <2>5. CanvasTypeOK'
    BY <1>2, <2>2, <2>3, <2>4 DEF CanvasInv, CanvasTypeOK
  <2>6. DrawnFromANode' /\ RunsKeepCopies'
    BY <1>2, <2>2 DEF CanvasInv, DrawnFromANode, RunsKeepCopies
  <2>7. UnusedIsNew'
    <3>1. w \in issued
      BY <1>4 DEF CanvasInv, UnusedIsNew
    <3> QED
      BY <1>2, <2>2, <2>3, <2>4, <3>1 DEF CanvasInv, UnusedIsNew
  <2>8. ASSUME NEW v \in Made' PROVE Agrees(v)'
    <3>1. Agrees(v) /\ v \in Canvases
      BY <2>3, <2>8 DEF CanvasInv, Made
    <3>2. CASE v = w
      BY <1>2, <1>4, <2>1, <2>2, <2>3, <2>4, <3>1, <3>2 DEF Agrees
    <3>3. CASE v # w
      BY <1>2, <2>2, <2>3, <2>4, <3>1, <3>3 DEF Agrees
    <3> QED
      BY <3>2, <3>3
  <2> QED
    BY <2>5, <2>6, <2>7, <2>8 DEF CanvasInv
<1> QED
  BY <1>3, <1>4

(* A workflow that was not there before.                                   *)
LEMMA AppearsKeeps ==
  ASSUME CanvasInv, NEW w \in Canvases, w \notin issued, NEW f \in FlowRecord,
         flows' = [flows EXCEPT ![w] = f], f.made, ~f.running, f.runs = 0,
         issued' = issued \cup {w}, shown' = w, drawing = Nothing, drawing' = drawing,
         picked' \in NodeIds \cup {Nothing},
         placed' \in [Canvases -> SUBSET NodeIds], UNCHANGED deleted,
         drawn' \in [Canvases -> SUBSET (NodeIds \X NodeIds)],
         \A v \in Canvases \ {w} : placed'[v] = placed[v] /\ drawn'[v] = drawn[v],
         takenBack \subseteq takenBack', takenBack' \subseteq takenBack \cup {w},
         w \notin takenBack' => Kept(f.nodes, f.edges, placed'[w], drawn'[w], deleted'[w]),
         UNCHANGED <<isRunning, underway, ended>>
  PROVE  CanvasInv'
<1>1. flows \in [Canvases -> FlowRecord] /\ w \notin Made /\ ended[w] = 0 /\ w \notin takenBack
      /\ \A r \in underway : r.of # w
  BY DEF CanvasInv, CanvasTypeOK, UnusedIsNew, Made
<1>2. /\ flows' \in [Canvases -> FlowRecord] /\ flows'[w] = f
      /\ \A v \in Canvases \ {w} : flows'[v] = flows[v] /\ (v \in Made' <=> v \in Made)
      /\ Made' = Made \cup {w}
  BY <1>1, OneReplaced DEF Made
<1>3. CanvasTypeOK' /\ DrawnFromANode'
  BY <1>2 DEF CanvasInv, CanvasTypeOK, DrawnFromANode
<1>4. RunsKeepCopies'
  BY <1>1, <1>2 DEF CanvasInv, CanvasTypeOK, RunsKeepCopies
<1>5. UnusedIsNew'
  BY <1>2 DEF CanvasInv, UnusedIsNew
<1>6. ASSUME NEW v \in Made' PROVE Agrees(v)'
  <2>1. CASE v = w
    BY <1>1, <1>2, <2>1 DEF Agrees
  <2>2. CASE v # w
    <3>1. v \in Made /\ v \in Canvases /\ Agrees(v)
      BY <1>2, <1>6, <2>2 DEF CanvasInv, Made
    <3> QED
      BY <1>2, <2>2, <3>1 DEF Agrees
  <2> QED
    BY <2>1, <2>2
<1> QED
  BY <1>3, <1>4, <1>5, <1>6 DEF CanvasInv

LEMMA ListKeeps ==
  ASSUME CanvasInv, NEW w \in Canvases,
         Create(w) \/ Delete(w) \/ Select(w) \/ \E clone \in Canvases : Duplicate(w, clone)
  PROVE  CanvasInv'
<1>0. CanvasTypeOK /\ flows \in [Canvases -> FlowRecord] /\ placed \in [Canvases -> SUBSET NodeIds]
      /\ picked \in NodeIds \cup {Nothing} /\ drawn \in [Canvases -> SUBSET (NodeIds \X NodeIds)]
  BY DEF CanvasInv, CanvasTypeOK
<1>1. CASE Create(w)
  <2> DEFINE f == [NoFlow EXCEPT !.made = TRUE]
  <2>1. f \in FlowRecord /\ f.made /\ ~f.running /\ f.runs = 0 /\ f.nodes = {} /\ f.edges = {}
    BY DEF NoFlow, FlowRecord
  <2>2. flows' = [flows EXCEPT ![w] = f]
    BY <1>1 DEF Create
  <2>3. placed[w] = {} /\ drawn[w] = {} /\ w \notin issued
    BY <1>1 DEF CanvasInv, UnusedIsNew, Create
  <2>4. Kept(f.nodes, f.edges, placed'[w], drawn'[w], deleted'[w])
    BY <1>1, <2>1, <2>3 DEF Create, Kept
  <2> HIDE DEF f
  <2> QED
    BY <1>0, <1>1, <2>1, <2>2, <2>3, <2>4, AppearsKeeps DEF Create, Free
<1>2. ASSUME NEW clone \in Canvases, Duplicate(w, clone) PROVE CanvasInv'
  <2> DEFINE f == [flows[w] EXCEPT !.running = FALSE, !.runs = 0]
  <2>0. flows[w] \in FlowRecord
    BY <1>0
  <2>1. /\ f \in FlowRecord /\ f.made = flows[w].made /\ ~f.running /\ f.runs = 0
        /\ f.nodes = flows[w].nodes /\ f.edges = flows[w].edges
    BY <2>0 DEF FlowRecord
  <2>2. /\ flows' = [flows EXCEPT ![clone] = f] /\ w \in Made /\ clone \notin issued
        /\ placed' = [placed EXCEPT ![clone] = flows[w].nodes]
        /\ drawn' = [drawn EXCEPT ![clone] = flows[w].edges] /\ UNCHANGED deleted
        /\ takenBack' = IF w \in takenBack THEN takenBack \cup {clone} ELSE takenBack
    BY <1>2 DEF Duplicate
  <2>3. flows[w].made /\ Agrees(w) /\ flows[w].nodes \in SUBSET NodeIds
        /\ flows[w].edges \in SUBSET (NodeIds \X NodeIds)
    BY <1>0, <2>2 DEF CanvasInv, Made, FlowRecord
  <2>4. /\ placed' \in [Canvases -> SUBSET NodeIds] /\ placed'[clone] = flows[w].nodes
        /\ drawn' \in [Canvases -> SUBSET (NodeIds \X NodeIds)] /\ drawn'[clone] = flows[w].edges
        /\ \A v \in Canvases \ {clone} : placed'[v] = placed[v] /\ drawn'[v] = drawn[v]
    BY <1>0, <2>2, <2>3
  <2>5. clone \notin takenBack' => Kept(f.nodes, f.edges, placed'[clone], drawn'[clone], deleted'[clone])
    BY <2>1, <2>2, <2>3, <2>4 DEF Agrees, Kept
  <2> HIDE DEF f
  <2> QED
    BY <1>0, <1>2, <2>1, <2>2, <2>3, <2>4, <2>5, AppearsKeeps DEF Duplicate, Free
<1>3. CASE Select(w)
  BY <1>0, <1>3, LookingKeeps DEF Select, Free
<1>4. CASE Delete(w)
  <2>1. /\ w \in Made /\ flows' = [flows EXCEPT ![w] = NoFlow] /\ drawing = Nothing
        /\ UNCHANGED <<picked, drawing, isRunning, underway, issued, edits, ended, takenBack>>
    BY <1>4 DEF Delete, Free
  <2>2. /\ flows' \in [Canvases -> FlowRecord] /\ flows'[w] = NoFlow
        /\ \A v \in Canvases \ {w} : flows'[v] = flows[v] /\ (v \in Made' <=> v \in Made)
        /\ Made' = Made \ {w}
    BY <1>0, <2>1, NoFlowIsFlow, OneReplaced DEF Made
  <2>3. shown' \in Made' \cup {Nothing}
    BY <1>0, <1>4, <2>2 DEF Delete, CanvasTypeOK
  <2>4. CanvasTypeOK' /\ DrawnFromANode'
    BY <2>1, <2>2, <2>3 DEF CanvasInv, CanvasTypeOK, DrawnFromANode
  <2>5. RunsKeepCopies'
    <3>1. \A r \in underway : r.of \in Canvases
      BY <1>0 DEF CanvasTypeOK
    <3> QED
      BY <2>1, <2>2, <3>1, NoFlowIsFlow DEF CanvasInv, RunsKeepCopies
  <2>6. UnusedIsNew'
    BY <2>1, <2>2, NoFlowIsFlow DEF CanvasInv, UnusedIsNew
  <2>7. \A v \in Made' : Agrees(v)'
    BY <2>1, <2>2 DEF CanvasInv, Agrees, Made
  <2> QED
    BY <2>4, <2>5, <2>6, <2>7 DEF CanvasInv
<1> QED
  BY <1>1, <1>2, <1>3, <1>4

(* The canvas of the workflow that is shown.                               *)
LEMMA CanvasKeeps ==
  ASSUME CanvasInv,
         \/ \E n \in NodeIds : AddNode(n) \/ StartEdge(n) \/ EndEdge(n)
         \/ \E n \in NodeIds \cup {Nothing} : PickNode(n)
         \/ DeleteSelected \/ DropEdge
  PROVE  CanvasInv'
<1>0. /\ CanvasTypeOK /\ flows \in [Canvases -> FlowRecord] /\ placed \in [Canvases -> SUBSET NodeIds]
      /\ picked \in NodeIds \cup {Nothing} /\ shown \in Made \cup {Nothing}
      /\ issued \subseteq Canvases \cup NodeIds /\ drawing \in NodeIds \cup {Nothing}
      /\ drawing # Nothing => shown # Nothing
      /\ drawn \in [Canvases -> SUBSET (NodeIds \X NodeIds)]
      /\ deleted \in [Canvases -> SUBSET NodeIds]
  BY DEF CanvasInv, CanvasTypeOK
<1>1. shown # Nothing =>
        /\ shown \in Canvases /\ Rendered \in FlowRecord /\ Rendered = flows[shown] /\ Rendered.made
        /\ Agrees(shown)
  BY <1>0 DEF CanvasInv, Made, Rendered
<1>2. ASSUME NEW n \in NodeIds, AddNode(n) PROVE CanvasInv'
  <2> DEFINE f == [Rendered EXCEPT !.nodes = Rendered.nodes \cup {n}]
  <2>1. shown # Nothing /\ flows' = [flows EXCEPT ![shown] = f] /\ issued' = issued \cup {n}
        /\ placed' = [placed EXCEPT ![shown] = placed[shown] \cup {n}]
        /\ UNCHANGED <<shown, picked, drawing, isRunning, underway, drawn, deleted, ended, takenBack>>
    BY <1>2 DEF AddNode, WithNodes
  <2>2. /\ f \in FlowRecord /\ f.made = Rendered.made /\ f.running = Rendered.running
        /\ f.runs = Rendered.runs /\ f.nodes = Rendered.nodes \cup {n} /\ f.edges = Rendered.edges
    BY <1>1, <2>1 DEF FlowRecord
  <2>3. /\ placed' \in [Canvases -> SUBSET NodeIds] /\ placed'[shown] = placed[shown] \cup {n}
        /\ \A v \in Canvases \ {shown} : placed'[v] = placed[v]
    BY <1>0, <1>1, <2>1
  <2> HIDE DEF f
  <2>4. shown \notin takenBack => Kept(f.nodes, f.edges, placed'[shown], drawn'[shown], deleted'[shown])
    BY <1>1, <2>1, <2>2, <2>3 DEF Agrees, Kept
  <2> QED
    BY <1>0, <1>1, <2>1, <2>2, <2>3, <2>4, EditKeeps
<1>3. ASSUME NEW n \in NodeIds, StartEdge(n) PROVE CanvasInv'
  BY <1>0, <1>3, LookingKeeps DEF StartEdge
<1>4. ASSUME NEW n \in NodeIds, EndEdge(n) PROVE CanvasInv'
  <2>1. CASE drawing = n
    BY <1>0, <1>4, <2>1, LookingKeeps DEF EndEdge
  <2>2. CASE drawing # n
    <3> DEFINE f == [Rendered EXCEPT !.edges = Rendered.edges \cup {<<drawing, n>>}]
    <3>1. /\ shown # Nothing /\ flows' = [flows EXCEPT ![shown] = f] /\ drawing # Nothing
          /\ n \in Rendered.nodes /\ drawing' = Nothing
          /\ drawn' = [drawn EXCEPT ![shown] = drawn[shown] \cup {<<drawing, n>>}]
          /\ UNCHANGED <<shown, picked, isRunning, underway, issued, placed, deleted, ended, takenBack>>
      BY <1>0, <1>4, <2>2 DEF EndEdge, Free, WithEdges
    <3>2. /\ f \in FlowRecord /\ f.made = Rendered.made /\ f.running = Rendered.running
          /\ f.runs = Rendered.runs /\ f.nodes = Rendered.nodes
          /\ f.edges = Rendered.edges \cup {<<drawing, n>>}
      BY <1>0, <1>1, <3>1 DEF FlowRecord
    <3>3. /\ drawn' \in [Canvases -> SUBSET (NodeIds \X NodeIds)]
          /\ drawn'[shown] = drawn[shown] \cup {<<drawing, n>>}
          /\ \A v \in Canvases \ {shown} : drawn'[v] = drawn[v]
      BY <1>0, <1>1, <3>1
    <3> HIDE DEF f
    <3>4. shown \notin takenBack => Kept(f.nodes, f.edges, placed'[shown], drawn'[shown], deleted'[shown])
      <4>1. shown \notin takenBack => drawing \in placed[shown]
        BY <3>1 DEF CanvasInv, DrawnFromANode
      <4> QED
        BY <1>1, <3>1, <3>2, <3>3, <4>1 DEF Agrees, Kept
    <3> QED
      BY <1>0, <1>1, <3>1, <3>2, <3>3, <3>4, EditKeeps
  <2> QED
    BY <2>1, <2>2
<1>5. ASSUME NEW n \in NodeIds \cup {Nothing}, PickNode(n) PROVE CanvasInv'
  BY <1>0, <1>5, LookingKeeps DEF PickNode, Free
<1>6. CASE DropEdge
  BY <1>0, <1>6, LookingKeeps DEF DropEdge
<1>7. CASE DeleteSelected
  <2> DEFINE kept == {e \in Rendered.edges : e[1] # picked /\ e[2] # picked}
             f    == [Rendered EXCEPT !.edges = kept]
  <2>1. /\ shown # Nothing /\ picked' = Nothing
        /\ flows' = WithEdges(WithNodes(flows, Rendered.nodes \ {picked}), kept)
        /\ deleted' = [deleted EXCEPT ![shown] = deleted[shown] \cup {picked}] /\ picked # Nothing
        /\ UNCHANGED <<shown, drawing, isRunning, underway, issued, placed, drawn, ended, takenBack>>
    BY <1>7 DEF DeleteSelected
  <2>2. flows' = [flows EXCEPT ![shown] = f]
    BY <1>0, <1>1, <2>1 DEF WithEdges, WithNodes
  <2>3. kept \subseteq Rendered.edges
    OBVIOUS
  <2> HIDE DEF kept
  <2>4. /\ f \in FlowRecord /\ f.made = Rendered.made /\ f.running = Rendered.running
        /\ f.runs = Rendered.runs /\ f.nodes = Rendered.nodes /\ f.edges = kept
    BY <1>1, <2>1, <2>3 DEF FlowRecord
  <2>5. /\ deleted' \in [Canvases -> SUBSET NodeIds]
        /\ deleted'[shown] = deleted[shown] \cup {picked}
        /\ \A v \in Canvases \ {shown} : deleted'[v] = deleted[v]
    BY <1>0, <1>1, <2>1
  <2> HIDE DEF f
  <2>6. shown \notin takenBack => Kept(f.nodes, f.edges, placed'[shown], drawn'[shown], deleted'[shown])
    BY <1>1, <2>1, <2>3, <2>4, <2>5 DEF Agrees, Kept, kept
  <2> QED
    BY <1>0, <1>1, <2>1, <2>2, <2>4, <2>5, <2>6, EditKeeps
<1> QED
  BY <1>2, <1>3, <1>4, <1>5, <1>6, <1>7

LEMMA RunKeeps ==
  ASSUME CanvasInv, RunShown \/ \E w \in Canvases : RunListed(w)
  PROVE  CanvasInv'
<1>1. shown \in Made \cup {Nothing} /\ picked \in NodeIds \cup {Nothing}
  BY DEF CanvasInv, CanvasTypeOK
<1>2. CASE RunShown
  BY <1>1, <1>2, BeginRunKeeps DEF RunShown, Free
<1>3. ASSUME NEW w \in Canvases, RunListed(w) PROVE CanvasInv'
  <2>1. CASE shown # Nothing /\ MayStart
    BY <1>1, <1>3, <2>1, BeginRunKeeps DEF RunListed, Free
  <2>2. CASE ~(shown # Nothing /\ MayStart)
    BY <1>1, <1>3, <2>2, LookingKeeps DEF RunListed, Free
  <2> QED
    BY <2>1, <2>2
<1> QED
  BY <1>2, <1>3

LEMMA CanvasStep == CanvasInv /\ [CanvasNext]_canvasVars => CanvasInv'
<1> SUFFICES ASSUME CanvasInv, [CanvasNext]_canvasVars PROVE CanvasInv'
  OBVIOUS
<1>1. CASE UNCHANGED canvasVars
  <2>1. CanvasTypeOK' /\ DrawnFromANode' /\ RunsKeepCopies' /\ UnusedIsNew' /\ Made' = Made
    BY <1>1 DEF canvasVars, CanvasInv, CanvasTypeOK, DrawnFromANode, RunsKeepCopies, UnusedIsNew, Made
  <2>2. \A w \in Made' : Agrees(w)'
    BY <1>1, <2>1 DEF canvasVars, CanvasInv, Agrees
  <2> QED
    BY <2>1, <2>2 DEF CanvasInv
<1>2. CASE CanvasNext
  BY <1>2, ListKeeps, CanvasKeeps, RunKeeps, EndRunKeeps DEF CanvasNext
<1> QED
  BY <1>1, <1>2

(* Whatever is clicked on the collaboration page while a run is in         *)
(* progress, a workflow shown as running is being run and its counter is   *)
(* that of the runs that ended; unless the end of a run has undone an      *)
(* edit, every node and every edge that was put on a workflow is there     *)
(* that was not deleted, nothing else is, and no edge is without its       *)
(* nodes.                                                                  *)
THEOREM OnlyTheEndOfARunUndoes == CanvasSpec => []OnlyRunsTakeBack
<1>1. CanvasInv => OnlyRunsTakeBack
  BY DEF CanvasInv, OnlyRunsTakeBack, Agrees, Kept, Standing, RunsKeepCopies
<1> QED
  BY <1>1, CanvasInitOK, CanvasStep, PTL DEF CanvasSpec

(* The workflows of the list, the runs of the page and what is drawn keep  *)
(* their types.                                                            *)
THEOREM CanvasIsTyped == CanvasSpec => []CanvasTypeOK
<1>1. CanvasInv => CanvasTypeOK
  BY DEF CanvasInv
<1> QED
  BY <1>1, CanvasInitOK, CanvasStep, PTL DEF CanvasSpec

HIDE DEF edits

-----------------------------------------------------------------------------
(* The query cache.                                                        *)

MutationNames == SpaceNames \cup ApiNames

Change == [at: {"idle", "sent", "landed", "adrift", "ended"}, name: MutationNames \cup {"none"}, request: Nat \ {0}]

(* Mutations of which something has landed on the server and that are not  *)
(* answered yet.                                                           *)
Unanswered(k) == (k.at = "landed" \/ k.request > 1) /\ k.at \in {"sent", "landed"}
SomeUnanswered == \E i \in ChangeIds : Unanswered(changes[i])

(* Answers of which the entry cannot follow what was written.              *)
Excuses(answers) == \E e \in answers : e \in {"overtook", "failed"} \/ <<e, entry>> \in LeftOut

(* The invariant: what the entry is behind of, and what the answer of its  *)
(* request will be behind of, is accounted for.                            *)
ViewsInv ==
  /\ entry \in Entries /\ held \in BOOLEAN /\ fetch \in {"idle", "sent", "read"}
  /\ changes \in [ChangeIds -> Change]
  /\ \A i \in ChangeIds : /\ changes[i].at \in {"sent", "landed"} => changes[i].name \in Concerned
                          /\ changes[i].at \in {"idle", "ended"} => changes[i].request = 1
  /\ ~held => behind = {}
  /\ fetch # "read" => outdated = {}
  /\ behind # {} /\ ~marked => SomeUnanswered \/ Excuses(since)
  /\ outdated # {} => SomeUnanswered \/ Excuses(lately)

(* A mutation that writes what an entry shows and does not mark it is one  *)
(* of the pairs the keys leave out.                                        *)
LEMMA UnmarkedIsLeftOut ==
  ASSUME entry \in Entries, NEW name \in Concerned, entry \notin Marks(name)
  PROVE  <<name, entry>> \in LeftOut
<1>0. PICK k \in DOMAIN Writes(name) : Writes(name)[k] \cap Shows[entry] # {}
  BY DEF Concerned
<1>1. name \in SpaceNames \cup ApiNames
  BY DEF Concerned
<1>2. CASE name \in {"createDraft", "updateDraft", "deleteDraft", "createVersion", "rollback"}
  <2>1. Writes(name)[k] \subseteq IF name = "createDraft" THEN {"others"}
                                  ELSE IF name \in {"updateDraft", "deleteDraft"} THEN {"row"}
                                  ELSE IF name = "createVersion" THEN {"versions"}
                                  ELSE {"row", "versions"}
    BY <1>0, <1>2 DEF Writes, SpaceWrites, SpaceNames
  <2>2. entry \notin SpaceEntries \/ (name = "createVersion" /\ entry = "drafts")
    BY <1>2 DEF Marks, SpaceMarks, SpaceNames, SpaceEntries
  <2>3. entry \in AgentEntries \cup ApiEntries \cup {"drafts"}
    BY <2>2 DEF Entries
  <2>4. CASE entry \in ApiEntries \/ (entry = "drafts" /\ name = "createVersion")
    <3>1. Shows[entry] \cap {"row", "others", "versions"} \subseteq {"row", "others"}
          /\ (entry \in ApiEntries => Shows[entry] \subseteq {"active", "secret"})
      BY <2>4 DEF Shows, ApiEntries
    <3> QED
      BY <1>0, <1>2, <2>1, <2>4, <3>1
  <2>5. CASE entry \in AgentEntries
    <3>1. Shows[entry] \subseteq {"row", "others"} /\ (entry # "agents" => Shows[entry] = {"row"})
      BY <2>5 DEF Shows, AgentEntries
    <3>2. name # "createVersion"
      BY <1>0, <2>1, <3>1
    <3>3. name = "createDraft" => entry = "agents"
      BY <1>0, <2>1, <2>5, <3>1 DEF AgentEntries
    <3>4. CASE name = "createDraft"
      BY <3>3, <3>4 DEF LeftOut
    <3>5. CASE name \in {"updateDraft", "deleteDraft", "rollback"}
      BY <2>5, <3>5 DEF LeftOut
    <3> QED
      BY <1>2, <3>2, <3>4, <3>5
  <2> QED
    BY <2>2, <2>3, <2>4, <2>5 DEF SpaceEntries
<1>3. CASE name = "deployDraft"
  <2>1. Writes(name)[k] \subseteq {"versions", "row"}
    BY <1>0, <1>3 DEF Writes, SpaceWrites, SpaceNames
  <2>2. entry \notin SpaceEntries
    BY <1>3 DEF Marks, SpaceMarks, SpaceNames
  <2>3. CASE entry \in ApiEntries
    BY <1>0, <2>1, <2>3 DEF Shows, ApiEntries
  <2>4. CASE entry \in AgentEntries
    BY <1>3, <2>4 DEF LeftOut
  <2> QED
    BY <2>2, <2>3, <2>4 DEF Entries
<1>4. CASE name \in {"subscribe", "unsubscribe"}
  <2>1. Writes(name)[k] \subseteq {"active", "secret"}
    BY <1>0, <1>4 DEF Writes, ApiWrites, SpaceNames
  <2>2. entry \notin ApiEntries
    BY <1>4 DEF Marks, ApiMarks, SpaceNames
  <2>3. Shows[entry] \subseteq {"row", "others", "versions"}
    BY <2>2 DEF Shows, Entries, SpaceEntries, AgentEntries
  <2> QED
    BY <1>0, <2>1, <2>3
<1>5. CASE name \in {"revoke", "rotate"}
  <2>1. Writes(name)[k] \subseteq IF name = "revoke" THEN {"active"} ELSE {"secret"}
    BY <1>0, <1>5 DEF Writes, ApiWrites, SpaceNames
  <2>2. entry # "myKeys"
    BY <1>5 DEF Marks, ApiMarks, SpaceNames
  <2>3. CASE entry \in SpaceEntries \cup AgentEntries
    <3>1. Shows[entry] \subseteq {"row", "others", "versions"}
      BY <2>3 DEF Shows, SpaceEntries, AgentEntries
    <3> QED
      BY <1>0, <1>5, <2>1, <3>1
  <2>4. CASE entry = "product"
    BY <1>5, <2>4 DEF LeftOut
  <2>5. CASE entry = "products"
    <3>1. Shows[entry] = {"active"}
      BY <2>5 DEF Shows
    <3> QED
      BY <1>0, <1>5, <2>1, <2>5, <3>1 DEF LeftOut
  <2> QED
    BY <2>2, <2>3, <2>4, <2>5 DEF Entries, ApiEntries
<1>6. CASE name \in {"addApi", "removeApi"}
  <2>1. Writes(name)[k] \subseteq {"row"}
    BY <1>0, <1>6 DEF Writes, ApiWrites, SpaceNames
  <2>2. entry # "agent"
    BY <1>6 DEF Marks, ApiMarks, SpaceNames
  <2>3. CASE entry \in ApiEntries \cup {"versions"}
    <3>1. Shows[entry] \subseteq {"active", "secret", "versions"}
      BY <2>3 DEF Shows, ApiEntries
    <3> QED
      BY <1>0, <2>1, <3>1
  <2>4. CASE entry \in {"agents", "cost", "drafts", "draft"}
    BY <1>6, <2>4 DEF LeftOut
  <2> QED
    BY <2>2, <2>3, <2>4 DEF Entries, ApiEntries, SpaceEntries, AgentEntries
<1> QED
  BY <1>1, <1>2, <1>3, <1>4, <1>5, <1>6 DEF SpaceNames, ApiNames

LEMMA QueryInitOK == QueryInit => ViewsInv
<1> SUFFICES ASSUME QueryInit PROVE ViewsInv
  OBVIOUS
<1>1. Unstarted \in Change /\ Unstarted.at = "idle" /\ Unstarted.request = 1
  BY DEF Unstarted, Change
<1> QED
  BY <1>1 DEF QueryInit, ViewsInv

(* The mutations stay as they are.                                         *)
LEMMA ChangesRest ==
  ASSUME ViewsInv, UNCHANGED <<entry, changes>>
  PROVE  /\ SomeUnanswered' = SomeUnanswered
         /\ \A answers : Excuses(answers)' = Excuses(answers)
         /\ entry' \in Entries /\ changes' \in [ChangeIds -> Change]
         /\ \A i \in ChangeIds :
              /\ changes'[i].at \in {"sent", "landed"} => changes'[i].name \in Concerned'
              /\ changes'[i].at \in {"idle", "ended"} => changes'[i].request = 1
<1>1. Concerned' = Concerned
  BY DEF Concerned
<1>2. SomeUnanswered' = SomeUnanswered
  BY DEF SomeUnanswered, Unanswered
<1>3. \A answers : Excuses(answers)' = Excuses(answers)
  BY DEF Excuses
<1>4. entry' \in Entries /\ changes' \in [ChangeIds -> Change]
  BY DEF ViewsInv
<1>5. \A i \in ChangeIds :
        /\ changes'[i].at \in {"sent", "landed"} => changes'[i].name \in Concerned'
        /\ changes'[i].at \in {"idle", "ended"} => changes'[i].request = 1
  BY <1>1 DEF ViewsInv
<1> QED
  BY <1>2, <1>3, <1>4, <1>5

(* The entry's own steps.                                                  *)
LEMMA EntryKeeps ==
  ASSUME ViewsInv,
         \/ OpenPage \/ LeavePage \/ ReadServer \/ Arrive \/ LoseFetch \/ SendAgain \/ GrowOld
         \/ Collect
  PROVE  ViewsInv'
<1>1. UNCHANGED <<entry, changes>>
  BY DEF OpenPage, LeavePage, ReadServer, Arrive, LoseFetch, SendAgain, GrowOld, Collect
<1>2. /\ SomeUnanswered' = SomeUnanswered /\ Excuses(since)' = Excuses(since')
      /\ Excuses(lately)' = Excuses(lately')
      /\ entry' \in Entries /\ changes' \in [ChangeIds -> Change]
      /\ \A i \in ChangeIds : /\ changes'[i].at \in {"sent", "landed"} => changes'[i].name \in Concerned'
                              /\ changes'[i].at \in {"idle", "ended"} => changes'[i].request = 1
  BY <1>1, ChangesRest DEF Excuses
<1>3. /\ held' \in BOOLEAN /\ fetch' \in {"idle", "sent", "read"}
      /\ ~held' => behind' = {}
      /\ fetch' # "read" => outdated' = {}
      /\ behind' # {} /\ ~marked' => SomeUnanswered \/ Excuses(since')
      /\ outdated' # {} => SomeUnanswered \/ Excuses(lately')
  <2>1. CASE OpenPage
    BY <2>1 DEF OpenPage, ViewsInv
  <2>2. CASE LeavePage
    BY <2>2 DEF LeavePage, cacheEntry, ViewsInv
  <2>3. CASE ReadServer
    BY <2>3 DEF ReadServer, ViewsInv
  <2>4. CASE Arrive
    BY <2>4 DEF Arrive, ViewsInv
  <2>5. CASE LoseFetch
    BY <2>5 DEF LoseFetch, ViewsInv
  <2>6. CASE SendAgain
    BY <2>6 DEF SendAgain, ViewsInv
  <2>7. CASE GrowOld
    BY <2>7 DEF GrowOld, ViewsInv
  <2>8. CASE Collect
    BY <2>8 DEF Collect, ViewsInv
  <2> QED
    BY <2>1, <2>2, <2>3, <2>4, <2>5, <2>6, <2>7, <2>8
<1> QED
  BY <1>2, <1>3 DEF ViewsInv

(* One mutation goes on.                                                   *)
LEMMA OneGoesOn ==
  ASSUME ViewsInv, NEW i \in ChangeIds, NEW k \in Change, changes' = [changes EXCEPT ![i] = k],
         entry' = entry, k.at \in {"sent", "landed"} => k.name \in Concerned,
         k.at \in {"idle", "ended"} => k.request = 1
  PROVE  /\ entry' \in Entries /\ changes' \in [ChangeIds -> Change]
         /\ \A j \in ChangeIds :
              /\ changes'[j].at \in {"sent", "landed"} => changes'[j].name \in Concerned'
              /\ changes'[j].at \in {"idle", "ended"} => changes'[j].request = 1
         /\ Unanswered(k) => SomeUnanswered'
         /\ SomeUnanswered => SomeUnanswered' \/ Unanswered(changes[i])
         /\ \A answers : Excuses(answers)' = Excuses(answers)
<1>1. Concerned' = Concerned /\ changes \in [ChangeIds -> Change]
  BY DEF Concerned, ViewsInv
<1>2. \A j \in ChangeIds : changes'[j] = IF j = i THEN k ELSE changes[j]
  BY <1>1
<1>3. /\ changes' \in [ChangeIds -> Change]
      /\ \A j \in ChangeIds :
              /\ changes'[j].at \in {"sent", "landed"} => changes'[j].name \in Concerned'
              /\ changes'[j].at \in {"idle", "ended"} => changes'[j].request = 1
  BY <1>1, <1>2 DEF ViewsInv
<1>4. /\ Unanswered(k) => SomeUnanswered'
      /\ SomeUnanswered => SomeUnanswered' \/ Unanswered(changes[i])
  BY <1>2 DEF SomeUnanswered, Unanswered
<1>5. \A answers : Excuses(answers)' = Excuses(answers)
  BY DEF Excuses
<1> QED
  BY <1>3, <1>4, <1>5 DEF ViewsInv

(* The mutation leaves the entry alone, or writes, or is remembered.       *)
LEMMA MutationsKeep ==
  ASSUME ViewsInv, NEW i \in ChangeIds,
         Mutate(i) \/ Commit(i) \/ SendNext(i) \/ Fail(i) \/ CommitLate(i)
  PROVE  ViewsInv'
<1>1. changes[i] \in Change /\ changes \in [ChangeIds -> Change] /\ entry' = entry
  BY DEF ViewsInv, Mutate, Commit, SendNext, Fail, CommitLate
<1>2. Over \in Change /\ Over.at = "ended" /\ Over.request = 1
  BY DEF Over, Unstarted, Change
<1>3. CASE Mutate(i)
  <2>1. PICK name \in Concerned :
          changes' = [changes EXCEPT ![i] = [at |-> "sent", name |-> name, request |-> 1]]
    BY <1>3 DEF Mutate
  <2> DEFINE k == [at |-> "sent", name |-> name, request |-> 1]
  <2>2. k \in Change /\ k.at = "sent" /\ k.name = name
    BY DEF Change, Concerned, MutationNames
  <2>3. changes' = [changes EXCEPT ![i] = k] /\ ~Unanswered(changes[i])
        /\ UNCHANGED <<held, behind, marked, fetch, outdated, since, lately>>
    BY <1>3, <2>1 DEF Mutate, cacheEntry, Unanswered
  <2> HIDE DEF k
  <2> QED
    BY <1>1, <2>2, <2>3, OneGoesOn DEF ViewsInv, Excuses
<1>4. CASE Commit(i)
  <2> DEFINE k == [changes[i] EXCEPT !.at = "landed"]
  <2>1. k \in Change /\ k.at = "landed" /\ k.name = changes[i].name
    BY <1>1 DEF Change
  <2>2. changes' = [changes EXCEPT ![i] = k] /\ changes[i].at = "sent"
    BY <1>1, <1>4 DEF Commit
  <2>3. /\ UNCHANGED <<held, marked, fetch, since, lately>>
        /\ ~held => behind' = behind
        /\ fetch # "read" => outdated' = outdated
    BY <1>4 DEF Commit, WriteServer
  <2> HIDE DEF k
  <2>4. changes[i].name \in Concerned /\ Unanswered(k)
    BY <2>1, <2>2 DEF ViewsInv, Unanswered
  <2>5. /\ entry' \in Entries /\ changes' \in [ChangeIds -> Change] /\ SomeUnanswered'
        /\ \A j \in ChangeIds :
             /\ changes'[j].at \in {"sent", "landed"} => changes'[j].name \in Concerned'
             /\ changes'[j].at \in {"idle", "ended"} => changes'[j].request = 1
    BY <1>1, <2>1, <2>2, <2>4, OneGoesOn
  <2> QED
    BY <2>3, <2>5 DEF ViewsInv
<1>5. CASE SendNext(i)
  <2> DEFINE k == [changes[i] EXCEPT !.at = "sent", !.request = changes[i].request + 1]
  <2>1. changes[i].request \in Nat \ {0} /\ changes[i].request + 1 \in Nat \ {0}
    BY <1>1 DEF Change
  <2>2. k \in Change /\ k.at = "sent" /\ k.name = changes[i].name /\ k.request = changes[i].request + 1
    BY <1>1, <2>1 DEF Change
  <2>3. changes' = [changes EXCEPT ![i] = k] /\ changes[i].at = "landed"
        /\ UNCHANGED <<held, behind, marked, fetch, outdated, since, lately>>
    BY <1>1, <1>5 DEF SendNext, cacheEntry
  <2> HIDE DEF k
  <2>4. changes[i].name \in Concerned
    BY <2>3 DEF ViewsInv
  <2>5. /\ entry' \in Entries /\ changes' \in [ChangeIds -> Change]
        /\ SomeUnanswered => SomeUnanswered' \/ Unanswered(changes[i])
        /\ Unanswered(k) => SomeUnanswered'
        /\ Excuses(since)' = Excuses(since) /\ Excuses(lately)' = Excuses(lately)
        /\ \A j \in ChangeIds :
             /\ changes'[j].at \in {"sent", "landed"} => changes'[j].name \in Concerned'
             /\ changes'[j].at \in {"idle", "ended"} => changes'[j].request = 1
    BY <1>1, <2>2, <2>3, <2>4, OneGoesOn DEF Excuses
  <2>6. Unanswered(k)
    BY <1>1, <2>1, <2>2 DEF Unanswered, Change
  <2> QED
    BY <2>3, <2>5, <2>6 DEF ViewsInv
<1>6. CASE Fail(i) \/ CommitLate(i)
  <2>1. PICK k \in Change :
          /\ changes' = [changes EXCEPT ![i] = k] /\ k.at \in {"adrift", "ended"}
          /\ k.at = "ended" => k.request = 1
    <3> DEFINE r == [changes[i] EXCEPT !.at = "adrift"]
    <3>1. r \in Change /\ r.at = "adrift"
      BY <1>1 DEF Change
    <3>2. changes' = [changes EXCEPT ![i] = r] \/ changes' = [changes EXCEPT ![i] = Over]
      BY <1>1, <1>6 DEF Fail, CommitLate
    <3> HIDE DEF r
    <3> QED
      BY <1>2, <3>1, <3>2
  <2>2. /\ UNCHANGED <<held, marked, fetch>> /\ Remember("failed")
        /\ ~held => behind' = behind
        /\ fetch # "read" => outdated' = outdated
    BY <1>6 DEF Fail, CommitLate, WriteServer
  <2>3. /\ entry' \in Entries /\ changes' \in [ChangeIds -> Change]
        /\ \A j \in ChangeIds :
             /\ changes'[j].at \in {"sent", "landed"} => changes'[j].name \in Concerned'
             /\ changes'[j].at \in {"idle", "ended"} => changes'[j].request = 1
    <3>1. k.at \notin {"sent", "landed", "idle"}
      BY <2>1
    <3> QED
      BY <1>1, <2>1, <3>1, OneGoesOn
  <2>4. held => Excuses(since)'
    BY <2>2 DEF Remember, Excuses
  <2>5. fetch # "idle" => Excuses(lately)'
    BY <2>2 DEF Remember, Excuses
  <2> QED
    BY <2>2, <2>3, <2>4, <2>5 DEF ViewsInv
<1> QED
  BY <1>3, <1>4, <1>5, <1>6

(* The mutation is answered: it marks the entry, or is remembered.         *)
LEMMA SucceedKeeps == ASSUME ViewsInv, NEW i \in ChangeIds, Succeed(i) PROVE ViewsInv'
<1>1. /\ changes[i] \in Change /\ changes \in [ChangeIds -> Change] /\ entry' = entry
      /\ changes[i].name \in Concerned /\ entry \in Entries
      /\ UNCHANGED <<held, behind>> /\ changes' = [changes EXCEPT ![i] = Over]
  BY DEF ViewsInv, Succeed
<1>2. Over \in Change /\ Over.at = "ended" /\ Over.request = 1
  BY DEF Over, Unstarted, Change
<1> DEFINE name == changes[i].name
<1>3. /\ entry' \in Entries /\ changes' \in [ChangeIds -> Change]
      /\ \A j \in ChangeIds :
           /\ changes'[j].at \in {"sent", "landed"} => changes'[j].name \in Concerned'
           /\ changes'[j].at \in {"idle", "ended"} => changes'[j].request = 1
  BY <1>1, <1>2, OneGoesOn
<1>4. CASE entry \notin Marks(name)
  <2>1. Remember(name) /\ UNCHANGED <<marked, fetch, outdated>>
    BY <1>4 DEF Succeed
  <2>2. <<name, entry>> \in LeftOut
    BY <1>1, <1>4, UnmarkedIsLeftOut
  <2>3. (held => Excuses(since)') /\ (fetch # "idle" => Excuses(lately)')
    BY <1>1, <2>1, <2>2 DEF Remember, Excuses
  <2> QED
    BY <1>1, <1>3, <2>1, <2>3 DEF ViewsInv
<1>5. CASE entry \in Marks(name) /\ Overtaken
  <2>1. Remember("overtook") /\ Refetch
    BY <1>5 DEF Succeed
  <2>2. (held => Excuses(since)') /\ (fetch # "idle" => Excuses(lately)')
    BY <2>1 DEF Remember, Excuses
  <2>3. marked' = TRUE /\ UNCHANGED <<fetch, outdated>>
    BY <1>5, <2>1 DEF Refetch, Overtaken
  <2> QED
    BY <1>1, <1>3, <2>2, <2>3 DEF ViewsInv
<1>6. CASE entry \in Marks(name) /\ ~Overtaken
  <2>1. Refetch
    BY <1>6 DEF Succeed
  <2>2. (held => marked') /\ outdated' = {} /\ fetch' \in {fetch, "sent"}
    BY <1>6, <2>1 DEF Refetch, Overtaken, ViewsInv
  <2> QED
    BY <1>1, <1>3, <2>2 DEF ViewsInv
<1> QED
  BY <1>4, <1>5, <1>6

LEMMA QueryStep == ViewsInv /\ [QueryNext]_queryVars => ViewsInv'
<1> SUFFICES ASSUME ViewsInv, [QueryNext]_queryVars PROVE ViewsInv'
  OBVIOUS
<1>1. CASE UNCHANGED queryVars
  <2>1. UNCHANGED <<entry, changes, held, behind, marked, fetch, outdated, since, lately>>
    BY <1>1 DEF queryVars, cacheEntry
  <2> QED
    BY <2>1, ChangesRest DEF ViewsInv, Excuses
<1>2. CASE QueryNext
  BY <1>2, EntryKeeps, MutationsKeep, SucceedKeeps DEF QueryNext
<1> QED
  BY <1>1, <1>2

(* In whatever order pages open, mutations are answered and fetches        *)
(* return, an entry of the query cache that is behind the server and taken *)
(* for fresh is behind a mutation that is not answered or has failed, one  *)
(* that overtook a fetch, or one of the pairs the query keys leave out.    *)
THEOREM FreshViewsFollow == QuerySpec => []ViewsFollow
<1>1. ViewsInv => ViewsFollow
  BY DEF ViewsInv, ViewsFollow, SomeUnanswered, Unanswered, Excuses
<1> QED
  BY <1>1, QueryInitOK, QueryStep, PTL DEF QuerySpec

-----------------------------------------------------------------------------
(* The schedule page: first the days its next runs are computed from.      *)

Pair == Long + Short

LEMMA PairIs == Pair \in Nat /\ Pair >= 3 /\ Long \in Nat /\ Short \in Nat /\ Pair = Long + Short
                /\ 1 <= Short /\ Short < Long
  BY Calendar DEF Pair

(* Products grow with their factor: the provers do not see it themselves.  *)
LEMMA TimesGrows ==
  ASSUME NEW a \in Int, NEW b \in Int, a < b, NEW p \in Nat
  PROVE  (a + 1) * p <= b * p
<1>1. PICK d \in Nat : b = a + 1 + d
  <2>1. b - a - 1 \in Nat /\ b = a + 1 + (b - a - 1)
    OBVIOUS
  <2> QED
    BY <2>1
<1>2. b * p = (a + 1) * p + d * p
  BY <1>1
<1>3. d * p \in Nat
  OBVIOUS
<1>4. (a + 1) * p \in Int /\ b * p \in Int
  OBVIOUS
<1> QED
  BY <1>2, <1>3, <1>4

(* A pair of months after the other, the long one first.                   *)
LEMMA FirstDays ==
  ASSUME NEW q \in Nat
  PROVE  /\ FirstDay(2 * q) = q * Pair /\ FirstDay(2 * q + 1) = q * Pair + Long
         /\ FirstDay(2 * q + 2) = (q + 1) * Pair /\ q * Pair \in Nat
         /\ (q + 1) * Pair = q * Pair + Pair
<1>1. (2 * q) \div 2 = q /\ (2 * q) % 2 = 0
  OBVIOUS
<1>2. (2 * q + 1) \div 2 = q /\ (2 * q + 1) % 2 = 1
  OBVIOUS
<1>3. (2 * q + 2) \div 2 = q + 1 /\ (2 * q + 2) % 2 = 0
  OBVIOUS
<1>4. q * Pair \in Nat /\ (q + 1) * Pair = q * Pair + Pair
  BY PairIs
<1>5. 0 * Long = 0 /\ 1 * Long = Long
  BY PairIs
<1>6. FirstDay(2 * q) = q * Pair
  BY <1>1, <1>4, <1>5 DEF FirstDay, Pair
<1>7. FirstDay(2 * q + 1) = q * Pair + Long
  BY <1>2, <1>4, <1>5 DEF FirstDay, Pair
<1>8. FirstDay(2 * q + 2) = (q + 1) * Pair
  <2>1. (q + 1) * Pair \in Nat
    BY <1>4, PairIs
  <2> QED
    BY <1>3, <1>5, <2>1 DEF FirstDay, Pair
<1> QED
  BY <1>4, <1>6, <1>7, <1>8

LEMMA Halves == ASSUME NEW m \in Nat PROVE \E q \in Nat : m = 2 * q \/ m = 2 * q + 1
<1>1. m \div 2 \in Nat /\ (m = 2 * (m \div 2) \/ m = 2 * (m \div 2) + 1)
  OBVIOUS
<1> QED
  BY <1>1

LEMMA MonthsGrow ==
  ASSUME NEW m \in Nat
  PROVE  /\ FirstDay(m) \in Nat /\ FirstDay(m + 1) \in Nat
         /\ FirstDay(m) + Short <= FirstDay(m + 1)
         /\ FirstDay(m + 1) + Short <= FirstDay(m + 2)
         /\ FirstDay(m) + Long <= FirstDay(m + 2)
<1>1. PICK q \in Nat : m = 2 * q \/ m = 2 * q + 1
  BY Halves
<1>2. q + 1 \in Nat
  OBVIOUS
<1>3. /\ FirstDay(2 * q) = q * Pair /\ FirstDay(2 * q + 1) = q * Pair + Long
      /\ FirstDay(2 * q + 2) = (q + 1) * Pair /\ q * Pair \in Nat
      /\ (q + 1) * Pair = q * Pair + Pair
  BY FirstDays
<1>4. FirstDay(2 * q + 3) = (q + 1) * Pair + Long
  <2>1. 2 * (q + 1) + 1 = 2 * q + 3
    OBVIOUS
  <2> QED
    BY <1>2, <2>1, FirstDays
<1>5. CASE m = 2 * q
  BY <1>3, <1>5, PairIs
<1>6. CASE m = 2 * q + 1
  <2>1. m + 1 = 2 * q + 2 /\ m + 2 = 2 * q + 3
    BY <1>6
  <2> QED
    BY <1>3, <1>4, <1>6, <2>1, PairIs
<1> QED
  BY <1>1, <1>5, <1>6

LEMMA LaterMonths == ASSUME NEW m \in Nat, NEW n \in Nat, m < n PROVE FirstDay(m + 1) <= FirstDay(n)
<1>1. PICK a \in Nat : m = 2 * a \/ m = 2 * a + 1
  BY Halves
<1>2. PICK c \in Nat : n = 2 * c \/ n = 2 * c + 1
  BY Halves
<1>3. /\ FirstDay(2 * a + 1) = a * Pair + Long
      /\ FirstDay(2 * a + 2) = (a + 1) * Pair /\ a * Pair \in Nat
      /\ (a + 1) * Pair = a * Pair + Pair
  BY FirstDays
<1>4. FirstDay(2 * c) = c * Pair /\ FirstDay(2 * c + 1) = c * Pair + Long /\ c * Pair \in Nat
  BY FirstDays
<1>5. CASE a = c
  <2>1. m + 1 = n
    BY <1>1, <1>2, <1>5
  <2>2. FirstDay(n) \in Nat
    BY MonthsGrow
  <2> QED
    BY <2>1, <2>2
<1>6. CASE a # c
  <2>1. a < c
    BY <1>1, <1>2, <1>6
  <2>2. (a + 1) * Pair <= c * Pair
    BY <2>1, TimesGrows, PairIs
  <2>3. FirstDay(m + 1) <= (a + 1) * Pair
    <3>1. CASE m = 2 * a
      BY <1>3, <3>1, PairIs
    <3>2. CASE m = 2 * a + 1
      <4>1. m + 1 = 2 * a + 2
        BY <3>2
      <4> QED
        BY <1>3, <4>1, PairIs
    <3> QED
      BY <1>1, <3>1, <3>2
  <2>4. c * Pair <= FirstDay(n)
    BY <1>2, <1>4, PairIs
  <2>5. FirstDay(m + 1) \in Nat /\ FirstDay(n) \in Nat /\ (a + 1) * Pair \in Nat
    BY <1>3, MonthsGrow, PairIs
  <2> QED
    BY <1>4, <2>2, <2>3, <2>4, <2>5
<1> QED
  BY <1>5, <1>6

(* A day lies in one month, and MonthOf finds it.                          *)
LEMMA MonthIs ==
  ASSUME NEW day \in Nat, NEW m \in Nat, FirstDay(m) <= day, day < FirstDay(m + 1)
  PROVE  MonthOf(day) = m
<1>1. m <= day
  <2>1. PICK q \in Nat : m = 2 * q \/ m = 2 * q + 1
    BY Halves
  <2>2. FirstDay(2 * q) = q * Pair /\ FirstDay(2 * q + 1) = q * Pair + Long /\ q * Pair \in Nat
    BY FirstDays
  <2>3. q * Pair >= 3 * q
    <3>1. PICK d \in Nat : Pair = 3 + d
      <4>1. Pair - 3 \in Nat /\ Pair = 3 + (Pair - 3)
        BY PairIs
      <4> QED
        BY <4>1
    <3>2. q * Pair = 3 * q + q * d /\ q * d \in Nat
      BY <3>1
    <3> QED
      BY <3>2
  <2> QED
    BY <2>1, <2>2, <2>3, PairIs
<1>2. ASSUME NEW n \in 0 .. day, FirstDay(n) <= day, day < FirstDay(n + 1) PROVE n = m
  <2>1. CASE n < m
    <3>1. FirstDay(n + 1) <= FirstDay(m) /\ FirstDay(n + 1) \in Nat /\ FirstDay(m) \in Nat
      BY <2>1, LaterMonths, MonthsGrow
    <3> QED
      BY <1>2, <3>1
  <2>2. CASE m < n
    <3>1. FirstDay(m + 1) <= FirstDay(n) /\ FirstDay(m + 1) \in Nat /\ FirstDay(n) \in Nat
      BY <2>2, LaterMonths, MonthsGrow
    <3> QED
      BY <1>2, <3>1
  <2> QED
    BY <2>1, <2>2
<1> QED
  BY <1>1, <1>2 DEF MonthOf

LEMMA EveryDayHasAMonth ==
  ASSUME NEW day \in Nat
  PROVE  /\ MonthOf(day) \in Nat /\ FirstDay(MonthOf(day)) <= day
         /\ day < FirstDay(MonthOf(day) + 1)
<1> DEFINE q == day \div Pair
           r == day % Pair
<1>1. q \in Nat /\ r \in Nat /\ r < Pair /\ day = q * Pair + r
  BY PairIs
<1> HIDE DEF q, r
<1>2. /\ FirstDay(2 * q) = q * Pair /\ FirstDay(2 * q + 1) = q * Pair + Long
      /\ FirstDay(2 * q + 2) = (q + 1) * Pair /\ q * Pair \in Nat
      /\ (q + 1) * Pair = q * Pair + Pair
  BY <1>1, FirstDays
<1>3. CASE r < Long
  <2>1. 2 * q \in Nat /\ FirstDay(2 * q) <= day /\ day < FirstDay(2 * q + 1)
    BY <1>1, <1>2, <1>3, PairIs
  <2> QED
    BY <2>1, MonthIs
<1>4. CASE ~(r < Long)
  <2>1. 2 * q + 1 \in Nat /\ FirstDay(2 * q + 1) <= day /\ day < FirstDay(2 * q + 1 + 1)
    BY <1>1, <1>2, <1>4, PairIs
  <2> QED
    BY <2>1, MonthIs
<1> QED
  BY <1>3, <1>4

(* The rest of a division is what it was made of.                          *)
LEMMA Remainders ==
  ASSUME NEW w \in Nat \ {0}, NEW a \in Int, NEW r \in 0 .. w - 1
  PROVE  (a * w + r) % w = r
<1> DEFINE x == a * w + r
           b == x \div w
           e == x % w
<1>1. x \in Int /\ b \in Int /\ e \in 0 .. w - 1 /\ x = b * w + e
  <2>1. x \in Int
    OBVIOUS
  <2> HIDE DEF x
  <2> QED
    BY <2>1
<1>2. a * w + r = b * w + e
  BY <1>1
<1> HIDE DEF x, b, e
<1>3. a * w \in Int /\ b * w \in Int
  BY <1>1
<1>4. CASE a < b
  <2>1. (a + 1) * w <= b * w
    BY <1>1, <1>4, TimesGrows
  <2>2. (a + 1) * w = a * w + w
    OBVIOUS
  <2> QED
    BY <1>1, <1>2, <1>3, <2>1, <2>2
<1>5. CASE b < a
  <2>1. (b + 1) * w <= a * w
    BY <1>1, <1>5, TimesGrows
  <2>2. (b + 1) * w = b * w + w
    BY <1>1
  <2> QED
    BY <1>1, <1>2, <1>3, <2>1, <2>2
<1>6. CASE a = b
  BY <1>1, <1>2, <1>3, <1>6 DEF x, e
<1> QED
  BY <1>1, <1>4, <1>5, <1>6

LEMMA Division ==
  ASSUME NEW w \in Nat \ {0}, NEW x \in Nat
  PROVE  x \div w \in Nat /\ x % w \in 0 .. w - 1 /\ x = (x \div w) * w + (x % w)
  OBVIOUS

(* The instants of a day.                                                  *)
LEMMA Hours ==
  ASSUME NEW t \in Nat
  PROVE  /\ Today(t) \in Nat /\ 2 * Today(t) <= t /\ t <= AtHour(Today(t))
         /\ t % 2 = 1 => t = AtHour(Today(t))
         /\ \A day \in Int : AtHour(day) \in Int /\ AtHour(day) % 2 = 1 /\ Today(AtHour(day)) = day
  BY DEF Today, AtHour

(* An instant in which a schedule runs is at the hour of its day.          *)
LEMMA BetweenDays ==
  ASSUME NEW t \in Nat, NEW day \in Nat, NEW between \in t + 1 .. AtHour(day) - 1,
         between % 2 = 1
  PROVE  /\ Today(between) \in Nat /\ Today(t) <= Today(between) /\ Today(between) < day
         /\ between = AtHour(Today(between)) /\ t < AtHour(Today(between))
  BY DEF Today, AtHour

(* computeNextRun yields the first instant that the schedule names: each   *)
(* day, a day of the week, a day of the month that every month has.        *)
LEMMA DailyIsNext ==
  ASSUME NEW t \in Nat, NEW pattern, pattern.kind = "daily"
  PROVE  NextDaily(t) \in Nat /\ IsNext(pattern, t, NextDaily(t))
<1> DEFINE day == IF AtHour(Today(t)) <= t THEN Today(t) + 1 ELSE Today(t)
<1>1. NextDaily(t) = AtHour(day) /\ day \in Nat
  BY Hours DEF NextDaily
<1>0. Today(t) \in Nat /\ t <= 2 * Today(t) + 1
  BY Hours DEF AtHour
<1>2. AtHour(day) > t /\ AtHour(day) \in Nat
  BY <1>0 DEF AtHour
<1>3. AtHour(day) % 2 = 1
  BY <1>1, Hours
<1>4. ASSUME NEW between \in t + 1 .. AtHour(day) - 1 PROVE between % 2 # 1
  <2> HIDE DEF day
  <2>1. between % 2 = 1 => /\ Today(between) \in Nat /\ Today(t) <= Today(between)
                           /\ Today(between) < day /\ t < AtHour(Today(between))
    BY <1>1, BetweenDays
  <2>2. /\ AtHour(Today(t)) <= t => day = Today(t) + 1
        /\ ~(AtHour(Today(t)) <= t) => day = Today(t)
    BY DEF day
  <2> QED
    BY <1>0, <2>1, <2>2 DEF AtHour
<1> QED
  BY <1>1, <1>2, <1>3, <1>4 DEF IsNext, Names

LEMMA WeeklyIsNext ==
  ASSUME NEW t \in Nat, NEW pattern, pattern.kind = "weekly", pattern.date \in Nat
  PROVE  /\ NextWeekly(t, pattern.date % Week) \in Nat
         /\ IsNext(pattern, t, NextWeekly(t, pattern.date % Week))
<1> DEFINE weekday == pattern.date % Week
           today == Today(t)
           q == today % Week
           a == today \div Week
           until == (weekday - q + Week) % Week
           day == today + IF until = 0 /\ AtHour(today) <= t THEN Week ELSE until
<1>1. Week \in Nat \ {0} /\ weekday \in 0 .. Week - 1
  BY Calendar
<1>2. today \in Nat /\ q \in 0 .. Week - 1 /\ a \in Nat /\ today = a * Week + q
  <2>1. today \in Nat
    BY Hours
  <2> HIDE DEF today
  <2> QED
    BY <1>1, <2>1, Division
<1>3. NextWeekly(t, weekday) = AtHour(day)
  BY DEF NextWeekly
<1> HIDE DEF weekday, today, q, a
<1>4. until = IF weekday < q THEN weekday - q + Week ELSE weekday - q
  <2>1. CASE weekday < q
    <3>1. weekday - q + Week \in 0 .. Week - 1 /\ weekday - q + Week = 0 * Week + (weekday - q + Week)
      BY <1>1, <1>2, <2>1
    <3> QED
      BY <1>1, <2>1, <3>1, Remainders
  <2>2. CASE ~(weekday < q)
    <3>1. weekday - q \in 0 .. Week - 1 /\ weekday - q + Week = 1 * Week + (weekday - q)
      BY <1>1, <1>2, <2>2
    <3>2. (1 * Week + (weekday - q)) % Week = weekday - q
      BY <1>1, <3>1, Remainders
    <3> QED
      BY <2>2, <3>1, <3>2
  <2> QED
    BY <2>1, <2>2
<1> HIDE DEF until
<1>5. until \in 0 .. Week - 1 /\ day \in Nat /\ today <= day
  BY <1>1, <1>2, <1>4
<1>6. (a + 1) * Week = a * Week + Week /\ a * Week \in Int /\ (a + 1) * Week \in Int
      /\ (a + 2) * Week = a * Week + Week + Week
  BY <1>1, <1>2
<1>7. day % Week = weekday
  <2>1. day = a * Week + weekday \/ day = (a + 1) * Week + weekday
    BY <1>1, <1>2, <1>4, <1>6
  <2>2. (a * Week + weekday) % Week = weekday
    BY <1>1, <1>2, Remainders
  <2>3. ((a + 1) * Week + weekday) % Week = weekday
    <3>1. a + 1 \in Int
      BY <1>2
    <3> QED
      BY <1>1, <3>1, Remainders
  <2> QED
    BY <2>1, <2>2, <2>3
<1>8. ASSUME NEW d \in Nat, today <= d, d < day, d % Week = weekday PROVE d = today /\ AtHour(today) <= t
  <2> DEFINE b == d \div Week
  <2>1. b \in Nat /\ d = b * Week + weekday /\ b * Week \in Int
    BY <1>1, <1>8
  <2> HIDE DEF b
  <2>2. CASE b < a
    <3>1. (b + 1) * Week <= a * Week /\ (b + 1) * Week = b * Week + Week
      BY <1>1, <1>2, <2>1, <2>2, TimesGrows
    <3> QED
      BY <1>1, <1>2, <1>6, <1>8, <2>1, <3>1
  <2>3. CASE a < b
    <3>1. (a + 1) * Week <= b * Week
      BY <1>1, <1>2, <2>1, <2>3, TimesGrows
    <3>2. d >= a * Week + Week + weekday
      BY <1>1, <1>6, <2>1, <3>1
    <3> QED
      BY <1>1, <1>2, <1>4, <1>6, <1>8, <3>2
  <2>4. CASE a = b
    BY <1>1, <1>2, <1>4, <1>6, <1>8, <2>1, <2>4
  <2> QED
    BY <1>2, <2>1, <2>2, <2>3, <2>4
<1>9. AtHour(day) > t /\ AtHour(day) \in Nat
  <2>1. today = Today(t) /\ 2 * today <= t /\ t <= AtHour(today)
    BY Hours DEF today
  <2> QED
    BY <1>1, <1>2, <1>5, <2>1 DEF AtHour
<1>10. AtHour(day) % 2 = 1 /\ Today(AtHour(day)) = day
  BY <1>5, Hours
<1> HIDE DEF day
<1>11. ASSUME NEW between \in t + 1 .. AtHour(day) - 1, Names(pattern, between) PROVE FALSE
  <2>1. between % 2 = 1 /\ Today(between) % Week = weekday
    BY <1>11 DEF Names, weekday
  <2>2. /\ Today(between) \in Nat /\ today <= Today(between) /\ Today(between) < day
        /\ t < AtHour(Today(between))
    BY <1>5, <2>1, BetweenDays DEF today
  <2>3. Today(between) = today /\ AtHour(today) <= t
    BY <1>8, <2>1, <2>2
  <2> QED
    BY <1>2, <2>2, <2>3 DEF AtHour
<1>12. Names(pattern, AtHour(day))
  BY <1>7, <1>10 DEF Names, weekday
<1> QED
  BY <1>3, <1>9, <1>11, <1>12 DEF IsNext, weekday

(* A day that only long months have: some later instant.                   *)
LEMMA MonthlyIsLater ==
  ASSUME NEW t \in Nat, NEW pattern, pattern.kind = "monthly", pattern.date \in 1 .. Long
  PROVE  /\ NextMonthly(t, pattern.date) \in Nat /\ NextMonthly(t, pattern.date) > t
         /\ pattern.date <= Short => IsNext(pattern, t, NextMonthly(t, pattern.date))
<1> DEFINE date == pattern.date
           today == Today(t)
           m == MonthOf(today)
           first == SetDate(today, date)
           then == FirstDay(m + 1) + date - 1
           day == IF AtHour(first) <= t THEN SetDate(SetNextMonth(first), date) ELSE first
<1>1. date \in 1 .. Long /\ Short \in Nat /\ Long \in Nat /\ Short >= 1
  BY PairIs
<1>2. today \in Nat /\ 2 * today <= t /\ t <= 2 * today + 1
  BY Hours DEF AtHour
<1> HIDE DEF date, today
<1>3. m \in Nat /\ FirstDay(m) <= today /\ today < FirstDay(m + 1)
  BY <1>2, EveryDayHasAMonth
<1>4. first = FirstDay(m) + date - 1
  BY DEF SetDate
<1> HIDE DEF m, first
<1>5. /\ FirstDay(m) \in Nat /\ FirstDay(m + 1) \in Nat /\ FirstDay(m + 2) \in Nat
      /\ FirstDay(m) + Short <= FirstDay(m + 1) /\ FirstDay(m + 1) + Short <= FirstDay(m + 2)
  <2>1. m + 1 + 1 = m + 2 /\ m + 1 \in Nat
    BY <1>3
  <2> QED
    BY <1>3, <2>1, MonthsGrow
<1>6. first \in Nat /\ FirstDay(m) <= first
  BY <1>1, <1>4, <1>5
<1>7. NextMonthly(t, date) = AtHour(day)
  BY DEF NextMonthly, first, today
(* The month's day is still to come.                                       *)
<1>8. CASE ~(AtHour(first) <= t)
  <2>1. day = first /\ AtHour(first) > t /\ today <= first /\ AtHour(first) \in Nat
    BY <1>2, <1>6, <1>8 DEF AtHour
  <2>2. ASSUME date <= Short PROVE IsNext(pattern, t, AtHour(first))
    <3>1. first < FirstDay(m + 1)
      BY <1>1, <1>4, <1>5, <2>2
    <3>2. ASSUME NEW d \in Nat, today <= d, d <= first PROVE SetDate(d, date) = first
      <4>1. MonthOf(d) = m
        BY <1>2, <1>3, <1>5, <1>6, <3>1, <3>2, MonthIs
      <4> QED
        BY <1>4, <4>1 DEF SetDate
    <3>3. AtHour(first) % 2 = 1 /\ Today(AtHour(first)) = first
      BY <1>6, Hours
    <3>4. SetDate(first, date) = first
      BY <1>6, <2>1, <3>2
    <3>5. ASSUME NEW between \in t + 1 .. AtHour(first) - 1, Names(pattern, between) PROVE FALSE
      <4>1. between % 2 = 1 /\ Today(between) = SetDate(Today(between), date)
        BY <3>5 DEF Names, date
      <4>2. Today(between) \in Nat /\ today <= Today(between) /\ Today(between) < first
        BY <1>6, <4>1, BetweenDays DEF today
      <4>3. SetDate(Today(between), date) = first
        BY <1>6, <3>2, <4>2
      <4> QED
        BY <1>6, <4>1, <4>2, <4>3
    <3>6. Names(pattern, AtHour(first))
      BY <3>3, <3>4 DEF Names, date
    <3> QED
      BY <2>1, <3>5, <3>6 DEF IsNext
  <2> QED
    BY <1>7, <2>1, <2>2 DEF date
(* It has passed: the day of the next month, or of the one after it.       *)
<1>9. CASE AtHour(first) <= t
  <2>1. first <= today /\ day = SetDate(SetNextMonth(first), date)
    BY <1>2, <1>6, <1>9 DEF AtHour
  <2>2. MonthOf(first) = m
    BY <1>2, <1>3, <1>5, <1>6, <2>1, MonthIs
  <2>3. SetNextMonth(first) = then /\ then \in Nat /\ FirstDay(m + 1) <= then
    BY <1>1, <1>4, <1>5, <2>2 DEF SetNextMonth
  <2> DEFINE n == MonthOf(then)
  <2>4. n \in Nat /\ FirstDay(n) <= then /\ then < FirstDay(n + 1) /\ FirstDay(n) \in Nat
        /\ FirstDay(n + 1) \in Nat
    BY <2>3, EveryDayHasAMonth, MonthsGrow
  <2>5. day = FirstDay(n) + date - 1
    BY <2>1, <2>3 DEF SetDate
  <2> HIDE DEF n, then
  <2>6. m < n
    <3>1. CASE n <= m
      <4>1. FirstDay(n + 1) <= FirstDay(m + 1)
        <5>1. CASE n = m
          BY <1>5, <5>1
        <5>2. CASE n < m
          <6>1. FirstDay(n + 1) <= FirstDay(m)
            BY <1>3, <2>4, <5>2, LaterMonths
          <6> QED
            BY <1>1, <1>5, <2>4, <6>1
        <5> QED
          BY <1>3, <2>4, <3>1, <5>1, <5>2
      <4> QED
        BY <1>5, <2>3, <2>4, <4>1
    <3> QED
      BY <1>3, <2>4, <3>1
  <2>7. FirstDay(m + 1) <= FirstDay(n)
    BY <1>3, <2>4, <2>6, LaterMonths
  <2>8. day \in Nat /\ today < day /\ AtHour(day) \in Nat /\ AtHour(day) > t
    <3> HIDE DEF day
    <3>1. day \in Nat /\ today < day
      BY <1>1, <1>2, <1>3, <1>5, <2>4, <2>5, <2>7
    <3> QED
      BY <1>2, <3>1 DEF AtHour
  <2>9. ASSUME date <= Short PROVE IsNext(pattern, t, AtHour(day))
    <3>1. then < FirstDay(m + 2)
      BY <1>1, <1>5, <2>9 DEF then
    <3>2. n = m + 1 /\ day = then
      <4>1. m + 1 \in Nat /\ m + 1 + 1 = m + 2
        BY <1>3
      <4>2. n = m + 1
        BY <2>3, <3>1, <4>1, MonthIs DEF n
      <4> HIDE DEF day
      <4> QED
        BY <2>5, <4>2 DEF then
    <3>3. first < FirstDay(m + 1)
      BY <1>1, <1>4, <1>5, <2>9
    <3> HIDE DEF day
    <3>4. ASSUME NEW d \in Nat, today <= d, d <= day, d = SetDate(d, date)
          PROVE  d = day \/ d = first
      <4>1. CASE d < FirstDay(m + 1)
        <5>1. MonthOf(d) = m
          BY <1>2, <1>3, <1>5, <3>4, <4>1, MonthIs
        <5> QED
          BY <1>4, <3>4, <5>1 DEF SetDate
      <4>2. CASE ~(d < FirstDay(m + 1))
        <5>1. m + 1 \in Nat /\ m + 1 + 1 = m + 2
          BY <1>3
        <5>2. d < FirstDay(m + 2)
          BY <1>5, <2>3, <3>1, <3>2, <3>4
        <5>3. MonthOf(d) = m + 1
          BY <1>5, <4>2, <5>1, <5>2, MonthIs
        <5> QED
          BY <3>2, <3>4, <5>3 DEF SetDate, then
      <4> QED
        BY <4>1, <4>2
    <3>5. AtHour(day) % 2 = 1 /\ Today(AtHour(day)) = day
      BY <2>8, Hours
    <3>6. SetDate(day, date) = day
      BY <2>5, <3>2 DEF SetDate, n
    <3>7. ASSUME NEW between \in t + 1 .. AtHour(day) - 1, Names(pattern, between) PROVE FALSE
      <4>1. between % 2 = 1 /\ Today(between) = SetDate(Today(between), date)
        BY <3>7 DEF Names, date
      <4>2. /\ Today(between) \in Nat /\ today <= Today(between) /\ Today(between) < day
            /\ t < AtHour(Today(between))
        BY <2>8, <4>1, BetweenDays DEF today
      <4>3. Today(between) = first
        BY <2>8, <3>4, <4>1, <4>2
      <4> QED
        BY <1>6, <1>9, <4>2, <4>3 DEF AtHour
    <3>8. Names(pattern, AtHour(day))
      BY <3>5, <3>6 DEF Names, date
    <3> QED
      BY <2>8, <3>7, <3>8 DEF IsNext
  <2> QED
    BY <1>7, <2>8, <2>9 DEF date
<1> QED
  BY <1>8, <1>9

-----------------------------------------------------------------------------
(* The page.                                                               *)

Pattern == [kind: {"daily", "weekly", "monthly", "event"}, date: 1 .. Long]
PageRow   == [made: BOOLEAN, pattern: Pattern, fragile: BOOLEAN,
          status: {"active", "paused", "failed"}, next: Nat, total: Nat]
PageOps   == {"pause", "resume", "delete", "create", "trigger"}
PageTimer == [op: PageOps, id: ScheduleIds, with: PageRow]

PageTyped ==
  /\ schedules \in [ScheduleIds -> PageRow] /\ logged \in [ScheduleIds -> Nat]
  /\ timers \in Seq(PageTimer) /\ clock \in Nat /\ beat \in Nat
  /\ given \subseteq ScheduleIds /\ asked \in [ScheduleIds -> {"active", "paused"}]
  /\ triggering \in ScheduleIds \cup {NoSchedule} /\ broken \subseteq ScheduleIds

(* The next run a schedule shows.                                          *)
Due(pattern, t, next) ==
  IF pattern.kind = "monthly" /\ pattern.date > Short THEN next > t
  ELSE IsNext(pattern, t, next)

RowAgrees(s) ==
  LET row == schedules[s]
  IN /\ s \in given /\ row.total = logged[s]
     /\ ~InProgress({"pause", "resume"}, s) => row.status \in {asked[s], "failed"}
     /\ row.status = "failed" => row.fragile
     /\ row.status = "active" /\ row.pattern.kind # "event" =>
          /\ row.next # 0
          /\ beat = clock => Due(row.pattern, clock, row.next)

ScheduleAgrees(s) ==
  /\ schedules[s].made => RowAgrees(s)
  /\ ~schedules[s].made => schedules[s] = NoRow /\ (logged[s] > 0 => s \in overtaken)
  /\ s \in broken => schedules[s].status = "failed" /\ ~InProgress({"pause", "resume"}, s)
  /\ s \notin given => /\ logged[s] = 0 /\ asked[s] = "active"
                       /\ \A k \in DOMAIN timers : timers[k].id # s

(* An operation under way is of a schedule that was given; its creation is *)
(* the only one it has, and a trigger outlives it only if it was deleted.  *)
TimerAgrees(k) ==
  LET s == timers[k].id
  IN /\ s \in given
     /\ timers[k].op = "create" =>
          /\ ~schedules[s].made /\ logged[s] = 0 /\ asked[s] = "active"
          /\ timers[k].with.status = "active" /\ timers[k].with.total = 0
          /\ \A j \in DOMAIN timers : j # k => timers[j].id # s
     /\ timers[k].op = "trigger" /\ ~schedules[s].made => s \in overtaken

(* Pauses and resumes end in the order they were started: the last one     *)
(* under way is the one that was asked for last.                           *)
Asks(k, s) == timers[k].op \in {"pause", "resume"} /\ timers[k].id = s

LastAsked(s) ==
  \A k \in DOMAIN timers :
    Asks(k, s) /\ (\A j \in DOMAIN timers : j > k => ~Asks(j, s)) =>
      asked[s] = IF timers[k].op = "pause" THEN "paused" ELSE "active"

SpinsWithReason == triggering # NoSchedule => InProgress({"trigger"}, triggering)

PageInv ==
  /\ PageTyped /\ SpinsWithReason
  /\ \A s \in ScheduleIds : ScheduleAgrees(s) /\ LastAsked(s)
  /\ \A k \in DOMAIN timers : TimerAgrees(k)

(* The next run is due whenever it has been computed.                      *)
LEMMA NextRuns ==
  ASSUME NEW t \in Nat, NEW pattern \in Pattern
  PROVE  /\ computeNextRun(t, pattern) \in Nat
         /\ pattern.kind # "event" => /\ computeNextRun(t, pattern) # 0
                                      /\ Due(pattern, t, computeNextRun(t, pattern))
<1> DEFINE next == computeNextRun(t, pattern)
<1>1. pattern.kind \in {"daily", "weekly", "monthly", "event"} /\ pattern.date \in 1 .. Long
      /\ pattern.date \in Nat
  BY PairIs DEF Pattern
<1>2. CASE pattern.kind = "daily"
  <2>1. next = NextDaily(t)
    BY <1>2 DEF computeNextRun
  <2>2. next \in Nat /\ IsNext(pattern, t, next)
    BY <1>2, <2>1, DailyIsNext
  <2>3. next # 0 /\ Due(pattern, t, next)
    <3> HIDE DEF next
    <3> QED
      BY <1>2, <2>2 DEF Due, IsNext
  <2> QED
    BY <2>2, <2>3
<1>3. CASE pattern.kind = "weekly"
  <2>1. next = NextWeekly(t, pattern.date % Week)
    BY <1>3 DEF computeNextRun
  <2>2. next \in Nat /\ IsNext(pattern, t, next)
    BY <1>1, <1>3, <2>1, WeeklyIsNext
  <2>3. next # 0 /\ Due(pattern, t, next)
    <3> HIDE DEF next
    <3> QED
      BY <1>3, <2>2 DEF Due, IsNext
  <2> QED
    BY <2>2, <2>3
<1>4. CASE pattern.kind = "monthly"
  <2>1. next = NextMonthly(t, pattern.date)
    BY <1>4 DEF computeNextRun
  <2>2. next \in Nat /\ next > t /\ (pattern.date <= Short => IsNext(pattern, t, next))
    BY <1>1, <1>4, <2>1, MonthlyIsLater
  <2>3. pattern.date > Short \/ pattern.date <= Short
    BY <1>1, PairIs
  <2>4. next # 0 /\ Due(pattern, t, next)
    <3> HIDE DEF next
    <3> QED
      BY <1>4, <2>2, <2>3 DEF Due
  <2> QED
    BY <2>2, <2>4
<1>5. CASE pattern.kind = "event"
  BY <1>5 DEF computeNextRun
<1> QED
  BY <1>1, <1>2, <1>3, <1>4, <1>5

LEMMA NoRowIsRow == NoRow \in PageRow /\ ~NoRow.made /\ NoRow.status = "active"
<1>1. 1 \in 1 .. Long
  BY PairIs
<1> QED
  BY <1>1 DEF NoRow, PageRow, Pattern

LEMMA PageInitOK == ScheduleInit => PageInv
<1> SUFFICES ASSUME ScheduleInit PROVE PageInv
  OBVIOUS
<1>1. clock \in Nat /\ PageTyped
  BY NoRowIsRow, PageBounds DEF ScheduleInit, PageTyped
<1>2. \A s \in ScheduleIds : ScheduleAgrees(s) /\ LastAsked(s)
  BY NoRowIsRow DEF ScheduleInit, ScheduleAgrees, LastAsked
<1> QED
  BY <1>1, <1>2 DEF ScheduleInit, PageInv, SpinsWithReason

(* A timer is started, behind the others.                                  *)
LEMMA LaunchMoves ==
  ASSUME PageTyped, NEW x \in PageTimer, timers' = Append(timers, x)
  PROVE  /\ timers' \in Seq(PageTimer) /\ DOMAIN timers' = DOMAIN timers \cup {Len(timers) + 1}
         /\ \A k \in DOMAIN timers : timers'[k] = timers[k] /\ k < Len(timers) + 1
         /\ timers'[Len(timers) + 1] = x
         /\ \A ops, s : InProgress(ops, s)' <=> InProgress(ops, s) \/ (x.op \in ops /\ x.id = s)
<1>1. /\ timers' \in Seq(PageTimer) /\ DOMAIN timers' = DOMAIN timers \cup {Len(timers) + 1}
      /\ \A k \in DOMAIN timers : timers'[k] = timers[k] /\ k < Len(timers) + 1
      /\ timers'[Len(timers) + 1] = x
  BY DEF PageTyped
<1>2. \A ops, s : InProgress(ops, s)' <=> InProgress(ops, s) \/ (x.op \in ops /\ x.id = s)
  BY <1>1 DEF InProgress
<1> QED
  BY <1>1, <1>2

(* A timer ends: the others move up.                                       *)
LEMMA EndMoves ==
  ASSUME PageTyped, NEW k \in DOMAIN timers, NEW op, Ends(k, op)
  PROVE  /\ timers' \in Seq(PageTimer)
         /\ \A j \in DOMAIN timers' :
              LET i == IF j < k THEN j ELSE j + 1
              IN i \in DOMAIN timers \ {k} /\ timers'[j] = timers[i]
         /\ \A i \in DOMAIN timers \ {k} :
              LET j == IF i < k THEN i ELSE i - 1
              IN j \in DOMAIN timers' /\ timers'[j] = timers[i]
<1>1. /\ timers' = SubSeq(timers, 1, k - 1) \o SubSeq(timers, k + 1, Len(timers))
      /\ k \in 1 .. Len(timers) /\ Len(timers) \in Nat /\ timers \in Seq(PageTimer)
  BY DEF Ends, RemoveAt, PageTyped
<1> DEFINE a == SubSeq(timers, 1, k - 1)
           b == SubSeq(timers, k + 1, Len(timers))
<1>2. /\ a \in Seq(PageTimer) /\ Len(a) = k - 1
      /\ \A j \in 1 .. k - 1 : a[j] = timers[j]
  BY <1>1
<1>3. /\ b \in Seq(PageTimer) /\ Len(b) = Len(timers) - k
      /\ \A j \in 1 .. Len(timers) - k : b[j] = timers[k + j]
  BY <1>1
<1>4. timers' = a \o b
  BY <1>1
<1> HIDE DEF a, b
<1>5. /\ timers' \in Seq(PageTimer) /\ Len(timers') = Len(timers) - 1
      /\ \A j \in 1 .. Len(timers) - 1 : timers'[j] = IF j < k THEN a[j] ELSE b[j - k + 1]
  <2>1. Len(a) + Len(b) = Len(timers) - 1 /\ Len(timers) \in Nat /\ k \in 1 .. Len(timers)
    BY <1>1, <1>2, <1>3
  <2>2. /\ timers' \in Seq(PageTimer) /\ Len(timers') = Len(a) + Len(b)
        /\ \A j \in 1 .. Len(a) + Len(b) :
             timers'[j] = IF j <= Len(a) THEN a[j] ELSE b[j - Len(a)]
    BY <1>2, <1>3, <1>4, ConcatProperties
  <2>3. \A j \in 1 .. Len(timers) - 1 :
          /\ j <= k - 1 <=> j < k
          /\ j - (k - 1) = j - k + 1
    BY <2>1
  <2> QED
    BY <1>2, <2>1, <2>2, <2>3
<1>6. DOMAIN timers' = 1 .. Len(timers) - 1 /\ DOMAIN timers = 1 .. Len(timers)
  BY <1>1, <1>5
<1>7. ASSUME NEW j \in 1 .. Len(timers) - 1
      PROVE  timers'[j] = IF j < k THEN timers[j] ELSE timers[j + 1]
  <2>1. CASE j < k
    BY <1>1, <1>2, <1>5, <2>1
  <2>2. CASE ~(j < k)
    <3>1. j - k + 1 \in 1 .. Len(timers) - k /\ k + (j - k + 1) = j + 1
      BY <1>1, <2>2
    <3>2. b[j - k + 1] = timers[k + (j - k + 1)]
      BY <1>3, <3>1
    <3> QED
      BY <1>5, <2>2, <3>1, <3>2
  <2> QED
    BY <2>1, <2>2
<1>8. ASSUME NEW j \in DOMAIN timers'
      PROVE  LET i == IF j < k THEN j ELSE j + 1
             IN i \in DOMAIN timers \ {k} /\ timers'[j] = timers[i]
  <2>1. j \in 1 .. Len(timers) - 1
    BY <1>6
  <2>2. CASE j < k
    BY <1>1, <1>6, <1>7, <2>1, <2>2
  <2>3. CASE ~(j < k)
    <3>1. j + 1 \in 1 .. Len(timers) /\ j + 1 # k
      BY <1>1, <2>1, <2>3
    <3>2. timers'[j] = timers[j + 1]
      BY <1>7, <2>1, <2>3
    <3> QED
      BY <1>6, <2>3, <3>1, <3>2
  <2> QED
    BY <2>2, <2>3
<1>9. ASSUME NEW i \in DOMAIN timers \ {k}
      PROVE  LET j == IF i < k THEN i ELSE i - 1
             IN j \in DOMAIN timers' /\ timers'[j] = timers[i]
  <2>1. CASE i < k
    BY <1>1, <1>6, <1>7, <2>1
  <2>2. CASE ~(i < k)
    <3>1. i - 1 \in 1 .. Len(timers) - 1 /\ ~(i - 1 < k) /\ i - 1 + 1 = i
      BY <1>1, <1>6, <2>2
    <3>2. timers'[i - 1] = timers[i - 1 + 1]
      BY <1>7, <3>1
    <3> QED
      BY <1>6, <2>2, <3>1, <3>2
  <2> QED
    BY <2>1, <2>2
<1> QED
  BY <1>5, <1>8, <1>9

(* A timer that is not a pause or resume of the schedule is started.       *)
LEMMA PausesRest ==
  ASSUME PageInv, NEW x \in PageTimer, timers' = Append(timers, x), NEW u \in ScheduleIds,
         ~(x.op \in {"pause", "resume"} /\ x.id = u), asked'[u] = asked[u]
  PROVE  /\ InProgress({"pause", "resume"}, u)' <=> InProgress({"pause", "resume"}, u)
         /\ LastAsked(u)'
<1>1. /\ DOMAIN timers' = DOMAIN timers \cup {Len(timers) + 1}
      /\ \A k \in DOMAIN timers : timers'[k] = timers[k] /\ k < Len(timers) + 1
      /\ timers'[Len(timers) + 1] = x
      /\ InProgress({"pause", "resume"}, u)' <=>
           InProgress({"pause", "resume"}, u) \/ (x.op \in {"pause", "resume"} /\ x.id = u)
  BY LaunchMoves DEF PageInv
<1>2. LastAsked(u)'
  <2> SUFFICES ASSUME NEW k \in DOMAIN timers', Asks(k, u)',
                      \A j \in DOMAIN timers' : j > k => ~Asks(j, u)'
               PROVE  asked'[u] = IF timers'[k].op = "pause" THEN "paused" ELSE "active"
    BY DEF LastAsked
  <2>1. k \in DOMAIN timers /\ timers'[k] = timers[k]
    BY <1>1 DEF Asks
  <2>2. Asks(k, u) /\ \A j \in DOMAIN timers : j > k => ~Asks(j, u)
    BY <1>1, <2>1 DEF Asks
  <2>3. LastAsked(u)
    BY DEF PageInv
  <2> QED
    BY <2>1, <2>2, <2>3 DEF LastAsked
<1> QED
  BY <1>1, <1>2

LEMMA SaveKeeps == ASSUME PageInv, Save PROVE PageInv'
<1>1. PICK s \in ScheduleIds, p \in Patterns, fragile \in BOOLEAN :
        /\ s \notin given /\ given' = given \cup {s}
        /\ timers' = Append(timers, [op |-> "create", id |-> s,
                                     with |-> [NoRow EXCEPT !.pattern = p, !.fragile = fragile]])
  BY DEF Save, Launch
<1> DEFINE x == [op |-> "create", id |-> s,
                 with |-> [NoRow EXCEPT !.pattern = p, !.fragile = fragile]]
<1>2. /\ x \in PageTimer /\ x.op = "create" /\ x.id = s /\ x.with.status = "active" /\ x.with.total = 0
  <2>1. p \in Pattern
    BY PatternsKnown DEF Pattern
  <2>2. 1 \in 1 .. Long
    BY PairIs
  <2> QED
    BY <2>1, <2>2 DEF PageTimer, PageOps, PageRow, Pattern, NoRow
<1>3. timers' = Append(timers, x)
  BY <1>1
<1>4. UNCHANGED <<schedules, logged, triggering, clock, beat, asked, broken, overtaken>>
  BY DEF Save, scheduleHistory
<1>5. PageTyped
  BY DEF PageInv
<1> HIDE DEF x
<1>6. /\ timers' \in Seq(PageTimer) /\ DOMAIN timers' = DOMAIN timers \cup {Len(timers) + 1}
      /\ \A k \in DOMAIN timers : timers'[k] = timers[k] /\ k < Len(timers) + 1
      /\ timers'[Len(timers) + 1] = x
      /\ \A ops, u : InProgress(ops, u)' <=> InProgress(ops, u) \/ (x.op \in ops /\ x.id = u)
  BY <1>2, <1>3, <1>5, LaunchMoves
<1>7. PageTyped'
  BY <1>1, <1>4, <1>5, <1>6 DEF PageTyped
<1>8. SpinsWithReason'
  BY <1>4, <1>6 DEF PageInv, SpinsWithReason
<1>9. ASSUME NEW u \in ScheduleIds PROVE ScheduleAgrees(u)' /\ LastAsked(u)'
  <2>1. (InProgress({"pause", "resume"}, u)' <=> InProgress({"pause", "resume"}, u)) /\ LastAsked(u)'
    BY <1>2, <1>3, <1>4, PausesRest
  <2>2. ScheduleAgrees(u)
    BY DEF PageInv
  <2>3. u \notin given' => u \notin given /\ \A k \in DOMAIN timers' : timers'[k].id # u
    BY <1>1, <1>2, <1>6, <2>2 DEF ScheduleAgrees
  <2>4. u \notin given' => logged'[u] = 0 /\ asked'[u] = "active"
    BY <1>4, <2>2, <2>3 DEF ScheduleAgrees
  <2>5. schedules'[u].made => RowAgrees(u)'
    BY <1>1, <1>4, <2>1, <2>2 DEF ScheduleAgrees, RowAgrees
  <2> QED
    BY <1>4, <2>1, <2>2, <2>3, <2>4, <2>5 DEF ScheduleAgrees
<1>10. ASSUME NEW k \in DOMAIN timers' PROVE TimerAgrees(k)'
  <2>1. \A j \in DOMAIN timers : timers[j].id # s /\ timers[j].id \in given
    BY <1>1 DEF PageInv, ScheduleAgrees, TimerAgrees
  <2>2. CASE k \in DOMAIN timers
    <3>1. TimerAgrees(k) /\ timers'[k] = timers[k] /\ timers[k].id # s /\ timers[k].id \in given
      BY <1>6, <2>1, <2>2 DEF PageInv
    <3>2. timers[k].op = "create" => \A j \in DOMAIN timers' : j # k => timers'[j].id # timers[k].id
      BY <1>2, <1>6, <3>1 DEF TimerAgrees
    <3> QED
      BY <1>1, <1>4, <3>1, <3>2 DEF TimerAgrees
  <2>3. CASE k = Len(timers) + 1
    <3>1. timers'[k] = x
      BY <1>6, <2>3
    <3>2. \A j \in DOMAIN timers' : j # k => timers'[j].id # s
      BY <1>6, <2>1, <2>3
    <3>3. ScheduleAgrees(s)
      BY DEF PageInv
    <3>4. ~schedules[s].made /\ logged[s] = 0 /\ asked[s] = "active"
      BY <1>1, <3>3 DEF ScheduleAgrees, RowAgrees
    <3> QED
      BY <1>1, <1>2, <1>4, <3>1, <3>2, <3>4 DEF TimerAgrees
  <2> QED
    BY <1>6, <2>2, <2>3
<1> QED
  BY <1>7, <1>8, <1>9, <1>10 DEF PageInv

(* A click on a schedule that is listed starts a timer of it.              *)
LEMMA ClickKeeps ==
  ASSUME PageInv, NEW s \in ScheduleIds, schedules[s].made, NEW x \in PageTimer, x.id = s,
         timers' = Append(timers, x), x.op # "create",
         UNCHANGED <<schedules, logged, clock, beat, given, broken, overtaken>>,
         asked' \in [ScheduleIds -> {"active", "paused"}],
         \A u \in ScheduleIds \ {s} : asked'[u] = asked[u],
         IF x.op \in {"pause", "resume"}
         THEN asked'[s] = (IF x.op = "pause" THEN "paused" ELSE "active")
              /\ schedules[s].status # "failed"
         ELSE asked'[s] = asked[s],
         triggering' = triggering \/ (triggering' = s /\ x.op = "trigger")
  PROVE  PageInv'
<1>1. PageTyped
  BY DEF PageInv
<1>2. /\ timers' \in Seq(PageTimer) /\ DOMAIN timers' = DOMAIN timers \cup {Len(timers) + 1}
      /\ \A k \in DOMAIN timers : timers'[k] = timers[k] /\ k < Len(timers) + 1
      /\ timers'[Len(timers) + 1] = x
      /\ \A ops, u : InProgress(ops, u)' <=> InProgress(ops, u) \/ (x.op \in ops /\ x.id = u)
  BY <1>1, LaunchMoves
<1>3. PageTyped'
  BY <1>1, <1>2 DEF PageTyped
<1>4. SpinsWithReason'
  BY <1>2 DEF PageInv, SpinsWithReason
<1>5. s \in given /\ ScheduleAgrees(s)
  BY DEF PageInv, ScheduleAgrees, RowAgrees
<1>6. ASSUME NEW u \in ScheduleIds, u # s \/ x.op \notin {"pause", "resume"}
      PROVE  ScheduleAgrees(u)' /\ LastAsked(u)'
  <2>1. asked'[u] = asked[u]
    BY <1>6
  <2>2. (InProgress({"pause", "resume"}, u)' <=> InProgress({"pause", "resume"}, u)) /\ LastAsked(u)'
    BY <1>6, <2>1, PausesRest
  <2>3. ScheduleAgrees(u)
    BY DEF PageInv
  <2>4. u \notin given => \A k \in DOMAIN timers' : timers'[k].id # u
    BY <1>2, <1>5, <2>3 DEF ScheduleAgrees
  <2>5. schedules'[u].made => RowAgrees(u)'
    BY <2>1, <2>2, <2>3 DEF ScheduleAgrees, RowAgrees
  <2> QED
    BY <2>1, <2>2, <2>3, <2>4, <2>5 DEF ScheduleAgrees
<1>7. ASSUME x.op \in {"pause", "resume"} PROVE ScheduleAgrees(s)' /\ LastAsked(s)'
  <2>1. InProgress({"pause", "resume"}, s)'
    BY <1>2, <1>7
  <2>2. ScheduleAgrees(s)'
    BY <1>5, <1>7, <2>1 DEF ScheduleAgrees, RowAgrees
  <2>3. LastAsked(s)'
    <3> SUFFICES ASSUME NEW k \in DOMAIN timers', Asks(k, s)',
                        \A j \in DOMAIN timers' : j > k => ~Asks(j, s)'
                 PROVE  asked'[s] = IF timers'[k].op = "pause" THEN "paused" ELSE "active"
      BY DEF LastAsked
    <3>0. PICK last : last = Len(timers) + 1
      OBVIOUS
    <3>1. last \in DOMAIN timers' /\ Asks(last, s)'
      BY <1>2, <1>7, <3>0 DEF Asks
    <3>2. k = Len(timers) + 1
      BY <1>2, <3>0, <3>1
    <3> QED
      BY <1>2, <1>7, <3>2
  <2> QED
    BY <2>2, <2>3
<1>8. ASSUME NEW k \in DOMAIN timers' PROVE TimerAgrees(k)'
  <2>1. CASE k \in DOMAIN timers
    <3>1. TimerAgrees(k) /\ timers'[k] = timers[k]
      BY <1>2, <2>1 DEF PageInv
    <3>2. timers[k].op = "create" => timers[k].id # s
      BY <3>1 DEF TimerAgrees
    <3>3. timers[k].op = "create" => \A j \in DOMAIN timers' : j # k => timers'[j].id # timers[k].id
      BY <1>2, <3>1, <3>2 DEF TimerAgrees
    <3>4. timers[k].id \in ScheduleIds
      <4>1. timers[k] \in PageTimer
        BY <1>1, <2>1 DEF PageTyped
      <4> QED
        BY <4>1 DEF PageTimer
    <3> QED
      BY <3>1, <3>2, <3>3, <3>4 DEF TimerAgrees
  <2>2. CASE k = Len(timers) + 1
    BY <1>2, <1>5, <2>2 DEF TimerAgrees
  <2> QED
    BY <1>2, <2>1, <2>2
<1> QED
  BY <1>3, <1>4, <1>6, <1>7, <1>8 DEF PageInv

LEMMA ClicksKeep ==
  ASSUME PageInv, NEW s \in ScheduleIds, ClickStatus(s) \/ ClickDelete(s) \/ ClickTrigger(s)
  PROVE  PageInv'
<1>1. schedules[s].made /\ PageTyped /\ schedules[s] \in PageRow /\ NoRow \in PageRow
  BY NoRowIsRow DEF ClickStatus, ClickDelete, ClickTrigger, Listed, PageInv, PageTyped
<1>2. CASE ClickStatus(s)
  <2>1. PICK op \in {"pause", "resume"} :
          /\ timers' = Append(timers, [op |-> op, id |-> s, with |-> NoRow])
          /\ asked' = [asked EXCEPT ![s] = IF op = "pause" THEN "paused" ELSE "active"]
          /\ schedules[s].status # "failed"
          /\ UNCHANGED <<schedules, logged, triggering, clock, beat, given, broken, overtaken>>
    BY <1>2 DEF ClickStatus, Launch
  <2> DEFINE x == [op |-> op, id |-> s, with |-> NoRow]
  <2>2. x \in PageTimer /\ x.op = op /\ x.id = s
    BY <1>1 DEF PageTimer, PageOps
  <2>3. /\ asked' \in [ScheduleIds -> {"active", "paused"}]
        /\ \A u \in ScheduleIds \ {s} : asked'[u] = asked[u]
        /\ asked'[s] = IF op = "pause" THEN "paused" ELSE "active"
    BY <1>1, <2>1 DEF PageTyped
  <2>4. timers' = Append(timers, x) /\ x.op # "create" /\ x.op \in {"pause", "resume"}
    BY <2>1
  <2> HIDE DEF x
  <2> QED
    BY <1>1, <2>1, <2>2, <2>3, <2>4, ClickKeeps
<1>3. CASE ClickDelete(s) \/ ClickTrigger(s)
  <2>1. PICK op \in {"delete", "trigger"}, row \in PageRow :
          /\ timers' = Append(timers, [op |-> op, id |-> s, with |-> row])
          /\ triggering' = triggering \/ (triggering' = s /\ op = "trigger")
          /\ UNCHANGED <<schedules, logged, clock, beat, given, asked, broken, overtaken>>
    BY <1>1, <1>3 DEF ClickDelete, ClickTrigger, Launch, scheduleHistory
  <2> DEFINE x == [op |-> op, id |-> s, with |-> row]
  <2>2. x \in PageTimer /\ x.op = op /\ x.id = s
    BY <1>1 DEF PageTimer, PageOps
  <2>3. asked' \in [ScheduleIds -> {"active", "paused"}]
    BY <1>1, <2>1 DEF PageTyped
  <2>4. timers' = Append(timers, x) /\ x.op # "create" /\ x.op \notin {"pause", "resume"}
    BY <2>1
  <2> HIDE DEF x
  <2> QED
    BY <1>1, <2>1, <2>2, <2>3, <2>4, ClickKeeps
<1> QED
  BY <1>2, <1>3

(* A timer has ended.                                                      *)
LEMMA EndRests ==
  ASSUME PageInv, NEW k \in DOMAIN timers, NEW op, Ends(k, op), asked' = asked
  PROVE  /\ timers' \in Seq(PageTimer) /\ timers[k] \in PageTimer /\ timers[k].op = op
         /\ \A ops, u : op \notin ops \/ timers[k].id # u =>
              (InProgress(ops, u)' <=> InProgress(ops, u))
         /\ \A u \in ScheduleIds : LastAsked(u)'
         /\ \A u : op \in {"pause", "resume"} /\ timers[k].id = u
                    /\ ~InProgress({"pause", "resume"}, u)' =>
              asked[u] = IF op = "pause" THEN "paused" ELSE "active"
<1>1. PageTyped /\ \A u \in ScheduleIds : LastAsked(u)
  BY DEF PageInv
<1>2. /\ timers' \in Seq(PageTimer)
      /\ \A j \in DOMAIN timers' :
           LET i == IF j < k THEN j ELSE j + 1
           IN i \in DOMAIN timers \ {k} /\ timers'[j] = timers[i]
      /\ \A i \in DOMAIN timers \ {k} :
           LET j == IF i < k THEN i ELSE i - 1
           IN j \in DOMAIN timers' /\ timers'[j] = timers[i]
  BY <1>1, EndMoves
<1>3. DOMAIN timers \subseteq Nat /\ DOMAIN timers' \subseteq Nat /\ timers[k] \in PageTimer
      /\ \A j \in DOMAIN timers : timers[j] \in PageTimer
  BY <1>1, <1>2 DEF PageTyped
<1>4. timers[k].op = op
  BY DEF Ends
<1>5. \A ops, u : op \notin ops \/ timers[k].id # u => (InProgress(ops, u)' <=> InProgress(ops, u))
  BY <1>2, <1>4 DEF InProgress
<1>6. op \in {"pause", "resume"} => \A j \in DOMAIN timers : j < k => timers[j].op \notin {"pause", "resume"}
  <2> SUFFICES ASSUME op \in {"pause", "resume"}, NEW j \in DOMAIN timers, j < k,
                      timers[j].op \in {"pause", "resume"}
               PROVE  FALSE
    OBVIOUS
  <2>1. j \in 1 .. k - 1
    BY <1>1, <1>3 DEF PageTyped
  <2>2. Delay[timers[j].op] > Delay[op]
    BY <2>1 DEF Ends
  <2> QED
    BY <2>2 DEF Delay
<1>7. ASSUME NEW u \in ScheduleIds PROVE LastAsked(u)'
  <2> SUFFICES ASSUME NEW j \in DOMAIN timers', Asks(j, u)',
                      \A h \in DOMAIN timers' : h > j => ~Asks(h, u)'
               PROVE  asked[u] = IF timers'[j].op = "pause" THEN "paused" ELSE "active"
    BY DEF LastAsked
  <2>1. PICK i \in DOMAIN timers \ {k} : i = (IF j < k THEN j ELSE j + 1) /\ timers'[j] = timers[i]
    BY <1>2
  <2>2. Asks(i, u)
    BY <2>1 DEF Asks
  <2>3. i < k \/ k < i
    BY <1>3, <2>1
  <2>4. ASSUME NEW h \in DOMAIN timers, h > i PROVE ~Asks(h, u)
    <3>1. CASE h = k
      BY <1>4, <1>6, <2>1, <2>2, <2>4, <3>1 DEF Asks
    <3>2. CASE h # k
      <4>1. PICK g \in DOMAIN timers' : g = (IF h < k THEN h ELSE h - 1) /\ timers'[g] = timers[h]
        BY <1>2, <3>2
      <4>2. g > j
        BY <1>3, <2>1, <2>3, <2>4, <3>2, <4>1
      <4> QED
        BY <4>1, <4>2 DEF Asks
    <3> QED
      BY <3>1, <3>2
  <2> QED
    BY <1>1, <2>1, <2>2, <2>4 DEF LastAsked
<1>8. ASSUME NEW u, op \in {"pause", "resume"}, timers[k].id = u,
             ~InProgress({"pause", "resume"}, u)'
      PROVE  asked[u] = IF op = "pause" THEN "paused" ELSE "active"
  <2>2. u \in ScheduleIds
    BY <1>3, <1>8 DEF PageTimer
  <2>3. ASSUME NEW h \in DOMAIN timers, h > k PROVE ~Asks(h, u)
    <3>1. PICK g \in DOMAIN timers' : timers'[g] = timers[h]
      BY <1>2, <1>3, <2>3
    <3>2. ~(timers'[g].op \in {"pause", "resume"} /\ timers'[g].id = u)
      BY <1>8, <3>1 DEF InProgress
    <3> QED
      BY <3>1, <3>2 DEF Asks
  <2>4. Asks(k, u)
    BY <1>4, <1>8 DEF Asks
  <2> QED
    BY <1>1, <1>4, <2>2, <2>3, <2>4 DEF LastAsked
<1> QED
  BY <1>2, <1>3, <1>4, <1>5, <1>7, <1>8

(* The timers that are left when one has ended.                            *)
LEMMA EndTimers ==
  ASSUME PageInv, NEW k \in DOMAIN timers, NEW op, Ends(k, op), UNCHANGED <<given, asked>>,
         \A i \in DOMAIN timers \ {k} :
           /\ timers[i].op = "create" =>
                ~schedules'[timers[i].id].made /\ logged'[timers[i].id] = logged[timers[i].id]
           /\ timers[i].op = "trigger" /\ ~schedules'[timers[i].id].made => timers[i].id \in overtaken'
  PROVE  \A j \in DOMAIN timers' : TimerAgrees(j)'
<1>1. PageTyped /\ \A u \in ScheduleIds : LastAsked(u)
  BY DEF PageInv
<1>2. /\ timers' \in Seq(PageTimer)
      /\ \A j \in DOMAIN timers' :
           LET i == IF j < k THEN j ELSE j + 1
           IN i \in DOMAIN timers \ {k} /\ timers'[j] = timers[i]
  BY <1>1, EndMoves
<1>3. DOMAIN timers' \subseteq Nat /\ k \in Nat
  BY <1>1, <1>2 DEF PageTyped
<1> SUFFICES ASSUME NEW j \in DOMAIN timers' PROVE TimerAgrees(j)'
  OBVIOUS
<1>4. PICK i \in DOMAIN timers \ {k} : i = (IF j < k THEN j ELSE j + 1) /\ timers'[j] = timers[i]
  BY <1>2
<1>5. TimerAgrees(i)
  BY DEF PageInv
<1>6. ASSUME timers[i].op = "create", NEW h \in DOMAIN timers', h # j PROVE timers'[h].id # timers[i].id
  <2>1. PICK g \in DOMAIN timers \ {k} : g = (IF h < k THEN h ELSE h + 1) /\ timers'[h] = timers[g]
    BY <1>2
  <2>2. g # i
    BY <1>3, <1>4, <1>6, <2>1
  <2> QED
    BY <1>5, <1>6, <2>1, <2>2 DEF TimerAgrees
<1> QED
  BY <1>4, <1>5, <1>6 DEF TimerAgrees

LEMMA EndSpins ==
  ASSUME PageInv, NEW k \in DOMAIN timers, NEW op, Ends(k, op), asked' = asked,
         op # "trigger", triggering' = triggering
  PROVE  SpinsWithReason'
<1>1. InProgress({"trigger"}, triggering)' <=> InProgress({"trigger"}, triggering)
  <2>1. op \notin {"trigger"}
    OBVIOUS
  <2>2. PICK u : u = triggering
    OBVIOUS
  <2>3. InProgress({"trigger"}, u)' <=> InProgress({"trigger"}, u)
    BY <2>1, EndRests
  <2> QED
    BY <2>2, <2>3 DEF InProgress
<1> QED
  BY <1>1 DEF PageInv, SpinsWithReason

(* A schedule that the end of a timer leaves alone.                        *)
LEMMA EndLeaves ==
  ASSUME PageInv, NEW k \in DOMAIN timers, NEW op, Ends(k, op),
         UNCHANGED <<given, asked, clock, beat>>, NEW u \in ScheduleIds,
         op \notin {"pause", "resume"} \/ timers[k].id # u,
         schedules'[u] = schedules[u], logged'[u] = logged[u],
         u \in broken' => u \in broken, u \in overtaken => u \in overtaken'
  PROVE  ScheduleAgrees(u)'
<1>1. ScheduleAgrees(u) /\ PageTyped
  BY DEF PageInv
<1>2. InProgress({"pause", "resume"}, u)' <=> InProgress({"pause", "resume"}, u)
  BY EndRests
<1>3. u \notin given => \A j \in DOMAIN timers' : timers'[j].id # u
  <2>1. \A j \in DOMAIN timers' : \E i \in DOMAIN timers : timers'[j] = timers[i]
    BY <1>1, EndMoves
  <2> QED
    BY <1>1, <2>1 DEF ScheduleAgrees
<1>4. schedules'[u].made => RowAgrees(u)'
  BY <1>1, <1>2 DEF ScheduleAgrees, RowAgrees
<1> QED
  BY <1>1, <1>2, <1>3, <1>4 DEF ScheduleAgrees

LEMMA EndCreateKeeps == ASSUME PageInv, NEW k \in DOMAIN timers, EndCreate(k) PROVE PageInv'
<1> DEFINE row  == timers[k].with
           next == computeNextRun(clock, row.pattern)
           created == [row EXCEPT !.made = TRUE, !.next = next]
<1>0. PICK s : s = timers[k].id
  OBVIOUS
<1>1. /\ Ends(k, "create") /\ schedules' = [schedules EXCEPT ![s] = created]
      /\ UNCHANGED <<logged, triggering, clock, beat, given, asked, broken, overtaken>>
  BY <1>0 DEF EndCreate, scheduleHistory
<1>2. PageTyped /\ TimerAgrees(k) /\ timers[k].op = "create"
  BY <1>1 DEF PageInv, Ends
<1>3. /\ timers' \in Seq(PageTimer) /\ timers[k] \in PageTimer /\ \A u \in ScheduleIds : LastAsked(u)'
  BY <1>1, EndRests
<1>4. /\ row \in PageRow /\ s \in ScheduleIds /\ s \in given /\ ~schedules[s].made /\ logged[s] = 0
      /\ asked[s] = "active" /\ row.status = "active" /\ row.total = 0
      /\ \A j \in DOMAIN timers : j # k => timers[j].id # s
  BY <1>0, <1>2, <1>3 DEF TimerAgrees, PageTimer
<1>5. /\ next \in Nat
      /\ row.pattern.kind # "event" => next # 0 /\ Due(row.pattern, clock, next)
  <2>1. row.pattern \in Pattern /\ clock \in Nat
    BY <1>2, <1>4 DEF PageTyped, PageRow
  <2> QED
    BY <2>1, NextRuns
<1> HIDE DEF next
<1>6. /\ created \in PageRow /\ created.made /\ created.status = "active" /\ created.total = 0
      /\ created.next = next /\ created.pattern = row.pattern
  BY <1>4, <1>5 DEF PageRow
<1> HIDE DEF created, row
<1>7. schedules'[s] = created /\ \A u \in ScheduleIds \ {s} : schedules'[u] = schedules[u]
  BY <1>1, <1>2, <1>4 DEF PageTyped
<1>8. PageTyped'
  BY <1>1, <1>2, <1>3, <1>6 DEF PageTyped
<1>9. ScheduleAgrees(s)'
  <2>1. ScheduleAgrees(s)
    BY <1>4 DEF PageInv
  <2>2. s \notin broken
    BY <1>4, <2>1, NoRowIsRow DEF ScheduleAgrees
  <2>3. RowAgrees(s)'
    BY <1>1, <1>4, <1>5, <1>6, <1>7 DEF RowAgrees
  <2> QED
    BY <1>1, <1>4, <1>6, <1>7, <2>2, <2>3 DEF ScheduleAgrees
<1>10. ASSUME NEW u \in ScheduleIds \ {s} PROVE ScheduleAgrees(u)'
  BY <1>0, <1>1, <1>7, EndLeaves
<1>11. \A j \in DOMAIN timers' : TimerAgrees(j)'
  <2>1. ASSUME NEW i \in DOMAIN timers \ {k}
        PROVE  /\ timers[i].op = "create" =>
                    ~schedules'[timers[i].id].made /\ logged'[timers[i].id] = logged[timers[i].id]
               /\ timers[i].op = "trigger" /\ ~schedules'[timers[i].id].made =>
                    timers[i].id \in overtaken'
    <3>1. TimerAgrees(i) /\ timers[i].id \in ScheduleIds \ {s}
      <4>1. timers[i] \in PageTimer
        BY <1>2 DEF PageTyped
      <4> QED
        BY <1>4, <4>1 DEF PageInv, PageTimer
    <3> QED
      BY <1>1, <1>7, <3>1 DEF TimerAgrees
  <2> QED
    BY <1>1, <2>1, EndTimers
<1>12. SpinsWithReason'
  BY <1>1, EndSpins
<1> QED
  BY <1>3, <1>8, <1>9, <1>10, <1>11, <1>12 DEF PageInv

LEMMA EndStatusKeeps ==
  ASSUME PageInv, NEW k \in DOMAIN timers, EndPause(k) \/ EndResume(k)
  PROVE  PageInv'
<1>0. PICK s : s = timers[k].id
  OBVIOUS
<1>1. PICK op \in {"pause", "resume"} :
        /\ Ends(k, op)
        /\ schedules' = IF s \notin Listed THEN schedules
                        ELSE IF op = "pause" THEN [schedules EXCEPT ![s].status = "paused"]
                        ELSE [schedules EXCEPT ![s].status = "active",
                                ![s].next = computeNextRun(clock, schedules[s].pattern)]
        /\ UNCHANGED <<logged, triggering, clock, beat, given, asked, broken, overtaken>>
  <2>1. CASE EndPause(k)
    <3>1. \E op \in {"pause"} :
        /\ Ends(k, op)
        /\ schedules' = IF s \notin Listed THEN schedules
                        ELSE [schedules EXCEPT ![s].status = "paused"]
        /\ UNCHANGED <<logged, triggering, clock, beat, given, asked, broken, overtaken>>
      BY <1>0, <2>1 DEF EndPause, scheduleHistory
    <3> QED
      BY <3>1
  <2>2. CASE EndResume(k)
    <3>1. \E op \in {"resume"} :
        /\ Ends(k, op)
        /\ schedules' = IF s \notin Listed THEN schedules
                        ELSE [schedules EXCEPT ![s].status = "active",
                                ![s].next = computeNextRun(clock, schedules[s].pattern)]
        /\ UNCHANGED <<logged, triggering, clock, beat, given, asked, broken, overtaken>>
      BY <1>0, <2>2 DEF EndResume, scheduleHistory
    <3> QED
      BY <3>1
  <2> QED
    BY <2>1, <2>2
<1>2. PageTyped /\ TimerAgrees(k)
  BY DEF PageInv
<1>3. /\ timers' \in Seq(PageTimer) /\ timers[k] \in PageTimer /\ \A u \in ScheduleIds : LastAsked(u)'
      /\ timers[k].op = op
      /\ ~InProgress({"pause", "resume"}, s)' =>
           asked[s] = IF op = "pause" THEN "paused" ELSE "active"
  BY <1>0, <1>1, EndRests
<1>4. s \in ScheduleIds /\ s \in given /\ ScheduleAgrees(s) /\ schedules[s] \in PageRow
  BY <1>0, <1>2, <1>3 DEF TimerAgrees, PageTimer, PageInv, PageTyped
<1>5. InProgress({"pause", "resume"}, s)
  BY <1>0, <1>3 DEF InProgress
<1> DEFINE row  == schedules[s]
           next == computeNextRun(clock, row.pattern)
<1>6. /\ next \in Nat
      /\ row.pattern.kind # "event" => next # 0 /\ Due(row.pattern, clock, next)
  <2>1. row.pattern \in Pattern /\ clock \in Nat
    BY <1>2, <1>4 DEF PageTyped, PageRow
  <2> QED
    BY <2>1, NextRuns
<1> HIDE DEF next
<1>7. PICK r \in PageRow :
        /\ schedules' = [schedules EXCEPT ![s] = r]
        /\ r.made = row.made /\ r.pattern = row.pattern /\ r.total = row.total
        /\ r.fragile = row.fragile
        /\ ~row.made => r = row
        /\ row.made => r.status = (IF op = "pause" THEN "paused" ELSE "active")
                       /\ (op = "resume" => r.next = next)
  <2>1. CASE s \notin Listed
    <3>1. schedules' = [schedules EXCEPT ![s] = row] /\ ~row.made
      BY <1>1, <1>2, <1>4, <2>1 DEF PageTyped, Listed
    <3> QED
      BY <1>4, <3>1
  <2>2. CASE s \in Listed /\ op = "pause"
    <3> DEFINE r == [row EXCEPT !.status = "paused"]
    <3>1. /\ r \in PageRow /\ r.made = row.made /\ r.pattern = row.pattern /\ r.total = row.total
          /\ r.fragile = row.fragile /\ r.status = "paused"
      BY <1>4 DEF PageRow
    <3>2. schedules' = [schedules EXCEPT ![s] = r] /\ row.made
      BY <1>1, <2>2 DEF Listed
    <3> HIDE DEF r
    <3> QED
      BY <2>2, <3>1, <3>2
  <2>3. CASE s \in Listed /\ op = "resume"
    <3> DEFINE r == [row EXCEPT !.status = "active", !.next = next]
    <3>1. /\ r \in PageRow /\ r.made = row.made /\ r.pattern = row.pattern /\ r.total = row.total
          /\ r.fragile = row.fragile /\ r.status = "active" /\ r.next = next
      BY <1>4, <1>6 DEF PageRow
    <3>2. schedules' = [schedules EXCEPT ![s] = r] /\ row.made
      <4>1. schedules' = [schedules EXCEPT ![s].status = "active", ![s].next = next] /\ row.made
        BY <1>1, <2>3 DEF Listed, next
      <4>2. [schedules EXCEPT ![s].status = "active", ![s].next = next] = [schedules EXCEPT ![s] = r]
        BY <1>2, <1>4 DEF PageTyped
      <4> QED
        BY <4>1, <4>2
    <3> HIDE DEF r
    <3> QED
      BY <2>3, <3>1, <3>2
  <2> QED
    BY <2>1, <2>2, <2>3
<1>8. schedules'[s] = r /\ \A u \in ScheduleIds \ {s} : schedules'[u] = schedules[u]
  BY <1>2, <1>4, <1>7 DEF PageTyped
<1>9. PageTyped'
  BY <1>1, <1>2, <1>3, <1>7 DEF PageTyped
<1>10. ScheduleAgrees(s)'
  <2>1. s \notin broken
    BY <1>4, <1>5 DEF ScheduleAgrees
  <2>2. ASSUME r.made PROVE RowAgrees(s)'
    <3>1. row.made /\ row.total = logged[s]
      BY <1>4, <1>7, <2>2 DEF ScheduleAgrees, RowAgrees
    <3>2. r.status # "failed" /\ (r.status = "active" => op = "resume")
      BY <1>7, <3>1
    <3>3. ~InProgress({"pause", "resume"}, s)' => r.status = asked[s]
      BY <1>3, <1>7, <3>1
    <3> QED
      BY <1>1, <1>4, <1>6, <1>7, <1>8, <3>1, <3>2, <3>3 DEF RowAgrees
  <2> QED
    BY <1>1, <1>4, <1>7, <1>8, <2>1, <2>2 DEF ScheduleAgrees
<1>11. ASSUME NEW u \in ScheduleIds \ {s} PROVE ScheduleAgrees(u)'
  BY <1>0, <1>1, <1>8, EndLeaves
<1>12. \A j \in DOMAIN timers' : TimerAgrees(j)'
  <2>1. ASSUME NEW i \in DOMAIN timers \ {k}
        PROVE  /\ timers[i].op = "create" =>
                    ~schedules'[timers[i].id].made /\ logged'[timers[i].id] = logged[timers[i].id]
               /\ timers[i].op = "trigger" /\ ~schedules'[timers[i].id].made =>
                    timers[i].id \in overtaken'
    <3>1. TimerAgrees(i) /\ timers[i].id \in ScheduleIds
      <4>1. timers[i] \in PageTimer
        BY <1>2 DEF PageTyped
      <4> QED
        BY <4>1 DEF PageInv, PageTimer
    <3>2. schedules'[timers[i].id].made = schedules[timers[i].id].made
      BY <1>7, <1>8, <3>1
    <3> QED
      BY <1>1, <3>1, <3>2 DEF TimerAgrees
  <2> QED
    BY <1>1, <2>1, EndTimers
<1>13. SpinsWithReason'
  BY <1>1, EndSpins
<1> QED
  BY <1>3, <1>9, <1>10, <1>11, <1>12, <1>13 DEF PageInv

LEMMA EndDeleteKeeps == ASSUME PageInv, NEW k \in DOMAIN timers, EndDelete(k) PROVE PageInv'
<1>0. PICK s : s = timers[k].id
  OBVIOUS
<1>1. /\ Ends(k, "delete") /\ schedules' = [schedules EXCEPT ![s] = NoRow]
      /\ logged' = [logged EXCEPT ![s] = 0] /\ broken' = broken \ {s}
      /\ overtaken' = IF InProgress({"trigger"}, s) THEN overtaken \cup {s} ELSE overtaken
      /\ UNCHANGED <<triggering, clock, beat, given, asked>>
  BY <1>0 DEF EndDelete
<1>2. PageTyped /\ TimerAgrees(k)
  BY DEF PageInv
<1>3. /\ timers' \in Seq(PageTimer) /\ timers[k] \in PageTimer /\ \A u \in ScheduleIds : LastAsked(u)'
      /\ timers[k].op = "delete"
  BY <1>1, EndRests
<1>4. s \in ScheduleIds /\ s \in given
  BY <1>0, <1>2, <1>3 DEF TimerAgrees, PageTimer
<1>5. /\ schedules'[s] = NoRow /\ \A u \in ScheduleIds \ {s} : schedules'[u] = schedules[u]
      /\ logged'[s] = 0 /\ \A u \in ScheduleIds \ {s} : logged'[u] = logged[u]
  BY <1>1, <1>2, <1>4 DEF PageTyped
<1>6. PageTyped'
  BY <1>1, <1>2, <1>3, NoRowIsRow DEF PageTyped
<1>7. ScheduleAgrees(s)'
  BY <1>1, <1>4, <1>5, NoRowIsRow DEF ScheduleAgrees
<1>8. ASSUME NEW u \in ScheduleIds \ {s} PROVE ScheduleAgrees(u)'
  BY <1>0, <1>1, <1>5, EndLeaves
<1>9. \A j \in DOMAIN timers' : TimerAgrees(j)'
  <2>1. ASSUME NEW i \in DOMAIN timers \ {k}
        PROVE  /\ timers[i].op = "create" =>
                    ~schedules'[timers[i].id].made /\ logged'[timers[i].id] = logged[timers[i].id]
               /\ timers[i].op = "trigger" /\ ~schedules'[timers[i].id].made =>
                    timers[i].id \in overtaken'
    <3>1. TimerAgrees(i) /\ timers[i].id \in ScheduleIds
      <4>1. timers[i] \in PageTimer
        BY <1>2 DEF PageTyped
      <4> QED
        BY <4>1 DEF PageInv, PageTimer
    <3>2. CASE timers[i].id = s
      <4>1. timers[i].op = "trigger" => s \in overtaken'
        BY <1>1, <3>2 DEF InProgress
      <4>2. timers[i].op = "create" => logged[s] = 0
        BY <3>1, <3>2 DEF TimerAgrees
      <4> QED
        BY <1>5, <3>2, <4>1, <4>2, NoRowIsRow
    <3>3. CASE timers[i].id # s
      BY <1>1, <1>5, <3>1, <3>3 DEF TimerAgrees
    <3> QED
      BY <3>2, <3>3
  <2> QED
    BY <1>1, <2>1, EndTimers
<1>10. SpinsWithReason'
  BY <1>1, EndSpins
<1> QED
  BY <1>3, <1>6, <1>7, <1>8, <1>9, <1>10 DEF PageInv

LEMMA EndTriggerKeeps == ASSUME PageInv, NEW k \in DOMAIN timers, EndTrigger(k) PROVE PageInv'
<1>0. PICK s : s = timers[k].id
  OBVIOUS
<1> DEFINE row == schedules[s]
<1>1. PICK success \in BOOLEAN :
        /\ Ends(k, "trigger") /\ logged' = [logged EXCEPT ![s] = @ + 1] /\ triggering' = NoSchedule
        /\ IF ~row.made THEN UNCHANGED <<schedules, broken>>
           ELSE /\ schedules' = [schedules EXCEPT ![s] =
                     [row EXCEPT !.total = @ + 1,
                                 !.status = StatusAfter(timers[k].with, row, success)]]
                /\ broken' = IF ~success /\ row.fragile /\ ~InProgress({"pause", "resume"}, s)
                             THEN broken \cup {s} ELSE broken
        /\ UNCHANGED <<clock, beat, given, asked, overtaken>>
  <2>1. timers[k] \in PageTimer
    BY DEF PageInv, PageTyped
  <2>2. s \in Listed <=> row.made
    BY <1>0, <2>1 DEF Listed, PageTimer
  <2> QED
    BY <1>0, <2>2 DEF EndTrigger
<1>2. PageTyped /\ TimerAgrees(k)
  BY DEF PageInv
<1>3. /\ timers' \in Seq(PageTimer) /\ timers[k] \in PageTimer /\ \A u \in ScheduleIds : LastAsked(u)'
      /\ timers[k].op = "trigger"
      /\ InProgress({"pause", "resume"}, s)' <=> InProgress({"pause", "resume"}, s)
  <2>1. "trigger" \notin {"pause", "resume"}
    OBVIOUS
  <2> QED
    BY <1>1, <2>1, EndRests
<1>4. s \in ScheduleIds /\ s \in given /\ ScheduleAgrees(s) /\ row \in PageRow /\ logged[s] \in Nat
      /\ (~row.made => s \in overtaken)
  BY <1>0, <1>2, <1>3 DEF TimerAgrees, PageTimer, PageInv, PageTyped
<1>5. PICK r \in PageRow :
        /\ schedules' = [schedules EXCEPT ![s] = r]
        /\ r.made = row.made /\ r.pattern = row.pattern /\ r.fragile = row.fragile
        /\ ~row.made => r = row
        /\ r.next = row.next
        /\ row.made => /\ r.total = row.total + 1
                       /\ r.status = IF ~success /\ row.fragile THEN "failed" ELSE row.status
  <2>1. CASE ~row.made
    <3>1. schedules' = [schedules EXCEPT ![s] = row]
      BY <1>1, <1>2, <1>4, <2>1 DEF PageTyped
    <3> QED
      BY <1>4, <2>1, <3>1
  <2>2. CASE row.made
    <3> DEFINE status == StatusAfter(timers[k].with, row, success)
               total == row.total + 1
               r == [row EXCEPT !.total = total, !.status = status]
    <3>1. status = (IF ~success /\ row.fragile THEN "failed" ELSE row.status)
          /\ status \in {"active", "paused", "failed"}
      BY <1>4 DEF StatusAfter, PageRow
    <3>2. schedules' = [schedules EXCEPT ![s] = r]
      BY <1>1, <2>2
    <3>0. total \in Nat /\ total = row.total + 1
      BY <1>4 DEF PageRow
    <3> HIDE DEF status, total
    <3>3. /\ r \in PageRow /\ r.made = row.made /\ r.pattern = row.pattern /\ r.fragile = row.fragile
          /\ r.next = row.next /\ r.total = total /\ r.status = status
      BY <1>4, <3>0, <3>1 DEF PageRow
    <3> HIDE DEF r
    <3> QED
      BY <2>2, <3>0, <3>1, <3>2, <3>3
  <2> QED
    BY <2>1, <2>2
<1>6. /\ schedules'[s] = r /\ \A u \in ScheduleIds \ {s} : schedules'[u] = schedules[u]
      /\ logged'[s] = logged[s] + 1 /\ \A u \in ScheduleIds \ {s} : logged'[u] = logged[u]
  BY <1>1, <1>2, <1>4, <1>5 DEF PageTyped
<1>7. PageTyped'
  <2>1. schedules' \in [ScheduleIds -> PageRow] /\ broken' \subseteq ScheduleIds
    BY <1>1, <1>2, <1>4, <1>5 DEF PageTyped
  <2>2. logged' \in [ScheduleIds -> Nat]
    BY <1>1, <1>2, <1>4 DEF PageTyped
  <2> QED
    BY <1>1, <1>2, <1>3, <2>1, <2>2 DEF PageTyped
<1>8. ScheduleAgrees(s)'
  <2>1. ASSUME r.made PROVE RowAgrees(s)'
    <3>1. RowAgrees(s) /\ row.made
      BY <1>4, <1>5, <2>1 DEF ScheduleAgrees
    <3>2. /\ r.total = logged'[s]
          /\ ~InProgress({"pause", "resume"}, s)' => r.status \in {asked[s], "failed"}
          /\ r.status = "failed" => r.fragile
          /\ r.status = "active" => row.status = "active"
      BY <1>3, <1>5, <1>6, <3>1 DEF RowAgrees
    <3> QED
      BY <1>1, <1>4, <1>5, <1>6, <3>1, <3>2 DEF RowAgrees
  <2>2. ~r.made => r = NoRow /\ s \in overtaken'
    BY <1>1, <1>4, <1>5 DEF ScheduleAgrees
  <2>3. s \in broken' => r.status = "failed" /\ ~InProgress({"pause", "resume"}, s)'
    <3>1. s \in broken => row.status = "failed" /\ row.made /\ ~InProgress({"pause", "resume"}, s)
      BY <1>4, NoRowIsRow DEF ScheduleAgrees
    <3> QED
      BY <1>1, <1>3, <1>5, <3>1
  <2> QED
    BY <1>1, <1>4, <1>6, <2>1, <2>2, <2>3 DEF ScheduleAgrees
<1>9. ASSUME NEW u \in ScheduleIds \ {s} PROVE ScheduleAgrees(u)'
  <2>1. u \in broken' => u \in broken
    BY <1>1
  <2> QED
    BY <1>0, <1>1, <1>6, <2>1, EndLeaves
<1>10. \A j \in DOMAIN timers' : TimerAgrees(j)'
  <2>1. ASSUME NEW i \in DOMAIN timers \ {k}
        PROVE  /\ timers[i].op = "create" =>
                    ~schedules'[timers[i].id].made /\ logged'[timers[i].id] = logged[timers[i].id]
               /\ timers[i].op = "trigger" /\ ~schedules'[timers[i].id].made =>
                    timers[i].id \in overtaken'
    <3>1. TimerAgrees(i) /\ timers[i].id \in ScheduleIds
      <4>1. timers[i] \in PageTimer
        BY <1>2 DEF PageTyped
      <4> QED
        BY <4>1 DEF PageInv, PageTimer
    <3>2. schedules'[timers[i].id].made = schedules[timers[i].id].made
      BY <1>5, <1>6, <3>1
    <3>3. timers[i].op = "create" => timers[i].id # s
      BY <1>0, <3>1 DEF TimerAgrees
    <3> QED
      BY <1>1, <1>6, <3>1, <3>2, <3>3 DEF TimerAgrees
  <2> QED
    BY <1>1, <2>1, EndTimers
<1>11. SpinsWithReason'
  BY <1>1 DEF SpinsWithReason
<1> QED
  BY <1>3, <1>7, <1>8, <1>9, <1>10, <1>11 DEF PageInv

(* Time passes, and the heartbeat follows.                                 *)
LEMMA TimeKeeps ==
  ASSUME PageInv, NEW fresh \in BOOLEAN,
         UNCHANGED <<logged, triggering, timers, given, asked, broken, overtaken>>,
         schedules' \in [ScheduleIds -> PageRow], clock' \in Nat, beat' \in Nat,
         \A s \in ScheduleIds :
           /\ schedules'[s] = [schedules[s] EXCEPT !.next = schedules'[s].next]
           /\ ~schedules[s].made => schedules'[s] = schedules[s]
           /\ schedules[s].made /\ schedules[s].status = "active"
              /\ schedules[s].pattern.kind # "event" =>
                /\ schedules'[s].next # 0
                /\ beat' = clock' => Due(schedules[s].pattern, clock', schedules'[s].next)
  PROVE  PageInv'
<1>1. PageTyped' /\ SpinsWithReason'
  BY DEF PageInv, PageTyped, SpinsWithReason, InProgress
<1>2. ASSUME NEW s \in ScheduleIds PROVE ScheduleAgrees(s)' /\ LastAsked(s)'
  <2>1. LastAsked(s)' /\ (InProgress({"pause", "resume"}, s)' <=> InProgress({"pause", "resume"}, s))
    BY DEF PageInv, LastAsked, Asks, InProgress
  <2>2. ScheduleAgrees(s) /\ schedules[s] \in PageRow
    BY DEF PageInv, PageTyped
  <2>3. /\ schedules'[s].made = schedules[s].made /\ schedules'[s].pattern = schedules[s].pattern
        /\ schedules'[s].fragile = schedules[s].fragile /\ schedules'[s].total = schedules[s].total
        /\ schedules'[s].status = schedules[s].status
    BY <2>2 DEF PageRow
  <2>4. schedules[s].made => RowAgrees(s)'
    BY <2>1, <2>2, <2>3 DEF ScheduleAgrees, RowAgrees
  <2> QED
    BY <2>1, <2>2, <2>3, <2>4 DEF ScheduleAgrees
<1>3. ASSUME NEW k \in DOMAIN timers PROVE TimerAgrees(k)'
  <2>1. TimerAgrees(k) /\ timers[k].id \in ScheduleIds
    <3>1. timers[k] \in PageTimer
      BY DEF PageInv, PageTyped
    <3> QED
      BY <3>1 DEF PageInv, PageTimer
  <2>2. schedules'[timers[k].id].made = schedules[timers[k].id].made
    BY <2>1 DEF PageInv, PageTyped, PageRow
  <2> QED
    BY <2>1, <2>2 DEF TimerAgrees
<1> QED
  BY <1>1, <1>2, <1>3 DEF PageInv

LEMMA HalfDayKeeps == ASSUME PageInv, HalfDay PROVE PageInv'
<1>1. /\ PageTyped /\ beat = clock /\ clock' = clock + 1
      /\ UNCHANGED <<schedules, logged, triggering, timers, beat, given, asked, broken, overtaken>>
  BY DEF PageInv, HalfDay, scheduleHistory
<1>2. schedules' \in [ScheduleIds -> PageRow] /\ clock' \in Nat /\ beat' \in Nat /\ beat' # clock'
  BY <1>1 DEF PageTyped
<1>3. ASSUME NEW s \in ScheduleIds
      PROVE  /\ schedules'[s] = [schedules[s] EXCEPT !.next = schedules'[s].next]
             /\ schedules[s].made /\ schedules[s].status = "active"
                /\ schedules[s].pattern.kind # "event" => schedules'[s].next # 0
  <2>1. ScheduleAgrees(s) /\ schedules[s] \in PageRow
    BY <1>1 DEF PageInv, PageTyped
  <2> QED
    BY <1>1, <2>1 DEF ScheduleAgrees, RowAgrees, PageRow
<1> QED
  BY <1>1, <1>2, <1>3, TimeKeeps

LEMMA HeartbeatKeeps == ASSUME PageInv, Heartbeat PROVE PageInv'
<1> DEFINE next(s) == computeNextRun(clock, schedules[s].pattern)
           row(s)  == IF schedules[s].made /\ schedules[s].status = "active" /\ schedules[s].next # 0
                      THEN [schedules[s] EXCEPT !.next = next(s)] ELSE schedules[s]
<1>1. /\ PageTyped /\ beat' = clock
      /\ schedules' = [s \in ScheduleIds |-> row(s)]
      /\ UNCHANGED <<logged, triggering, timers, clock, given, asked, broken, overtaken>>
  BY DEF PageInv, Heartbeat, scheduleHistory, Listed
<1>2. ASSUME NEW s \in ScheduleIds
      PROVE  /\ row(s) \in PageRow /\ row(s) = [schedules[s] EXCEPT !.next = row(s).next]
             /\ ~schedules[s].made => row(s) = schedules[s]
             /\ schedules[s].made /\ schedules[s].status = "active"
                /\ schedules[s].pattern.kind # "event" =>
                     row(s).next # 0 /\ Due(schedules[s].pattern, clock, row(s).next)
  <2>1. ScheduleAgrees(s) /\ schedules[s] \in PageRow /\ clock \in Nat
    BY <1>1 DEF PageInv, PageTyped
  <2>2. /\ next(s) \in Nat
        /\ schedules[s].pattern.kind # "event" =>
             next(s) # 0 /\ Due(schedules[s].pattern, clock, next(s))
    <3>1. schedules[s].pattern \in Pattern
      BY <2>1 DEF PageRow
    <3> QED
      BY <2>1, <3>1, NextRuns
  <2> HIDE DEF next
  <2>3. CASE schedules[s].made /\ schedules[s].status = "active" /\ schedules[s].next # 0
    <3> DEFINE r == [schedules[s] EXCEPT !.next = next(s)]
    <3>1. r \in PageRow /\ r.next = next(s) /\ r = [schedules[s] EXCEPT !.next = r.next]
      BY <2>1, <2>2 DEF PageRow
    <3>2. row(s) = r
      BY <2>3
    <3> HIDE DEF r, row
    <3> QED
      BY <2>2, <2>3, <3>1, <3>2
  <2>4. CASE ~(schedules[s].made /\ schedules[s].status = "active" /\ schedules[s].next # 0)
    <3>1. row(s) = schedules[s] /\ schedules[s] = [schedules[s] EXCEPT !.next = schedules[s].next]
      BY <2>1, <2>4 DEF PageRow
    <3>2. ~(schedules[s].made /\ schedules[s].status = "active"
            /\ schedules[s].pattern.kind # "event")
      BY <2>1, <2>4 DEF ScheduleAgrees, RowAgrees
    <3> HIDE DEF row
    <3> QED
      BY <2>1, <3>1, <3>2
  <2> QED
    BY <2>3, <2>4
<1> HIDE DEF row, next
<1>3. \A s \in ScheduleIds : schedules'[s] = row(s)
  BY <1>1
<1>4. schedules' \in [ScheduleIds -> PageRow] /\ clock' \in Nat /\ beat' \in Nat
  BY <1>1, <1>2 DEF PageTyped
<1> QED
  BY <1>1, <1>2, <1>3, <1>4, TimeKeeps

LEMMA PageStep == PageInv /\ [ScheduleNext]_scheduleVars => PageInv'
<1> SUFFICES ASSUME PageInv, [ScheduleNext]_scheduleVars PROVE PageInv'
  OBVIOUS
<1>1. CASE UNCHANGED scheduleVars
  <2>1. UNCHANGED <<schedules, logged, triggering, timers, clock, beat, given, asked, broken, overtaken>>
    BY <1>1 DEF scheduleVars, scheduleHistory
  <2> QED
    BY <2>1 DEF PageInv, PageTyped, SpinsWithReason, InProgress, ScheduleAgrees, RowAgrees,
                LastAsked, Asks, TimerAgrees
<1>2. CASE ScheduleNext
  BY <1>2, SaveKeeps, HalfDayKeeps, HeartbeatKeeps, ClicksKeep, EndCreateKeeps, EndStatusKeeps,
     EndDeleteKeeps, EndTriggerKeeps DEF ScheduleNext
<1> QED
  BY <1>1, <1>2

(* Whatever is clicked on the schedule page while timers run, for every    *)
(* number of schedules and of clicks and for every length of the weeks and *)
(* months: what is counted is what is listed, a status is the one last     *)
(* asked for or a failure, nothing spins without a timer, and an active    *)
(* schedule shows the first instant it names.                              *)
THEOREM PageIsRight == SchedulePageSpec => []PageAgrees
<1>1. PageInv => PageAgrees
  <2> SUFFICES ASSUME PageInv PROVE PageAgrees
    OBVIOUS
  <2>1. ASSUME NEW s \in Listed
        PROVE  LET row == schedules[s]
               IN /\ row.total = logged[s]
                  /\ ~InProgress({"pause", "resume"}, s) => row.status \in {asked[s], "failed"}
                  /\ row.status = "failed" => row.fragile
                  /\ row.status = "active" /\ row.pattern.kind # "event" /\ beat = clock =>
                       IF row.pattern.kind = "monthly" /\ row.pattern.date > Short
                       THEN row.next > clock
                       ELSE IsNext(row.pattern, clock, row.next)
    BY DEF Listed, PageInv, ScheduleAgrees, RowAgrees, Due
  <2>2. PageTyped /\ \A s \in ScheduleIds \ Listed : logged[s] > 0 => s \in overtaken
    BY DEF Listed, PageInv, ScheduleAgrees
  <2>3. \A s \in broken : schedules[s].status = "failed"
    BY DEF PageInv, PageTyped, ScheduleAgrees
  <2>4. triggering # NoSchedule => InProgress({"trigger"}, triggering)
    BY DEF PageInv, SpinsWithReason
  <2> QED
    BY <2>1, <2>2, <2>3, <2>4 DEF PageAgrees
<1> QED
  BY <1>1, PageInitOK, PageStep, PTL DEF SchedulePageSpec

(* The schedules, the timers and the spinner keep their types.             *)
THEOREM PageIsTyped == SchedulePageSpec => []PageTypeOK
<1>1. PageInv => PageTypeOK
  <2> SUFFICES ASSUME PageInv PROVE PageTypeOK
    OBVIOUS
  <2>1. PageTyped
    BY DEF PageInv
  <2>2. \A k \in DOMAIN timers : timers[k].op \in DOMAIN Delay
    <3>1. \A k \in DOMAIN timers : timers[k] \in PageTimer
      BY <2>1 DEF PageTyped
    <3>2. DOMAIN Delay = PageOps
      BY DEF Delay, PageOps
    <3> QED
      BY <3>1, <3>2 DEF PageTimer
  <2>3. \A s \in ScheduleIds : /\ schedules[s].status \in {"active", "paused", "failed"}
                                /\ schedules[s].next \in Nat /\ logged[s] \in Nat
    BY <2>1 DEF PageTyped, PageRow
  <2> QED
    BY <2>1, <2>2, <2>3 DEF PageTyped, PageTypeOK
<1> QED
  BY <1>1, PageInitOK, PageStep, PTL DEF SchedulePageSpec
=============================================================================
