----------------------------- MODULE AgentRunner -----------------------------
(***************************************************************************)
(* The dialog in which a user runs an agent: useAgentRunner and the steps  *)
(* it shows.  The hook lives as long as the page; closing the dialog       *)
(* resets its state and cancels nothing, so an answer or a timer may come  *)
(* back to another step, or to another opening, than it was started for.   *)
(***************************************************************************)
EXTENDS Integers

CONSTANT MaxClicks  \* bound: what the user does

ASSUME ClicksAreNat == MaxClicks \in Nat

VARIABLES
  open,     \* the dialog is shown
  runner,   \* the hook's state
  pending,  \* how many requests and timers of each kind are under way
  cleared,  \* history: this opening found nothing to grant, or a valid agent
  crossed,  \* history: the dialog was closed with something under way
  clicks    \* history: how often the user has acted

runnerVars == <<open, runner, pending, cleared, crossed, clicks>>

Kinds == {"init", "save", "auth", "popup", "check", "advance", "pick", "configure",
          "validate", "run", "reveal"}
Steps == {"init", "permissions", "permission_review", "user_type", "api_config",
          "validation", "execution", "result"}
Flags == {"saving", "checking", "picking", "configuring", "validating", "executing"}

(* review is permissionValidation, checked whether there is a validation,  *)
(* result how the run ended.                                               *)
Initial == [step |-> "init", failed |-> FALSE, review |-> "none", checked |-> FALSE,
            result |-> "none", busy |-> {}]

RunnerInit ==
  /\ open = FALSE
  /\ runner = Initial
  /\ pending = [k \in Kinds |-> 0]
  /\ cleared = FALSE /\ crossed = FALSE /\ clicks = 0

On(step)   == open /\ runner.step = step
Idle(flag) == flag \notin runner.busy

(* The user acts and so starts a request or a timer.                       *)
Click == clicks < MaxClicks /\ clicks' = clicks + 1

Start(k)     == pending' = [pending EXCEPT ![k] = @ + 1]
Finish(k)    == pending[k] > 0 /\ pending' = [pending EXCEPT ![k] = @ - 1]
Follow(k, l) == pending[k] > 0 /\ pending' = [pending EXCEPT ![k] = @ - 1, ![l] = @ + 1]

Show(step, busy, idle) ==
  [runner EXCEPT !.step = step, !.busy = (@ \cup busy) \ idle]

-----------------------------------------------------------------------------
(* The dialog opens and closes.                                            *)

Initialising == [runner EXCEPT !.step = "init", !.failed = FALSE]

Open ==
  /\ ~open /\ Click
  /\ open' = TRUE /\ cleared' = FALSE
  /\ runner' = Initialising /\ Start("init")
  /\ UNCHANGED crossed

Reset ==
  /\ open /\ Click
  /\ open' = FALSE
  /\ runner' = Initial
  /\ crossed' = (crossed \/ \E k \in Kinds : pending[k] > 0)
  /\ UNCHANGED <<pending, cleared>>

(* The answer to initialise: an agent without integrations skips the       *)
(* permission steps, whether it is valid or not.                           *)
Initialised ==
  /\ Finish("init")
  /\ \/ \E some \in BOOLEAN, review \in {"ok", "blocked"} :
          /\ runner' = [runner EXCEPT !.step = IF some THEN "permissions" ELSE "user_type",
                                      !.failed = FALSE, !.review = review]
          /\ cleared' = (cleared \/ ~some)
     \/ runner' = [runner EXCEPT !.failed = TRUE] /\ UNCHANGED cleared
  /\ UNCHANGED <<open, crossed, clicks>>

-----------------------------------------------------------------------------
(* Permissions and their review.                                           *)

SavePermissions ==
  /\ On("permissions") /\ Idle("saving") /\ Click
  /\ runner' = Show("permissions", {"saving"}, {}) /\ Start("save")
  /\ UNCHANGED <<open, cleared, crossed>>

PermissionsSaved ==
  /\ Finish("save")
  /\ \E ok \in BOOLEAN :
       runner' = Show(IF ok THEN "permission_review" ELSE runner.step, {}, {"saving"})
  /\ UNCHANGED <<open, cleared, crossed, clicks>>

(* The authorization page opens in a window of its own, which is polled    *)
(* once a second by a timer that reset does not clear.                     *)
ConnectIntegration ==
  /\ On("permissions") /\ Click /\ Start("auth")
  /\ UNCHANGED <<open, runner, cleared, crossed>>

AuthUrl ==
  /\ Follow("auth", "popup") \/ Finish("auth")
  /\ UNCHANGED <<open, runner, cleared, crossed, clicks>>

WindowClosed ==
  /\ Follow("popup", "init")
  /\ runner' = Initialising
  /\ UNCHANGED <<open, cleared, crossed, clicks>>

ConfirmPermissions ==
  /\ On("permission_review") /\ Idle("checking") /\ runner.review # "blocked"
  /\ Click
  /\ runner' = Show("permission_review", {"checking"}, {}) /\ Start("check")
  /\ UNCHANGED <<open, cleared, crossed>>

(* Slip: the dialog moves on whatever the blockers.                        *)
AnyVerdict(ok) == TRUE
Passes(ok) == ok

PermissionsChecked ==
  /\ \E ok \in BOOLEAN :
       /\ IF Passes(ok) THEN Follow("check", "advance") ELSE Finish("check")
       /\ runner' = [Show(runner.step, {}, {"checking"}) EXCEPT
                       !.review = IF ok THEN "ok" ELSE "blocked"]
       /\ cleared' = (cleared \/ ok)
  /\ UNCHANGED <<open, crossed, clicks>>

(* 300 ms after a valid check.                                             *)
Advance ==
  /\ Finish("advance")
  /\ runner' = Show("user_type", {}, {})
  /\ UNCHANGED <<open, cleared, crossed, clicks>>

-----------------------------------------------------------------------------
(* User type, configuration, validation: timers of the browser.            *)

SelectUserType ==
  /\ On("user_type") /\ Idle("picking") /\ Click
  /\ runner' = Show("user_type", {"picking"}, {}) /\ Start("pick")
  /\ UNCHANGED <<open, cleared, crossed>>

UserTypeSelected ==
  /\ Finish("pick")
  /\ runner' = Show("api_config", {}, {"picking"})
  /\ UNCHANGED <<open, cleared, crossed, clicks>>

SubmitApiConfig ==
  /\ On("api_config") /\ Idle("configuring") /\ Click
  /\ runner' = Show("api_config", {"configuring"}, {}) /\ Start("configure")
  /\ UNCHANGED <<open, cleared, crossed>>

(* An endpoint structure that is not JSON is refused.                      *)
Configured ==
  /\ \/ Finish("configure") /\ runner' = Show(runner.step, {}, {"configuring"})
     \/ Follow("configure", "validate")
        /\ runner' = Show("validation", {"validating"}, {"configuring"})
  /\ UNCHANGED <<open, cleared, crossed, clicks>>

Validated ==
  /\ Finish("validate")
  /\ runner' = [Show(runner.step, {}, {"validating"}) EXCEPT !.checked = TRUE]
  /\ UNCHANGED <<open, cleared, crossed, clicks>>

-----------------------------------------------------------------------------
(* The run.                                                                *)

ProceedToExecution ==
  /\ On("validation") /\ Idle("validating") /\ runner.checked /\ Click
  /\ runner' = Show("execution", {"executing"}, {}) /\ Start("run")
  /\ UNCHANGED <<open, cleared, crossed>>

(* An answer with steps is played back first; then, or at once, the result *)
(* is shown, that of a failure likewise.                                   *)
Executed ==
  /\ \/ Follow("run", "reveal") /\ UNCHANGED runner
     \/ /\ Finish("run") \/ Finish("reveal")
        /\ \E result \in {"success", "failed"} :
             runner' = [Show("result", {}, {"executing"}) EXCEPT !.result = result]
  /\ UNCHANGED <<open, cleared, crossed, clicks>>

(* "Edit", "Go Back & Fix", "Back" and "Retry".                            *)
Retry ==
  /\ \/ On("permission_review") /\ (Idle("checking") \/ runner.review = "blocked")
     \/ On("validation") /\ Idle("validating")
     \/ On("result") /\ runner.result = "failed"
  /\ Click
  /\ runner' = [Show("permissions", {}, {"executing"}) EXCEPT !.checked = FALSE, !.result = "none"]
  /\ UNCHANGED <<open, pending, cleared, crossed>>

RunnerNext ==
  \/ Open \/ Reset \/ Initialised
  \/ SavePermissions \/ PermissionsSaved \/ ConnectIntegration \/ AuthUrl \/ WindowClosed
  \/ ConfirmPermissions \/ PermissionsChecked \/ Advance
  \/ SelectUserType \/ UserTypeSelected \/ SubmitApiConfig \/ Configured \/ Validated
  \/ ProceedToExecution \/ Executed \/ Retry

RunnerSpec == RunnerInit /\ [][RunnerNext]_runnerVars

-----------------------------------------------------------------------------
(* Properties.                                                             *)

(* Types of the hook's state.                                              *)
RunnerTypeOK ==
  /\ open \in BOOLEAN /\ cleared \in BOOLEAN /\ crossed \in BOOLEAN
  /\ runner \in [step: Steps, failed: BOOLEAN, review: {"none", "ok", "blocked"},
                 checked: BOOLEAN, result: {"none", "success", "failed"}, busy: SUBSET Flags]
  /\ pending \in [Kinds -> Nat] /\ clicks \in 0 .. MaxClicks

(* What ends each of the dialog's spinners.                                *)
Enders == [saving |-> {"save"}, checking |-> {"check"}, picking |-> {"pick"},
           configuring |-> {"configure"}, validating |-> {"validate"},
           executing |-> {"run", "reveal"}]
Awaited(kinds) == \E k \in kinds : pending[k] > 0

(* Whatever the user clicks and in whatever order the answers come back, a *)
(* later opening's included: a spinner the user cannot leave by a button   *)
(* has a request or a timer that will end it, and an agent that has        *)
(* integrations is run only after a valid check in this opening of the     *)
(* dialog, unless an answer of an earlier opening came in between.         *)
RunnerProceeds ==
  /\ On("init") /\ ~runner.failed => Awaited({"init"})
  /\ \A flag \in runner.busy : Awaited(Enders[flag])
  /\ On("execution") => Awaited({"run", "reveal"})
  /\ On("result") => runner.result # "none"
  /\ On("execution") /\ ~crossed => cleared
=============================================================================
