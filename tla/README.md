# Omip: a TLA+ model of the agent platform

Omip ("Agent as a Service") lets users run AI agents, schedule them, share them
in teams and sell them on a marketplace. The server is `src/backend-node`: an
Express API over PostgreSQL (through Prisma) and Redis (through BullMQ), and
worker processes that take jobs from the BullMQ queues. `src/frontend` is a
Next.js client of that API. These modules model the parts of both in which
something can go wrong between two awaits: money, runs, schedules, membership,
the services behind the other routes that write, and the five parts of the
frontend in which state outlives a click. TLC checks them on small
instances; TLAPS proves the main results for every instance.

## 1. The system

### Components, their state and their operations

| component (source) | state it keeps | operations that change it | model |
|---|---|---|---|
| Credit wallets (`runtime.service.ts` deductCredits, `billing.service.ts`, `team.service.ts` addCredits) | `credits`, `totalCreditsUsed` of users and teams, `CreditLog`, top-up invoices | deduct for a run, add, top up, team grant | `CreditWallet` |
| Runtime engine (`runtime.service.ts`) and agent-run queue (`workers/queue.ts`, `workers/worker.ts`) | `ExecutionLog`, counters of the agent, BullMQ job, invoices, payouts, notifications | execute, enqueue, executeQueued, retry, stall, crash | `RunPipeline` |
| Scheduler (`scheduler.service.ts`) | `Schedule`, `ScheduleRun`, repeatable jobs in Redis | create, update, pause, resume, delete, trigger, init, fireCron | `Scheduler` |
| Teams (`team.service.ts`) | `Team`, `TeamMember` with roles and invites | create, delete, invite, accept, decline, changeRole, removeMember, transferOwnership, two-factor policy | `TeamMembership` |
| Marketplace (`marketplace.service.ts`) | `Listing` with its counters, `Subscription` with its key and daily count, `ListingReview` | create, update, publish, unpublish, subscribe, unsubscribe, useApi, review, delete review | `Marketplace` |
| API products (`apis.service.ts`) | API keys, usage rows, fees; rate counters in Redis | subscribe, unsubscribe, rotate, revoke, execute | `ApiKeys` |
| Plans and quotas (`billing.service.ts`) | `BillingSubscription`, the credits and invoices of a plan | subscribe, cancel, the passing of time, quota check | `BillingPlans` |
| Agents and versions (`agents.service.ts`, `versioning.service.ts`) | `Agent`, `AgentVersion` | create, update, archive, delete; save, roll back, delete a version | `BillingPlans` (against the quota), `AgentVersions` |
| Sessions (`auth.service.ts`) | password hash, `Session` rows | signup, login, refresh, logout of one or all, change password | `Sessions` |
| Workflows (`workflow.service.ts`) | `Workflow`, `WorkflowRun` with its step results | update, soft delete, run step by step | `WorkflowRuns` |
| Adapters (`adapters/`, `lib/llm`, `toolRegistry.ts`) | a cache of adapter results with a time to live; within a run, the conversation with the model | runAdapter; the tool loop, crews and chains | `AdapterCache`, `AgentLoop` |
| Permissions (`permission.service.ts`, `loadAndValidateAgent` of `runtime.service.ts`) | `Permission`, and the rows of the agent and of its teams | grant, revoke, resolve, validate; the admission of a run | `AgentAccess` |
| Frontend (`hooks/useAgentRunner.ts`, `lib/api.ts`, `lib/queries.ts`, `hooks/useScheduler.ts`, `app/collaboration`, `components/collaboration`) | the dialog that runs an agent; the stored access token; the cached answers; the workflows of the collaboration page; the schedules of the schedule page | every click, answer and timer; request, 401, refresh; query, mutation, invalidation; edit and mock run of a workflow; create, pause, resume, delete, trigger | `AgentRunner`, `ApiClient`, `QueryCache`, `WorkflowCanvas`, `SchedulePage`, of the many pages only these |
| OAuth and integrations, tools, pricing, notifications, statistics, legacy execution service, HTTP layer | tokens, rows written or read once | | not modelled (section 8) |

### How they interact

- The HTTP handler calls `RuntimeEngine.execute` (synchronous) or `enqueue`
  (asynchronous). `execute` validates the agent, prices the run, takes the
  credits (a call into the wallet), creates the execution log, calls the
  adapter, persists the result and records the charge. `enqueue` only creates
  the log and adds a job; a worker calls `executeQueued`, which does the rest.
- `fireCron` of the scheduler calls `enqueue`. It runs in a worker, on the job
  a BullMQ repeatable produces; API calls add and remove the repeatable.
- Agents of a team are paid from the team's wallet; members and roles are
  managed by the team service.
- `useApi` of the marketplace and each step of a workflow call
  `RuntimeEngine.execute`; creating an agent asks the billing service for the
  quota; the adapter cache stands between the engine and an adapter, which calls
  models and tools.
- The browser calls the API with an access token; a 401 makes its client
  exchange the refresh token of a session for a new one.
- All of them share PostgreSQL. Except for the wallet's own transactions every
  Prisma call is a statement of its own: what was read may be stale when the
  next statement writes.

### What is hard here, and what should hold

The behaviours no unit test of the repository reaches are listed one by one,
with their lines, under `hazards` in `PROJECT.json`. They fall into nine groups.

1. *Check, then act.* A balance, a role, a pending invite, a daily count, a
   quota, a password hash is read and later something is written on the
   strength of it. Credits are conserved and the debt bounded; a team has one
   owner; a key is used at most its daily limit; a plan's agents stay within
   its quota; what a password opened ends with it: each of these for calls that
   do not overlap, or up to an excess that is named.
2. *Several writes, no transaction.* Result and counters in one `Promise.all`,
   invoice then payout, row then credits then invoice, a run's row then the
   workflow's count. What was answered is settled, what is billed happened.
3. *The queue repeats.* A job is retried after errors that follow a success,
   and reclaimed from workers that are only slow. Executions and invoices are
   bounded by the queue's options, charges are taken once.
4. *Unawaited work.* Cron tasks and usage logs go on after the answer.
   Sequential calls leave the right repeatable job, a stopped schedule enqueues
   nothing but what was past its check, each proxied call is logged.
5. *Crashes.* Between any two awaits. Jobs end, requests are answered or their
   connection drops; logs are never COMPLETED without a success.
6. *Two commands that should be one.* INCR creates a rate counter and EXPIRE
   lets it end. A counter never stays without an expiry.
7. *What was read is out of date.* An aggregate of reviews, a cached result, the
   agent a rollback saved, the rows a run is admitted on, read one after the
   other. Counters agree with their rows once calls have ended, a result that is
   served is at most a time to live out of date, and an admission rests on what
   held while it was checked.
8. *Answers out of order in the browser.* A dialog is closed and reopened while
   its requests are under way; several requests meet one expired token; a
   run's end writes back the workflow it started with; an answer that left the
   server before a change arrives after it; a trigger ends after the pause that
   was clicked later. No spinner stays for ever, nobody waits for a token nobody
   will announce, what is put on a canvas stays unless it is deleted or a run's end undoes
   it, a view that is
   behind the server is so for a known reason, and a schedule's status is the one
   last asked for or a failure.
9. *A conversation of many turns.* Tools and model calls fail in the middle of a
   run, and each client sends the conversation in its provider's form. Each tool
   call has its result in the next request, in order, and tokens are reported of all
   model calls or of none.

## 2. The modules

```
CreditWallet ----------------.            RunLedger (abstract)
   |  EXTENDS                 \ refines      ^
   v                           \             | refines (Ledger == INSTANCE ...)
RunPipeline --- EXTENDS --> RunInvariant ----'        Scheduler       TeamMembership
   MCCreditWallet  MCRunPipeline                       MCScheduler     MCTeamMembership
   CreditWalletProofs <-- RunPipelineProofs            SchedulerProofs TeamProofs

MCTeamsSchedules EXTENDS TeamMembership, CreditWallet and Scheduler

Handlers <-- EXTENDS -- Marketplace, ApiKeys, BillingPlans, AgentVersions,
                        Sessions, WorkflowRuns, AgentAccess, AdapterCache
                        `--- MCServices EXTENDS them all, AgentLoop and SchedulePage

HandlerProofs <-- SellingProofs (Marketplace, ApiKeys, BillingPlans)
              <-- AgentProofs   (AgentVersions, Sessions, WorkflowRuns,
                                 AgentAccess, AdapterCache, AgentLoop)

AgentRunner, ApiClient, WorkflowCanvas, QueryCache
`--- MCRunsPages EXTENDS them all, and RunPipeline
PageProofs (the same four, and SchedulePage)
```

Every module that models code has one action per await of the source: the
state a handler keeps in local variables is a field of its process, its next
await a label. A definition headed "Slip:" is a plausible bug of the definition
below it; each property was seen to fail when the slip is put in its place.

### CreditWallet

`BeginDeduct` is the read and the check of `deductCredits`, `CommitDeduct` its
two updates and the log row, which become visible together, `RollbackDeduct`
any failure in between. PostgreSQL runs the transaction under READ COMMITTED
(no isolation level is given) and nothing locks the row, so other transactions
commit between the two steps. The decrement is relative to the row at commit.
`TopUp` and `InvoiceTopUp` are the two transactions of `billingService.topup`,
`LoseInvoice` a failure between them. `AddTeamCredits` writes no log row, as in
the code. `granted` and `invoiced` are history variables. `journal` sums the
rows of a team, or those of a user without a team: a run paid by a team is
logged under both ids and is counted for the team.

### RunPipeline

One agent and a set of runs. A process `<<r, 0>>` is the handler of run `r`;
`<<r, k>>` is the `k`-th execution of its job. The labels of `pc` are the awaits
of `execute` and `executeQueued`, in order: `deduct`, `create`, `add` (enqueue),
`load`, `mark`, `dispatch`, `persist`, `invoice`, `payout`, `finish`, and for the
catch of `execute` `failing`, `failpersist`. `Throw` is an await that rejects: in
`execute` it leads to the catch, in a worker to `RejectJob`, which is what BullMQ
does with the options of `DEFAULT_JOB_OPTIONS`. An awaited write may have landed
although its await throws. The two writes of a `Promise.all` are put in `writes`
and land or are lost one by one. `Stall` gives an active job to another worker
whether or not the first is dead; `HoldsLock` says which execution may settle
the job. `Crash` ends any process between two awaits. `DeleteAgent` is
`hardDelete`, whose cascade removes the logs.

Abstracted: the eight access checks of `loadAndValidateAgent` are one choice
(`Reject` or go on; `AgentAccess` takes them apart), the adapter is a success, a failure or an exception, the
price is the constant `CostOf` and the wallet that pays the constant `WalletOf`.
BullMQ's retry delay and progress numbers have no effect on the state modelled.

### RunLedger

The abstract specification: four counters per run. A charge is taken at most
once and before any success; each success is billed at most once; each bill is
settled at most once. `RunPipeline` maps `paid`, the successes, the invoices and
the payouts to it. It also implements `CreditWallet`: `ImplementsWallet` is the
wallet's own `WalletSpec` over the variables the pipeline extends.

### Scheduler

One schedule (two schedules share no state: each repeatable job and each row
belongs to one). A call reads the row and writes it; `Launch` starts the
unawaited `startCronTask` or `stopCronTask`, which then takes its own steps
`ListRepeatables`, `RemoveRepeatable`, `AddRepeatable`. `pause`, `resume` and
`delete` launch before their write, `create` and `update` after it, `init` has
no write. `FireCron` to `CountFailure` are the awaits of `fireCron`, with its
catch. A server start is one more call (`init`), because API servers and workers
all run it. `crossing` keeps the firings that were past `fireCron`'s check when the
schedule was last stopped. `stopCronTask` finds its job by the id it was added with; that
BullMQ reports this id in `getRepeatableJobs` is taken from the code that uses
it, the library being outside the repository.

### TeamMembership

One team. A call reads the team (`GetById`), the row it is about
(`FindMembership`, `NewMember`, `FindOwn`, or `FindByToken`) and writes by row id
(`Write`, or `Transfer` twice). A write to a deleted row fails, as does one that
the unique index on (team, user) refuses. Rows are never reused. The initial
state is the one `create` leaves. `answered` keeps the addresses one of whose
invites was accepted or declined: the look-up of `invite` takes any one row with
the address, whatever its status, so that an answered invite can hide an open one.

### Handlers

What the services have in common: a fixed number of calls in progress, each a
record of the label `at` (the await it is at), the operation, its argument, what
it has `seen` (read) and the writes of a `Promise.all` that are `todo`. A
controller passes whatever a service throws to `next(err)`, so a refused call
and a rejected await look alike to the rows: the call ends and undoes nothing.
`Break` is an await that rejects or a process that dies, and is counted;
`Refuse...` in each module is a check of the code, or a read, that ends the call
and costs no fault. `calm` records that no call ever began before the earlier
ones had ended, `served` and `faults` count. Most properties of the services say
what holds of `calm` behaviours and how much overlap may add to it.

### Marketplace

One listing, its seller and its customers. `FindByKey`, `ResetDay`, `RunAgent`
and `RecordUse` are `useApi`: the row is read once, reset on a new day, compared,
and incremented after the run. `OpenSub` draws a new key for a new or a renewed
subscription; `subscribersCount` follows creations and cancellations but not
renewals, as in the code. `ReadPrice` and `Bill` are the monthly charge.
`ReadRating` and `WriteRating` are `listingRepo.updateRating`; the sum and number
of the ratings stand for average and count. A key is the number it was drawn as.

### ApiKeys

One API product. `FindKey` and `WriteKey` are subscribe, unsubscribe, rotate and
revoke. `execute` is `FindActiveKey`, `Incr` and `SetExpiry` (once per window: the
day's, then the burst's), `Fetch` and the charge. `logUsage` is not awaited:
`logging` holds the writes in flight, `Log` lands one, `LoseLog` loses one. A
charge that fails is caught by the catch of the proxied call and logs it once
more (`FailCharge`).

### BillingPlans

`ReadPlan` to `InvoicePlan` are `billingService.subscribe`; `Lifecycle` is
`getLifecycle` over the date, with its period and its days of grace. `CheckPlan`
and `CountAgents` are `assertCanCreateAgent`; `WriteAgent` is update, archive and
`hardDelete`. `exempt` records the ways past the quota that the code leaves
open: a team's agent, an archived agent taken back, a smaller plan.

### AgentVersions

`content` stands for the versioned fields. `rollback` reads the agent, saves what
it read as a new version and writes the old version's content over whatever is
there by then. The unique index on (agent, number) refuses a second save of one
number.

### Sessions

One account. A refresh token is a JWT over the user and the second it is signed
in, so two logins of one second produce one token and the second row is refused;
that is why the second names the row. `under` is the password a session was
opened with. `strays` counts the logins that had compared the old password when
`changePassword` revoked the sessions.

### WorkflowRuns

`run` loads the workflow, creates the run row, executes the steps it loaded one
by one through `RuntimeEngine.execute` (a success or a failure here, its inside
is `RunPipeline`), stores the results after each, and ends with two writes in a
`Promise.all` outside the try. There is no cancel in the code.

### AgentAccess

One agent, its teams, the memberships and the RUN grants. `LoadAgent` to
`ReadGrant` are the reads of `loadAndValidateAgent` and of the permission service
it falls back on, in order: the agent, the caller's membership in the team the
first read named, the agent once more (`Resolve`), the grant. `witnessed` keeps
what there was to see of the caller's right at every step since the first read,
and goes with the job of a run that was enqueued: `RunQueued` checks nothing, as
`executeQueued`. The fallback admits to a public agent of any status but
ARCHIVED; its catch takes a failed read for a missing agent (`MisreadAgent`).
`update`, `delete` and `hardDelete` of the agent, `grant` and `revoke` are handlers
with their own reads; a membership changes in one step, which `TeamMembership`
takes apart. A grant is a row of its own, with the agent's id and no foreign key:
it is still found after `hardDelete`. `turnedAway` holds the grounds that stood for
the whole of a check that refused: ownership, a public agent, a grant, and the
membership in each team by itself, because a caller who leaves one team of the
agent for the next has had no ground of either throughout. The other resource types of `resolveResource` are resolved alike.

### AdapterCache

`runAdapter` around one adapter: the key is the agent's id and the input, so an
edit of the agent leaves its entry in place until it expires. Time is ticks; an
edit that is answered counts as in force from then.

### AgentLoop

One run of one agent by its adapter, after the cache missed. `ModelAnswers` is one
turn of `runLLMAdapter`, `ToolRefused` and `ToolHandled` are `executeTool` in its
inner loop, `MemberAnswers` a model call of a crew or a chain, `RemoteAnswers` the
one call of the n8n, Python and API adapters, `CallFails` a model call that
throws, `Finish` the normalisation in `dispatchByType`. What a model answers is
external: any calls of any tools, any reason to stop. Records have the source's
field names and `Field` is JavaScript's access to one, because the adapter reads
`args` where the clients wrote `arguments`, and the clients read `tool_call_id`
where the adapter wrote `toolCallId`. `Sent` is what a provider's client makes of a
message: those of OpenAI and Anthropic drop the calls of an assistant's message and
send an empty id, Groq's sends what it is given; Anthropic's makes a result part of a
user's message and sends the system prompt apart. `request` keeps what the last model
call sent. Of the texts only a tool's result is kept, and it is known by its call;
the texts that a crew hands on are left out.

### AgentRunner

The hook behind the dialog that runs an agent. Every request and timer of it is
a counter in `pending`, because closing the dialog resets the state and cancels
nothing: what an earlier opening sent may answer into a later one. `crossed`
records that this may happen, `cleared` that the permissions were found valid in
this opening. A click is possible where the dialog shows its button.

### ApiClient

Requests, the stored token and the static fields `isRefreshing` and
`refreshSubscribers`. A token is its number; `Expire` makes the oldest ones
invalid. `RefreshRefused` empties the store and the user logs in again.

### WorkflowCanvas

The collaboration page is a prototype over data in the browser. Each handler puts
a copy of the workflow it was rendered with in the place of the one in the list.
A click on delete does this twice, and the second copy brings back the node the
first one left out, so a node is never removed and its edges are: finding 7.
`placed`, `drawn` and `deleted` keep what was put on each workflow and what was
deleted from it. A mock run
keeps its copy from its start to its end and writes it back then: edits made in
between are lost, and an edge can stay without its node. Run in the list runs
the workflow that was shown before the click. Ids are drawn once each, which is
what the clock in them amounts to; positions, labels and descriptions are left
out, and the mock run never fails.

### QueryCache

One entry of TanStack's cache and the mutations of `lib/queries.ts` that change
what it shows or mark it. A fetch is a request that is sent, read on the server
and answered; `behind` collects what was written since. A mutation sends its
requests one after the other, each writes when it lands, and `onSuccess` marks
the entries its keys name; one that fails marks nothing, also when its request
lands later (`CommitLate`) or the first of its two did. What the library does with
a mark is external: it fetches anew what a page shows, but leaves a first fetch
and a fetch for a page that was left alone, and an answer clears the mark. Other
writers (another tab, another user) are left out: against them there is only
`staleTime`. The hooks whose routes the backend does not have (`/creator`,
`/dashboard`, `/runs`, `/leaderboard`) are left out too.

### SchedulePage

The schedule page keeps its schedules in memory and does not call the scheduler
of the backend. A click starts a timer (`Delay`, in milliseconds) and the change
is made when it ends, so the order of the changes follows from the order of the
clicks and the delays. A trigger looks its schedule up in the list it was
rendered with and changes the one that is there by then. `computeNextRun` is
translated with JavaScript's rule that a day past the end of a month is a day of
the next one, over a calendar of long and short months in turn and two instants a
day. The heartbeat, every minute in the code, comes before the next instant. One
clock stands for the browser's; names, inputs and output actions are left out,
and `fragile` says whether `max_retries` is at most 1, the only case in which a
failure marks the schedule as failed, because `retry_count` stays 0. The
schedules of the mock data have been deleted. `updateSchedule` is never called:
the edit button opens the dialog that creates.

### MCServices, MCRunsPages, MCTeamsSchedules

The services share no row, nor do the runs and the parts of the browser, nor a team's
members, the wallets and a schedule; so one of them (`subject`) is in use in each behaviour and the
state spaces add up instead of multiplying. Each keeps its own `...Spec`, which
the theorems are about.

## 3. The runs

| run | instance | what it asks |
|---|---|---|
| `queued_run` | one run, 2 attempts, 1 reclaim, both endpoints | executions and charges bounded and backed, completed jobs settled, only a re-execution reopens a log, the ledger implemented; jobs end and requests are answered |
| `runs_pages` | two synchronous runs on one wallet that can pay one of them; or one of four parts of the browser | charged once, answered runs settled, the wallet implemented; and four invariants of the browser, below |
| `teams_schedules` | 2 users and an outside address, 3 rows, 3 calls, 1 fault; or 3 handlers, a user and a team wallet, prices 1..2; or a schedule, 3 calls, 2 firings, 2 patterns, 1 fault | one owner, one open invite per address until it answers one, owners only by transfer; credits conserved, overdraft bounded; sequential calls leave the right job, a stopped schedule enqueues only what was past its check, firings and counters agree |
| `services` | 2 overlapping calls, 1 fault, one service at a time; or one run by each kind of adapter and provider; or the schedule page | fifteen invariants, below |
| `wallet_overdraft` | 2 handlers, the wallets of `teams_schedules` | *violated*: a pool is never overdrawn |
| `queued_unpaid` | one queued run | *violated*: a queued run was paid before it is executed |
| `paused_cron` | 4 calls, no fault | *violated*: a paused schedule has no repeatable job |
| `team_transfer` | as the team of `teams_schedules` | *violated*: a transfer swaps two roles atomically |
| `client_refresh` | 2 requests at once, 3 made, 1 expiry | *violated*: every request is answered in the end |
| `tool_arguments` | one run, 3 iterations of up to 2 tool calls | *violated*: a handler gets the model's arguments |
| `tool_answers` | as `tool_arguments`, for three providers | *violated*: a result that is sent names the call it answers |
| `delete_selected` | two workflows with two nodes, one mock run | *violated*: a node that was deleted is gone |

The invariants of `services` and of the browser in `runs_pages`, by module:

- `Marketplace`: a key is used more than its daily limit only by calls that
  overlapped or were cut off (`KeysWithinDailyLimit`); when calls were served one
  by one, counters and rating agree with the rows up to what renewals leave out
  (`QuietStatistics`); a period that began on a monthly listing is billed once
  (`PeriodsBilledOnce`).
- `ApiKeys`: until an await fails every rate counter has an expiry or a handler
  about to set it (`CountersExpire`); usage rows, counts and fees agree with the
  calls proxied (`UsageIsAccounted`).
- `BillingPlans`: credits are granted as often as a plan is taken up and billed
  as often (`GrantsAreBacked`); the quota holds but for the three ways past it
  (`QuotaHolds`).
- `AgentVersions`: without overlap a rollback overwrites nothing that is not
  saved (`RollbacksLoseNothing`). `Sessions`: sessions under an old password
  number at most the logins that were under way (`SessionsFollowPassword`).
  `WorkflowRuns`: how runs settle (`WorkflowRunsSettle`).
- `AgentAccess`: who is admitted, at once or by way of the queue, had a ground
  while it was checked, and nobody is refused whose ground stood all along
  (`AdmissionsRest`). Of a membership the agent's team and the caller's row may
  have been true at different times; without overlap everything held at once.
- `AdapterCache`: no answer is served that is out of force for longer than the
  time to live (`StaleAnswersExpire`). `AgentRunner`: no spinner without what
  ends it, no run without a valid check (`RunnerProceeds`). `ApiClient`: a waiting
  request waits for a refresh that is under way, or is the one of the finding
  (`SubscribersResume`). `WorkflowCanvas`: a workflow shown as running is being
  run, runs are counted once, and unless a run's end has undone an edit the nodes
  and edges are those that were put there, but for deleted nodes and their edges,
  and no edge is without its nodes (`OnlyRunsTakeBack`). It leaves open whether a
  deleted node goes; that it should is `DeletedNodesGo`, which is violated.
- `QueryCache`: an entry that is behind the server, not marked and not being
  fetched is behind a mutation that is not answered, has failed, or was answered
  while the first fetch, or one whose page was left, was under way; or behind one
  of twenty-four pairs of a mutation and an entry that its keys leave out
  (`ViewsFollow`, with the pairs in `LeftOut`). Each of these is needed.
  `SchedulePage`: runs listed and runs counted agree, a status is the one last
  asked for or a failure, a failure is undone only by a click made before it, a
  run without its schedule was under way when that was deleted, no button spins
  for nothing, and the next run is the next instant the schedule names, but for
  days that some months do not have (`PageAgrees`).
- `AgentLoop`: each request to a model carries, after each message with tool calls,
  one result for each of them, worked or not, in order, and no other result
  (`ResultsInOrder`); what the results are named by is `AnswersNameCalls`, which is
  violated; reported tokens are those of
  all model calls or none (`UsageAllOrNothing`).

The eight violations are disagreements between the code and a comment or a
document of the repository; `findings` in `PROJECT.json` quotes each of them.
They are stated as the text states them and are not repaired in the models.
The type invariants (`...TypeOK`) are in no run, where they would say little beside
the properties; they are parts of the inductive invariants, and most are theorems
of their own.

### Bounds

`Requests`, `Calls`, `Firings`, `RowIds` bound how much happens at once, not
how it interleaves: three handlers are the fewest for two deductions and a
grant to overlap, three calls the fewest for a call to fall into the gap of
another one after the schedule or the member exists. `MaxAttempts = 2` and
`MaxStalled = 1` (3 and 2 in the code) are the smallest values at which a retry
and a reclaim both happen, in both orders; the bounds of `ExecutionsBounded` are
proved for all values. `queued_run` opens with an empty wallet, so that a run in the
request needs the one top-up it may get, which comes at any time before, during or
after it; a queued run gets none, as it touches no wallet (`Unfunded`).
`MaxGrant` and `MaxGranted` cap top-ups, `MaxFaults`
caps failures where an unbounded number would only end calls earlier, `Asked`
leaves out VIEWER, which ranks below MEMBER and is treated alike.

In `services` two calls overlap and `Served` says how many are served: 3 for
`Marketplace`, `ApiKeys`, `BillingPlans`, `WorkflowRuns` and `AgentAccess`, 4 for `Sessions` and
`AdapterCache`, 5 for `AgentVersions`, where save, edit, save, roll back and one
more are needed for a number to be reused. The limits are the smallest that can
be reached and passed: a daily limit of 1 on the marketplace, a day of 2 and a
burst of 1 on the API keys, quotas of 1 and 2 agents, a period and a grace of
one day within 3 days, a time to live of 2 within 4 ticks, two teams for an agent
to move between two reads, a lifetime of 1 second within 2, workflows of up to 2
steps. The two slots of calls and the two
customers are symmetric. Three iterations of the adapter's loop are two whole turns
of two tool calls and an answer; of the three tools one works, one needs a
connection and one is unknown. Four operations on up to two schedules of the schedule
page are two schedules that are triggered, or three clicks on one; the eight instants
reach from a long month of 3 days into a short one of 2, a week has 2. Three bounds of
`MCServices` keep the sum of the parts small: once two calls on the API keys have
overlapped no third is served (`Overlapped`; in sequence three still are, one more
than the day's limit), at most one customer is subscribed at first, and a second
schedule is on an event (`OnEvent`), as two schedules share only the flag of a run under
way. The run has about 0.9 million distinct states.

In `runs_pages`, one of the two runs is billable, the wallet can pay one, and neither
is queued (`Synchronous`): a queued run touches no wallet, and `queued_run` has both.
`MaxClicks = 9` is one path through the dialog and a second opening. Three requests, 5 in
all, meet 2 expiries. Two workflows with two nodes and one run let an edit fall into a
run; `MaxEdits = 2` edges drawn and nodes deleted are an edge and the deletion
of one end, two edges, or a deletion on a workflow and on its copy. Two mutations overlap on each
of the nine entries, with any number of fetches. The run has about 0.9 million distinct
states. In `teams_schedules` two of the three calls of a schedule are under way at a time
(`MaxBusy`), which is what an overlap takes, and the third can come at any point before
or after; it has about 0.9 million distinct states.

Deadlock is not checked: requests, calls, jobs and clicks are finite,
so nearly every instance stops.

### Fairness

`queued_run` and `client_refresh` use fairness. `WF(Handle)` and `WF(Step)` say
that an awaited call settles, with a result or an error: Prisma, ioredis and the
adapters all have timeouts. `WF(Take)` says a worker polls its queue,
`WF(Reclaim)` that the stalled-job check (`stalledInterval` 30 s) finds a job
whose worker is gone. No fairness is assumed of requests, crashes, slow workers,
losses, grants or deletions. `JobsEnd` fails with the slip `NeverReclaim`,
`RequestsAnswered` with `ThrowUncaught`. In `client_refresh`, `WF(Progress(r))`
says that network and backend answer a request and the event loop runs its
callbacks; the request of the counterexample has no step left to take.

## 4. What is proved

Constants are arbitrary, under the assumptions each module names: finite, non
empty sets of handlers, disjoint wallets, a positive `MaxCost`, prices between 0
and `MaxCost`, at least one attempt.

**Wallet** (`CreditWalletProofs`). `Conservation` and `UserJournalReconciles` are
inductive; the second is in no run. `BoundedOverdraft` is not: from a balance just above the bound a
commit would break it. `Exposure` says the bound holds even if every open
deduction of a wallet commits; a deduction is opened only on a balance of at
least its price, and commits move one handler from the exposed ones to the
debt. `WalletInv` is the conjunction, and `Exposure` implies the bound because
exposed handlers are a subset of `Requests`.

**Pipeline** (`RunPipelineProofs`, invariant in `RunInvariant`). The invariant
`RunInv` has six parts. `QueueCounters` ties the executions started to attempts
and stalls; `HandlerPlace` ties the handler's label to the entry point it came
through; `Charged` and `LogPlace` say what was paid and what the log says while
nothing has executed yet; `ChargePlace` orders success, invoice and payout along
the labels of an execution. From these follow `ChargedOnce`, `ChargesBacked`,
`ExecutionsBounded` and the action property `OnlyReexecutionReopens`.

The other two speak of writes in flight. `SyncPlace` follows what `execute` has
written: nothing before `persisting`; there, each column has landed with the
outcome of the adapter or its write is still on its way (`Landing`); past it no
write of the handler is left, so the log and the one tally stay until the answer,
and `invoice` and `payout` are reached for billable successes only. It gives
`AnsweredRunsSettled`. `JobPlace` says of a job that was never reclaimed that its
executions come one after the other: all have ended but the one that holds the
lock, whose final log is written or on its way once it persists (`LogFollows`).
Late writes of earlier attempts do no harm, because they too are final; this is
what lets `CompletedJobsSettled` be proved without saying which attempt's outcome
the log shows, and the code does not promise that. The proof first shows that the
steps of other runs leave both alone (`Frozen`, `JobFrozen`) and then has one
lemma per kind of step. `RunInv` itself is in no run: it adds nothing that the
properties it was made for do not say.

**Refinement.** Every step of the pipeline is a step of `WalletNext` or leaves
the wallet unchanged, so the wallet's theorems hold of the pipeline
(`PipelineConserves`); and every step is a step of `RunLedger` or a stutter
(`PipelineImplementsLedger`), which needs the invariant: a charge precedes every
success only because a handler past `deduct` has been charged.

**Scheduler** (`SchedulerProofs`). Every invariant of the run is proved. The
types need `Patterned`: a task that adds has a pattern to add. `Recorded` says
what the place of a firing implies about its `ScheduleRun` and its agent run; it
gives `FiringsBacked`. `StopsAdmitNone`, an action property, needs `Crossing`: a
firing between the check and the enqueue of a stopped schedule is one that was there
when it was stopped. `Counters` compares the counters
with the firings that have ended and with those that were caught, two sets that
only grow, so that a count has to come with a new member. `SequentialCalls` says
something only when all is quiet; `Orderly` says it of the call that is open:
what its task will leave (`Goal`) is what the row will ask for once the call has
written. `Exact` fixes, without a fault, the status of each firing by its place.

**Team** (`TeamProofs`). `OwnersWereNamed` is inductive with two facts: calls ask
only for roles the schemas accept, and a transfer with an update still to make
has named its row. `Writable` says what may go into a row; every write is shown
to put only that, whatever the other calls did to the row in between.
`SequentialInv` is for the two properties that speak of calls in sequence.
`OneRowEach` is the unique index: a user has at most one row. `InvitesKnown` and
`OwnershipKnown` say, while calls do not overlap, what the one call under way knows
(`Knows`): the row it read is still as it was read, so that a re-invite reopens a
row that is not pending, a removal or change of role never hits an owner, and of a
transfer's two updates one is done when the other is left. Counting is by the
lemmas on the size of a set that gains or loses one row.

**Services** (`HandlerProofs`, `SellingProofs`, `AgentProofs`). Each theorem is about
the module's own specification, for any number of calls, users, days and faults
and for every limit. `HandlerProofs` has what they share: how a step of one
handler changes the calls, that calls which do not overlap are one at most
(`Alone`), and how the size of a set changes with one element. An invariant then
says of each label what its handler carries (`...Carries`), and of calm behaviours
that what the one handler read is still so.

- `ApiKeys`: `CounterInv` adds that a handler at a counter knows whose counter and
  which window it is at, so that the INCR that creates a counter is followed by
  the EXPIRE of that same counter. `UsageInv` balances, per subscriber, the calls
  proxied against the rows written and in flight, and what was earned against the
  invoices and payouts written and due.
- `BillingPlans`: `PlanInv`. `PlansBacked` compares how often a plan was taken up
  with its credits and invoices, and with what the subscriber under way has still
  to grant; `Fits` says that an agent about to be created was counted against the
  quota of the plan in force.
- `Marketplace`: `MarketInv`. `BillsAgree` and `UsesAgree` say what is owed of a
  period and of a day's runs at each label of the charge and of `useApi`.
  `StatsInv` sets the listing's counters against the rows: the uses in flight on
  either side however calls overlap (`UsesCounted`), and, while the only call is at
  a label, what the counters lack there (`Ahead`, `RowsCounted`). It also needs
  that a row is made before it is used (`MadeFirst`), or a created row could hide
  runs already counted. A sum over the customers is the number of units in it
  (`SumOver`), so that a sum which one customer adds to is a set with one more
  element (`SumGrows`), and no induction is needed.
- `AgentVersions`: `VersionInv`. `Preserves` says that a rollback has read what
  the agent holds until it has saved it, and that some version holds it after.
  That the next number is the greatest plus one needs that a finite set of
  numbers has a maximum, which is proved by a least counterexample.
- `Sessions`: `SessionInv`. `StraysCounted` counts, against the logins that were
  under way when the sessions were revoked, both the sessions of an old password
  and the logins that will still open one.
- `WorkflowRuns`: `FlowInv`. Each RUNNING row has one handler that owes its end
  (`Earning`), and `Balanced` puts the counter, the rows and the ends still owed
  within the number of faults.
- `AgentAccess`: `AccessInv`. `Checks` says of each read of the admission which of
  the states in `witnessed` it rests on, `Calmly` that without overlap all of them
  were one, and `JobsRest` carries it to the runs in the queue.
- `AdapterCache`: `CacheInv`. `EntryExpires` says an entry's age and the ticks it
  has left add up to at most the time to live, `Informed` what a handler that was
  given the entry knows, `OneAtATime` that calm edits are counted against the
  calls served.
- `AgentLoop`: `LoopInv`. `EarlierAnswered` says that only calls of the last turn lack
  a result, and only while tools run; `TurnOpen` says where that turn is in the
  conversation and that it is answered up to the call that is due. `TurnsSent` carries
  this to the request: it was made of whole turns (`Carried`), and the shape of a sent
  message says whether it is a result (`SentShape`). `LoopCounted` says the adapter's sum is what was
  spent.

**Pages** (`PageProofs`), for any number of clicks, requests, timers, workflows and
schedules.

- `AgentRunner`: `SpinnersEnd`, `RunAwaited` and `ResultKnown` say what is pending
  for each spinner and step; `Reviewed` says that while no answer has crossed an
  opening nothing is pending for a closed dialog, and that past the review the
  permissions are cleared.
- `ApiClient`: exactly one request refreshes while `isRefreshing` is set
  (`OneRefresh`), and the subscribers are the requests that wait.
- `WorkflowCanvas`: `CanvasInv`. `RunsKeepCopies` says what a run's copy can hold,
  `Agrees` what the list shows of a workflow: unless the end of a run has undone an edit
  it is what was put there, and of the edges those whose nodes nobody deleted (`Kept`).
- `QueryCache`: `ViewsInv` accounts for what an entry is behind of, and for what
  the answer that is on its way will be behind of, by the same excuses.
- `SchedulePage`: `PageInv`. `ScheduleAgrees` compares the list with what was
  clicked and what has failed, `LastAsked` says that the last timer of a schedule
  carries what was last asked for, `TimerAgrees` whose schedule each timer is for.
  That the next run is the next instant (`NextRuns`) is arithmetic over the
  calendar, for every length of its weeks and months.

### What the proofs corrected

Two models were wrong in ways the small instances did not show.

- `AgentAccess` let the RUN grants vanish with `hardDelete`, and took membership as
  one ground. Both made `AdmissionsRest` unprovable: a caller who had a grant, or
  moved from one team of the agent to another between two reads, is not covered.
- `SequentialInvites` was stated for every address. It is false after four calls
  in sequence, one more than the run makes: invite, decline, invite, invite to an
  address without a user. It now says of such an address: until it answered an
  invite.

## 5. Only model-checked

- `JobsEnd` and `RequestsAnswered`: liveness under fairness is out of the prover's
  reach.
- The eight violated properties are refuted on their instances.

## 6. Findings

1. `deductCredits` overdraws a pool under concurrency. The proved bound says by
   how much: less than one price per concurrent handler.
2. Queued and scheduled runs of priced agents cost no credits: `enqueue` and
   `executeQueued` each rely on the other.
3. The unawaited cron tasks leave a repeatable job behind a pause. Its firings are
   skipped (`StopsAdmitNone`), but it stays until the next stop.
4. A transfer of ownership may leave a team without an owner, or with two.
5. The request that has the browser's token refreshed subscribes to the new
   token after it was announced, and is answered only if another refresh
   follows.
6. A tool call's arguments never reach the tool (`tc.args` for `tc.arguments`).
7. "Delete selected" deletes the edges of a node and leaves the node: of its two
   changes the second is made from what was rendered before the first.
8. A tool's result does not reach the model under the call it answers: the adapter
   writes `toolCallId`, the clients read `tool_call_id` and send an empty id or none,
   and those of OpenAI and Anthropic drop the calls of the assistant's message too. The
   order of the results is all the model has to go by.

Known behaviour, and no finding: `SequentialInvites` excepts an address that has
answered an invite. The look-up of `invite` (`team.service.ts:294`) has no filter on
the status of the row; an address without a user that declined once can be sent
any number of open invites in sequence. The alert of a failed schedule on the schedule
page (`app/schedule/page.tsx:286`) says "Resolve the issue and resume manually", but no
button of the page resumes one: but for a click made before the failure the status stays
until the schedule is deleted, and `PageAgrees` allows no more.

## 7. Plan

Order: what moves money first, then what triggers runs, then who may do what,
then the services that write rows of their own, then the clients.

1. `CreditWallet`, `RunPipeline` with `RunLedger`, `Scheduler`, `TeamMembership`:
   done and proved.
2. `Marketplace`, `ApiKeys`, `BillingPlans`, `AgentVersions`, `Sessions`,
   `WorkflowRuns`, `AgentAccess`, `AdapterCache`, `AgentRunner`, `ApiClient`,
   `WorkflowCanvas`, `QueryCache`, `SchedulePage`, `AgentLoop`: done and proved.
3. Left to model: `CostModel`, the sum of tool and model prices with its patterns
   of model names, of which the first match hides later ones, as a function
   checked against a reference.
4. Left to compose: the callers of the pipeline (`useApi`, a workflow's step, a
   firing) with its `enqueue` and `execute`, in place of the one step that stands
   for them.
5. Left to prove: abstract specifications of the services in the manner of
   `RunLedger` (a purchase is paid, granted and invoiced at most once), refined by
   `BillingPlans` and `Marketplace` where they are calm.

## 8. Not modelled

- The legacy `executionService.run`: `RuntimeEngine` replaced it, only list and
  statistics reads are still routed. Of `agentExecutor`, `runAgent` and `quickRun`
  of the LLM routes, which keep nothing; of the adapters the one that starts a
  workflow, which is a call of the workflow service, and prompts.
- OAuth and integrations: two calls to a provider and one upsert. The refresh of
  a tool's token is never reached: `checkAgentPermission` asks `resolveResource`
  for a type it does not know.
- Pricing: a function without state; the pipeline takes the price as a constant.
- Read-only operations (lists, browse, statistics), validation wording, slugs,
  `nextRunAt` and `lastRunAt`: no property depends on them.
- Notifications but for the one of a run, and the report and sync queues:
  nothing in the repository adds a job to the latter.
- What adapters, tools, LLM clients and OAuth providers do outside: the models
  take every outcome they can have.
- The HTTP layer, configuration, logging, seeds.
- The frontend but for its agent runner, its API client, its query cache, its
  workflow canvas and its schedule page. More than half of
  the repository is pages, components and demonstration data: markup, and state
  that shows what the API returned. Their lines are the reason why `map` covers
  about a tenth of the repository and a much larger part of the services.
