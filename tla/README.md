# AlgoTraders24: a TLA+ model of its long-running work

This directory holds TLA+ specifications of the parts of the platform that
carry money, credits, licences, synced trades and published content through
concurrent, interruptible work. TLC checks each on small instances; TLAPS proves
the main theorems for every value of the constants. Every definition is
translated from the source; `PROJECT.json` maps each to its lines.

    tlc -workers 2 -config CreditLedger_prisma.cfg MC_CreditLedger
    tlapm CreditLedgerProofs.tla

Contents: [1 the system](#1-the-system), [2 the modules](#2-the-modules),
[3 what TLC checks](#3-what-tlc-checks),
[4 where the code and its documents disagree](#4-where-the-code-and-its-documents-disagree),
[5 what is proved](#5-what-is-proved), [6 what is not modelled](#6-what-is-not-modelled),
[7 what is left](#7-what-is-left).

## 1. The system

The repository is a Next.js application (`src/frontend`) on serverless
functions, Postgres through Prisma, and a set of crons (`vercel.json`), beside a
TypeScript quant engine, Python back-ends, an MT5 bridge and MetaTrader experts.
No process is long-lived: whatever takes longer than one request is a row that
several invocations advance, and any of them may be killed between two awaits or
run beside another. That is where the program is hard to test, and what the
specifications are about.

| Part | State | Operations | Hard behaviour | What makes it correct |
|---|---|---|---|---|
| Agent credit ledger (`agent-framework/credits`) | immutable entries, unique idempotency key; the resolver's allowance and period; e-mail log | `charge`, `refund`, threshold notice | concurrent charges, lock retries, transaction timeout after a write, plan change mid-call | a charge fits its allowance; answers agree with the table; every call returns |
| Agent runtime (`agent-framework/runtime`) | run row, steps, tool calls, `resumeState` | `tick` = claim, limits, one slice (plan, tool, finish) | two pollers, stale copies, crash between payment, tool and patch | success means the plan was carried out and paid; the status moves along its table |
| Automation dispatch (`automation`) | run and step rows, child agent runs, drafts, artifacts, notices | `dispatchAutomationRun`, cancellation | Run Now, slot cron, resume cron and client all drive one run; resume rebuilds its context from rows | a step runs only behind OK steps and true conditions; one notice; the run ends as its steps say |
| Automation definitions and triggers | automation, version, runs, Run Now lock | edit, pause, archive, Run Now, slot cron, bookkeeping | look-then-create of an active run, bookkeeping over a stale row | a run of each kind of trigger at a time, at most |
| Publishing (`publishing`) | article, jobs (one for each content), attempts | publish, retry, dispatch; edit, schedule, delete | attempt beside edit, two attempts of one job, content put back | what is served passed an attempt; three attempts; a succeeded job stays |
| Licensing (`licensing`) | licence, activations, audit | issue, activate, check, deactivate, move, revoke | device limit look-then-act, stale status over a revocation | new devices within the limit, revoked stays revoked |
| Billing (`billing`) | subscription rows, plan of the user | provider webhooks, billing page, admin | events twice, late, out of order | a row for each payment, one mail for each failure |
| Rewards and payouts (`rewards`) | contract, instalments, reserve, payouts | fulfil, sweep, cancel, withdraw, decide | concurrent decisions, a sweep that dies, cancellation beside release | the reserve accounts for every instalment; what is paid was released, once |
| Support handoff (`support`) | tickets, one active (partial unique index) | open, assign, transition, reopen | read-then-patch | one active ticket; nobody works on a ticket without an admin |
| Live sync (`live-sync`, `AT24LiveSync.mq5`) | account chain, batches, deals; each terminal's position and state file | send, ingest, adopt, delete | answers late or lost, two terminals, restart, lost state file | one chain without gap or fork; acknowledged is stored |
| Alert rules (`live-sync`, `market-alerts`) | rule row | check, announce, save | overlapping checks, a save between read and write | announcements a cooldown apart |
| Social outbox (`social`) | post row | prepare, list, send, mark; approve, skip, retry | overlapping and dying passes, a channel's late answer | attempts are bounded |
| Rate limiters (`lib/security`) | request log, advisory locks | try, count, log | count-then-insert, retry after a silent commit | no window exceeds the limits |

How they meet: the agent runtime charges and refunds the ledger under the keys
`<run>:step<i>:reserve` and `:refund`; the automation triggers create the runs
that the dispatcher drives; the dispatcher starts agent runs, drives them by
ticks and reads their final status; its publication step creates an article
draft that the author publishes through the publishing engine; billing sets the
plan, and so the allowance, that the ledger's resolver reads; a purchase makes a
reward contract and a licence; every stored batch of a synced account has its
alert rules checked. Everything else meets them only through the user and the
plan rows.

## 2. The modules

A step of every module is what happens between two awaits of the code: a
statement or transaction that reaches the database is an action, the code before
the next one is part of it. A killed invocation is an action (`Crash`,
`PassDies`, `VisitDies`, ...) that loses the locals and keeps the rows.

### CreditLedger (and CreditAccount)

One user's ledger over either of the two stores the code has; `Store` chooses.

| In the module | In the code |
|---|---|
| `rows`, `used` | table `AgentCreditLedgerEntry`, the SQL aggregate `sumForPeriod` (kept incrementally) |
| `terms`, `ChangeTerms` | what `PlanAllowanceResolver.resolve()` answers now |
| `FindCharge`, `Recheck` | the look-ups of the idempotency key, before and after the lock attempts |
| `queue`, `Enqueue`, `Enter` | the promise chain of `InMemoryCreditStore.withUserLock()` |
| `TryLock`, `LockBusy`, `NoConnection` | `pg_try_advisory_xact_lock` and the transaction of `PrismaCreditStore` |
| `ResolveCharge`, `Sum`, `Insert` | `chargeOnce()` |
| `FindRefund`, `ResolveRefund`, `InsertRefund` | `refund()`, which takes no lock |
| `Notify`, `LookUp` | the threshold notifier and `wasEmailAlreadySent()`, which answers "no" when its query throws |
| `SendNotice`, `LogNotice` | `EmailService.send()`: the delivery, then, a step later, `recordEmailLog()`, whose errors are swallowed |
| `lapses` | deliveries that left no row (a kill or a failed insert) and rows a look-up did not find |
| `SettleOK`, `SettleError` | how a call returns or throws through the lock; over Prisma a commit may answer P2028 after the row is written |

`PrismaCreditStore.withUserLock()` opens a transaction, but both the lock and
`fn()` use the global client. The lock statement is a transaction of its own, so
the lock is released when it ends and `fn()` runs unserialized. The
module models that: `TryLock` succeeds or not, as a lock held for an instant
may, and nothing is held afterwards. `CreditAccount` is the atomic account:
a keyed debit or credit, once, at one instant, a debit only within terms the
user has had.

Left out: `balanceAfter` (written, never read back by the ledger), the history
read, and money amounts other than the few in `Amounts`.

### AgentRuntime (and RunContract)

One `AgentRun` and the tickers that poll it. `row` is the run row, `copy[t]` the
row a tick has read, `fresh` the tickers whose copy still matches `updatedAt`
(what `claimForTick` compares). `Read, Claim, ClaimLost, Dispatch, Breach` are
the head of `tick()`; `BeginPlan, MarkPlanning, SavePlan, Resume` are
`doPlan()`; `Authorize, OverBudget, Deny, Reserve, Insufficient, Execute,
Record, Refund, Advance, ToolFailed` are `doRunningSlice()`; `Synthesise,
FailIntegrity, Succeed` finish the run; `ReadIndex, AppendStep, AppendTaken` are
the tracer's read of the next index and its insert into the unique
`(runId, index)`. The plan is a constant: planning is deterministic unless a
flag that is off by default is set. `RunContract` is the abstract run: planned
once, each step paid before the run moves past it, one step at a time, success
at the end only, terminal for good; `ImplementsContract` maps the rows to it.

Left out: input validation in `startRun` (pure), the best-effort evaluation row,
and the top-up charge (no tool costs more than its estimate).

### AutomationDispatch (and ExecutionContract)

One `AutomationRun` with its step rows, driven by `Drivers`. `Drive(d)` is
`dispatchAutomationRun()`: claim, snapshot, the loop over steps with its
cancellation check, step row, step claim, execution by kind, `skipRemaining()`,
`finalizeRunIfActive()` and the notice. `CancelRead` and `CancelPatch` are
`requestRunCancellation()`. `ctx[d]` is the set of agent results the invocation
holds, rebuilt on resume from the stored outputs. `met` says which conditions
the agents' real results satisfy, chosen once. A child run ends succeeded,
failed or at its credit limit (`EndChild`), and a later step reads how
(`ReadChild`); `yields` counts passes that leave it open. Every call of a step
may throw, before or after it did its work (`StepThrows`, `HaltThrows`): the
`catch` of `dispatcher.ts:172` then fails the step and the run, over whatever
child run it has, open or succeeded.
Workflows are what `workflow-validator.ts` accepts: several agent steps are
legal, a condition as the first step (`:158`) is not.
`ExecutionContract` is what a run promises its owner: steps one after another, each
once, with one child run or one write; none begun after a cancellation is on
record, nor behind a failed step or an unmet condition; the rest skipped in order;
an end that the stages of the steps account for. That a step failed says nothing of
its work: its child run may be open or have succeeded, its draft be written. `Stage` maps a row, and where its
invocation stands, to the contract's stage: a step has begun when it is past the
cancellation check, and a halted condition, whose row says OK, is told from a
satisfied one by `met`.

### PublishingJobs (and JobContract)

One article, its jobs (one for each content that was published, as `contentHash`
makes it), their attempts, the invocations of publish, retry and the dispatch
cron, and the author. `before[c]` is the set of contents whose jobs completed
before `c`'s, the order of `completedAt`. `Served` is what
`blog-reader.service.ts` answers: the article's content if it is that of the
job that completed last. `JobContract` is what the two contract files promise of
a job (`job-contract.ts:66`, `attempt-contract.ts`): attempts one after another,
numbered without gap up to the cap, success for accepted content only, an attempt
and its job ending together, a success for good. `Stage` maps a job's row and
whoever is at work on it to the contract's stage.
`Found` is `findDispatchableJobs()`: of the rows that are due and wait, or are
FAILED below the cap, the `Window` oldest are fetched (75 in the code, three times
the limit), the FAILED dropped, the rest cut to `Limit` (25); `Scan` runs exactly
those, oldest first. `older[c]` is the order of `requestedAt`, `due` the jobs whose
time has come (those of contents in `Slotted` may be queued for later), and `others`
counts the rows of other articles that were requested earlier. They wait as long as
their attempts throw, fail, or leave the scan as they like (`OtherMoves`); rows of
other articles requested between two jobs of this one are left out.
Destination errors that may be retried are left out (the one destination raises
none); so is the list cache of the blog.

### The services

Nine smaller modules, one for each service whose state no other module's
touches. `MC_Services` checks them together: `part` chooses the one that moves.

| Module | One ... | In the module, in the code |
|---|---|---|
| RewardMoney | reward contract, from payment to withdrawal | `checkout`, `contract`, `document`, `item`, `payout` are the statuses of the rows; amounts are sets of the instalments they stand for. Roles of a worker: fulfilment after the payment webhook (`fulfilmentService.ts`), the daily sweep (`releaseService.ts`), cancellation, withdrawal and decision (`payoutStore.ts`). Eligibility may change at any time |
| LicenseService | licence and its devices | `Issue`, `/activate` and `/check` (look at the rows, then reactivate or create, then write ACTIVE), deactivation, the buyer's move, revocation (`licenseService.ts`, `licenseCore.ts`, `moveAccount.ts`) |
| Subscription | user's plan and subscription rows | Stripe and NOWPayments events, billing page, admin: each finds a row, then writes it by id, then the plan (`SubscriptionActionService.ts`, the two webhook routes) |
| AutomationTrigger | automation and the runs it makes | `runs` in the order of `createdAt`; Run Now under its advisory lock, the slot pass (`hasActiveRun`, then create if absent), status changes and edits, what a run's end writes on the automation |
| SupportHandoff | conversation's tickets | every request reads a ticket, checks its status, writes by id (`handoff-service.ts`) |
| LiveSync | synced account | the Expert Advisor's side (`Send`, `GiveUp`, `Receive`, `Restart`) and the route's (`GetAccount`, `CreateAccount`, `Judge`, `Commit`), deletion by the user. A hash is the sequence of batches it commits to |
| AlertRules | alert rule, of an account or of a market | `StartCheck`, `ReadRule`, `Evaluate` with the compare-and-set, `Tell`; the owner's `SaveRule` |
| SocialOutbox | post | `AlreadyPrepared`, `CreateIfNew`, `ListApproved`, sending, marking, an admin's decision made on a post read earlier |
| RateLimit | limiter, AI or checkout | `TryUserLock`, `CountUser`, `TryGlobalLock`, `CountAll`, `CreateLog`, `CommitLog`; a transaction may fail anywhere and is tried again with the window of the first attempt |

Unlike the ledger's, the limiters' advisory locks are taken with the
transaction's own client, so they are held until it ends; the module says so in
`InUserLock` and `InGlobalLock`.

### Modules of proofs

`CreditLedgerProofs`, `AgentRuntimeProofs`, `AutomationDispatchProofs` and
`PublishingJobsProofs` go with the module they name; `MoneyProofs` is about
RewardMoney, LicenseService and Subscription, `ServiceProofs` about
SupportHandoff, AutomationTrigger, SocialOutbox, RateLimit and the composition
`MC_Services`, `LiveSyncProofs` about LiveSync and AlertRules. `SetSums` defines
the sum over a finite set and proves what the ledger's and the runtime's proofs
need of it.

## 3. What TLC checks

Each run asks a question of its own. States are distinct states.

| Run | Instance | Properties | States |
|---|---|---|---|
| `ledger_memory` | 2 callers, 2 charge keys, 1 refund key, amounts 0..2, two plans, 3 calls | `TypeOK` `ImplementsAccount` `CallsReturn` | 155 k |
| `ledger_prisma` | 2 callers, 3 charge keys, 1 refund key, amounts 1..2, 2 lock attempts, 4 calls, crashes, a lapse of the log | `AnswersMatchRows` `OverdrawBounded` `NoticesBounded` | 1.6 M |
| `runtime_single` | 1 ticker, plan of 3 priced 0, 2, 2 under a ceiling of 2, 3 crashes | `ImplementsContract` `BudgetHolds` | 20 k |
| `runtime_overlap` | 2 tickers, plan of 2, 1 crash, 4 step rows | `TypeOK` `SucceededMeansDone` `WorkIsPaid` `StepsBounded` `StatusMoves` `RunEnds` | 550 k |
| `automation_single` | 1 driver, agent, condition, agent, draft, artifact; 2 yields, a cancellation | `StepsGate` `EndsAsItsStepsSay` `ImplementsExecutionContract` `RunFinishes` | 6.1 k |
| `automation_overlap` | 2 drivers, agent and draft, a crash, a cancellation | `TypeOK` `NotifiedOnce` `FirstStepGate` `EndsAreKept` | 2.4 M |
| `automation_condition` | 1 driver, agent, condition, draft, a crash | `ConditionsGate`: violated | |
| `publishing_alone` | 1 runner, two good contents, 2 attempts, a crash; scans of 1 job among 2 rows, a row of another article | `ImplementsJobContract` `QueueDrains` | 311 k |
| `publishing_overlap` | 2 runners, a good and a bad content, 2 attempts, a crash | `AttemptsBounded` `PublicationIsBacked` | 2.5 M |
| `publishing_locked` | 1 runner, two good contents | `VisibleIffSucceeded`: violated | |
| `services` | the nine services, two actors each | `ServicesTypeOK` and the properties of the table below | 1.6 M |
| `live_sync_lost` | 1 terminal, 1 call, two deals of one millisecond, batches of one | `LosesNothing`: violated | |

What the passing runs show, beyond types:

* **Ledger.** Over the in-memory store any mix of concurrent charges and refunds
  is an atomic account, even while the plan changes, and no failing call wedges
  the queue. Over Prisma, with crashes, timeouts and lost lock attempts, an
  answer "charged" or "applied" is still true of the table and one call owns a
  key; the allowance may be overdrawn, by at most one largest charge for each
  other caller; a threshold notice goes out at most once for each caller, and once
  more for each lapse of the log, unless the row says that its delivery failed.
* **Runtime.** Ticks that do not overlap implement the contract wherever they are
  killed, and what the ledger holds against the run never passes its ceiling
  although a crash may hide a cost from the row. With overlap a success still
  means that every plan step has a successful and paid tool call, step rows stay
  within two for each other tick of the limit, a tick that sees the row's real
  status moves it only along the table (or ends a planning run by a limit), and
  a polled run ends.
* **Automation.** An invocation that is neither overlapped nor killed implements
  the execution contract: nothing runs before the agents and conditions ahead of
  it allow it, no step begins after a cancellation, one child run a step, the rest
  skipped in order, and the run ends as its rows say, whichever calls throw: SUCCEEDED
  when every step is OK and did its work, FAILED when a row is. With two invocations, one killed, and a cancellation, the owner is still
  notified at most once, nothing runs before the first step has done its work,
  and no driver takes an ended run back. What the gate loses for later steps is
  in section 4.
* **Publishing.** In any order of overlapping invocations, edits and a crash,
  nothing is published without a successful attempt on content the blog accepts,
  and the cap on attempts is passed by at most one for each other invocation;
  without overlap a job and its attempts follow the contract, in which a success
  is final, and a job that is due is taken up unless its article is deleted or rows
  requested before it, of other articles, fill the scan for good.
* **Services.**

| Module | Property | What holds, whatever overlaps, dies, or comes late |
|---|---|---|
| RewardMoney | `ReserveAccounts` | an instalment of a contract is owed exactly when it has left the reserve neither to the buyer nor back |
| | `PayoutsAreBacked` | with one admin deciding at a time, the instalments a payout asks for or has paid were released, and nothing of it is in another such payout |
| LicenseService | `NewDevicesWithinLimit` | devices bound for the first time pass the limit by at most one for each other call |
| | `RevocationHolds` | a revocation that met no activation which had read ISSUED holds for good |
| Subscription | `SubscriptionsBounded` | a row for each request that may overlap, no more |
| | `FailureMailsBounded` | one mail of a failed payment for each overlapping delivery, no more, until the row is active again |
| AutomationTrigger | `OneRunPerTrigger` | one manual and one scheduled run in progress |
| SupportHandoff | `TicketsAreHandled` | a ticket worked on or resolved is some admin's, a resolved one says when, one at most is active |
| LiveSync | `ChainIsWhole` | the batches are one chain without gap or fork, the deals are theirs, each reported once and in order |
| | `AcknowledgedIsStored` | no terminal takes for acknowledged a time whose deals did not arrive |
| AlertRules | `AlertsAreSpaced` | announcements come in order and a cooldown apart |
| SocialOutbox | `TriesBounded` | a pass sends a post at most `MAX_ATTEMPTS` times between two decisions, but for passes that died before they could count |
| RateLimit | `BurstsAreHeld` | no window holds more rows than the user's and the common limit |

### Bounds, and why they are enough

Two actors suffice for the races: every conflict in this code is between one
stale copy and one write, and the theorems of section 5 cover any number. Plans
and workflows have the shortest shape that still has a step before, at and
behind the point of interest; contents are the two or three the properties tell
apart. `MaxCalls`, `MaxCrashes`, `MaxYields` and `MaxCancels` bound behaviours.
One crash with two actors, and up to three with one, put a lost invocation at
every await; a run that has lost one resumes from rows alone, so later losses
meet the same code. One lapse of the log (`MaxLapses`) is enough to pass the bound
that would do without. Scans of `Limit` 1 among `Window` 2 rows with one row of
another article (`MaxOthers`) have the job of interest behind the limit, behind
the window and in front; one content in `Slotted` falls due behind a newer job.
`MaxAttempts` of the ledger is 2 where the code has 40: the
loop has no state but its counter. `MaxSteps`, `MaxToolCalls` and
`MaxCreditCost` are small enough that each limit bites.

In `services` the limits are the smallest that bite: one activation and one
move with three devices, one request in a window of one tick, batches of one
deal with two deals of one millisecond and one after it, a cooldown of two with
a clock to four, one instalment and one commission with two payouts. `MaxRows`,
`MaxRuns`, `MaxDays`, `MaxDeletes`, `MaxDeaths`, `MaxDecisions`, `MaxClock`,
`MaxTime` and `MaxLogged` bound behaviours; each leaves room for what its
property forbids (two withdrawals, a third subscription row, a second run, a
fork after a deletion, a second announcement, a fourth row in the log). `services` has a
view: where one service moves, two states differ in its variables or not at all.

Symmetry is used in runs that check no liveness, and not in all of those. Runs disable the deadlock
check because a finished run, job or set of calls has nothing left to do.

### Fairness

`FairSpec` asks weak fairness of each actor's own step, and nothing of `Crash`,
cancellation, the author or new calls. For the ledger this is the JavaScript
runtime's: a pending promise is settled. For the runtime and the automation it
says that a run that has not ended goes on being polled, which the two-minute
resume cron (and for the agent the client's poll) does; the number of crashes is
bounded, because an invocation that dies every time makes no progress in the
code either. `QueueDrains` adds strong fairness of the scan as a whole: the dispatch
cron comes back whatever else invocations are asked for. Which jobs it finds is
decided by `Found` alone. The services have no liveness property: each operation is
one request whose caller may go away, and nothing in the code sees to it that
another comes.

## 4. Where the code and its documents disagree

Three runs refute a sentence of the repository (`findings` in `PROJECT.json`):

| Run | Promise | What happens |
|---|---|---|
| `automation_condition` | "No step runs until the previous step reached OK (or condition = true)" (`AUTOMATION_EXECUTION_CONTRACT.md:94`) | a false condition is stored as OK before the run is finalized; the invocation dies; the next runs what is behind it |
| `publishing_locked` | "visible on /blog iff it has a SUCCEEDED PublishingJob ... and its content still hashes to that job's" (`blog-reader.service.ts:7`) | publish A, reopen, publish B, put A back: Publish answers success from A's old job and the blog, which looks at the newest, serves nothing |
| `live_sync_lost` | "Killing the network then restoring it loses nothing and duplicates nothing" (`LIVE-SYNC-SPEC.md:124`) | a batch that ends amid a millisecond moves `g_fromMsc` past the rest of that millisecond, which is never sent |

More properties are stated in the modules, do not hold, and are in no listed
run. To see one fail, name it in the configuration described.

| Property | Configuration | How it fails |
|---|---|---|
| `NeverNegative` (CreditLedger; `credit-ledger.ts:12`, `prisma-credit-store.ts:82`) | Prisma store, 2 callers, 2 calls | two different charges read one sum and both insert |
| `OneNoticePerPeriod` (CreditLedger; `threshold-notifier.ts:6`) | Prisma store | a failed first delivery leaves a FAILED log row that blocks the SENT one (`EmailLogService.ts:46`): each later charge mails again. So it does after a kill between the delivery and its row (`EmailService.ts:92`, `:93`), a row whose insert fails and is swallowed (`EmailLogService.ts:20`), a look-up that throws (`:47`) |
| `TerminalIsFinal` (AgentRuntime; `agent-run-contract.ts:11`) | 2 tickers, 1 crash | a slice that outlives another writes its own status over the terminal one |
| `TransitionsInTable` (AgentRuntime; `agent-runtime.ts:579`) | 1 ticker, 1 crash while planning | the planning run is ended by the step or time limit, which the table allows only from running |
| `OneSliceAtATime` (AgentRuntime; `agent-run.repository.ts:274`) | 2 tickers | a poll that reads after the claim claims again |
| `BudgetHolds` (AgentRuntime) | 2 tickers | `creditsConsumed` is computed from a stale copy (`agent-runtime.ts:545`) |
| `EndsAreKept` without its exception for cancellation (AutomationDispatch; `AUTOMATION_EXECUTION_CONTRACT.md:67`) | 1 driver, 1 cancellation | cancellation patches by id a run that ended since it was read (`run-dispatch.ts:247`) |
| `StepsGate` (`AUTOMATION_EXECUTION_CONTRACT.md:94`) | 2 drivers, `Agents3`, 1 crash | one invocation fails to start the first agent, skips the second and dies; another, still at the first, succeeds; the next passes over the SKIPPED agent as finished (`dispatcher.ts:92`) and makes the draft |
| `EndsAsItsStepsSay` | 1 driver, `Draft3`, 1 crash | killed between the skips of a halt and the terminal status (`dispatcher.ts:105`), after a step is FAILED (`:98`), or resumed with a poorer context (`:84`); a cancelled run killed after the last skip is resumed and ends SUCCEEDED |
| the same | 1 driver, no crash, agent, agent, condition on the first, artifact | the second agent yields; the resumed pass has lost what the first found (`dispatcher.ts:84`), and a condition that is satisfied halts the run |
| `OneChildPerStep` | the same | killed between `startAgentRun()` and the patch of `agentRunId` (`dispatcher.ts:234`) |
| `SucceededIsFinal` (PublishingJobs; `job-contract.ts:55`) | 2 runners | a late patch takes a succeeded job back to RUNNING (`publishing.service.ts:249`) |
| `SucceededClosesTheArticle` (`publishing.repository.ts:268`) | 1 runner | `schedule()` takes a published article back to scheduled (`article.service.ts:254`) |
| `PublishedIsReadOnly` (`article.service.ts:215`) | 1 runner | `update()` passed its check before the commit that published |
| `NextRunPublishes` (PublishingJobs; `publishing.service.ts:66`) | `FairSpec`, `publishing_alone` without a crash | the scan fetches a bounded number of the oldest rows and drops the FAILED among them afterwards (`publishing.repository.ts:363`): failures below the cap, which nobody tries again unless asked, or jobs whose attempt throws each time, keep a newer job waiting for good |
| `ReserveMatches` (RewardMoney; `releaseService.ts:199`) | `services` | a cancellation marks by id the instalments it read open; one released meanwhile is returned to the reserve as well |
| `PayoutsAreBacked` | `services`, both workers deciding | REQUESTED is checked outside the transaction (`payoutStore.ts:73`): a payout is paid and its items are set free by a rejection |
| `CommissionsAreCredited` (`releaseService.ts:165`) | `services` | a commission is RELEASED, and may be withdrawn, before its ledger entry is written; a sweep that dies or throws in between leaves it without one |
| `WithinLimit` (LicenseService; `licenseService.ts:351`) | `services` | D1 activated and deactivated, D2 created, D1 let back in without a look at the limit (`licenseCore.ts:76`) |
| `RevokedIsFinal` (`licenseStateMachine.ts:12`) | `services` | an activation that read ISSUED writes ACTIVE over a revocation (`licenseService.ts:284`) |
| `EndedStaysEnded` (Subscription; `SubscriptionActionService.ts:177`) | `services` | a late update event reactivates an ended subscription (`webhooks/stripe/route.ts:241`) |
| `OneActiveRun` (AutomationTrigger; "One active run per automation", `AUTOMATION_EXECUTION_CONTRACT.md:175`) | `services` | Run Now takes a lock that the slots' pass does not: each looks for an active run before the other creates its own (`run-dispatch.ts:206`), and a manual and a scheduled run are active together; `OneRunPerTrigger` is what is left |
| `ArchivedIsFinal` (AutomationTrigger; `automation-service.ts:110`) | `services` | a transition writes the status it chose from what it read before |
| `CancelledIsFinal` (SupportHandoff; `handoff-service.ts:471`) | `services` | an assignment or a reopening that read the ticket before revives it |
| `DisabledIsSilent` (AlertRules; `live-sync/alerts/route.ts:83`) | `services` | a check that read the rule before it was disabled announces by it |
| `SentOnce` (SocialOutbox; `social/runner.ts:5`) | `services` | two passes list the post before either marks it, or one dies between sending and marking |
| `SentIsFinal` (SocialOutbox; `admin/social/route.ts:44`) | `services` | an admin's write, decided on a post not yet SENT, comes after |

Consequences that no sentence of the repository speaks against: a publishing
invocation that dies after RUNNING strands its job, and the waiting job of a
deleted article is scanned at every dispatch, in front of newer ones; a run that
FAILED because a call threw may leave its child agent run open or succeeded, and
what its steps wrote in place (`dispatcher.ts:172`, `:246`); a failed payment
delivered again after a late event made the row active again mails again
(`SubscriptionActionService.ts:182`); an activation that dies between
its two statements leaves the licence ISSUED beside an active device
(`licenseService.ts:280`); a contract revoked while its document is written may
be ACTIVE again (`contractDocument.ts:51`); when the user deletes a synced
account the chain begins anew, but its terminals keep `g_fromMsc` and do not
send the old deals again.

## 5. What is proved

TLAPS checks these for any sets of actors, any plans, workflows, contents,
deals, amounts, prices and bounds.

| Theorem | States |
|---|---|
| `CreditLedgerProofs!TypeCorrect` | `Spec => []TypeOK`, either store |
| `MemoryNeverOverdraws` | in-memory store: `Spec => NeverOverdraws` |
| `MemoryImplementsAccount` | in-memory store: `Spec => ImplementsAccount`, the atomic account of `CreditAccount` |
| `UsedIsTheSum` | either store: the number the balance check reads is the sum of the rows since the period began |
| `AnswersAreTrue` | either store: `Spec => []AnswersMatchRows` |
| `OverdraftIsBounded` | either store, fixed terms: `Spec => []OverdrawBounded` |
| `NoticesAreBounded` | either store, any lapses of the log: `Spec => []NoticesBounded` |
| `AgentRuntimeProofs!TypeCorrect` | `Spec => []TypeOK` |
| `SuccessIsComplete` | any number of tickers and crashes: `Spec => []SucceededMeansDone` |
| `RecordedWorkIsPaid` | the same: `Spec => []WorkIsPaid` |
| `StatusMovesHolds` | the same: `Spec => StatusMoves` |
| `StepsAreBounded` | the same: `Spec => []StepsBounded` |
| `AloneImplementsContract` | one ticker, any crashes: `Spec => ImplementsContract` |
| `BudgetHoldsAlone` | the same: `Spec => []BudgetHolds` |
| `AutomationDispatchProofs!TypeCorrect` | `Spec => []TypeOK` |
| `OwnerNotifiedOnce` | any workflow, drivers, crashes: `Spec => []NotifiedOnce` |
| `FirstStepFirst` | the same: `Spec => []FirstStepGate` |
| `EndsAreKeptHolds` | the same: `Spec => EndsAreKept` |
| `StepsGateAlone` | any workflow, one driver, no crash: `Spec => []StepsGate` |
| `OneChildAlone` | the same: `Spec => []OneChildPerStep` |
| `AloneImplementsExecutionContract` | the same, conditions that read the agent closest before them: `Spec => ImplementsExecutionContract` |
| `GateSurvivesKills` | any workflow, one driver, any crashes: `Spec => []GateToCondition` |
| `EndsAsItsStepsSayAlone` | the same, conditions that read the agent closest before them: `Spec => []EndsAsItsStepsSay` |
| `PublishingJobsProofs!TypeCorrect` | `Spec => []TypeOK` |
| `CapHolds` | any runners: `Spec => []AttemptsBounded` |
| `PublicationRestsOnAttempt` | the same: `Spec => []PublicationIsBacked` |
| `ReadersSeeBackedContent` | the same: `Spec => []ServedIsBacked` |
| `AloneImplementsJobContract` | one runner, any crashes and edits: `Spec => ImplementsJobContract` |
| `SuccessIsFinalAlone` | the same: `Spec => SucceededIsFinal` |
| `MoneyProofs!ReserveAccountsHolds` | any workers and roles: `RewardSpec => []ReserveAccounts` |
| `PayoutsAreBackedHolds` | one decider at most: `RewardSpec => []PayoutsAreBacked` |
| `NewDevicesStayWithinLimit` | any calls and devices: `LicenseSpec => []NewDevicesWithinLimit` |
| `RevocationsHold` | the same: `LicenseSpec => []RevocationHolds` |
| `SubscriptionsAreBounded`, `FailureMailsAreBounded` | any events: the two properties of Subscription |
| `ServiceProofs!HandoffsAreHandled` | any requests: `HandoffSpec => []TicketsAreHandled` |
| `OneRunPerTriggerHolds` | any requests and days: `TriggerSpec => []OneRunPerTrigger` |
| `TriesAreBounded` | any passes: `SocialSpec => []TriesBounded` |
| `BurstsAreHeldHolds` | any users and requests: `RateSpec => []BurstsAreHeld` |
| `LiveSyncProofs!ChainIsWholeHolds` | any terminals, calls, deals: `LiveSyncSpec => []ChainIsWhole` |
| `AcknowledgedIsStoredHolds` | the same: `LiveSyncSpec => []AcknowledgedIsStored` |
| `AlertsAreSpacedHolds` | any checks: `AlertSpec => []AlertsAreSpaced` |
| `ServiceProofs!ServicesKeepTheirSpecs` | the composition follows the specification of each of the nine services |
| `ServicesTypeCorrect` | `ServicesSpec => []ServicesTypeOK` |

Each of the nine services has its type correctness as a theorem too
(`RewardTypeCorrect`, `LicenseTypeCorrect`, `SubscriptionTypeCorrect`,
`HandoffTypeCorrect`, `TriggerTypeCorrect`, `SocialTypeCorrect`,
`RateTypeCorrect`, `LiveSyncTypeCorrect`, `AlertTypeCorrect`).

**Assumptions.** Named in the module that declares the constants:
`LedgerConstants`: callers finite and not empty, charge and
refund keys disjoint, amounts natural with a largest, terms natural.
`RunConstants`: tickers finite and not empty, a plan of natural length, natural
prices and positive limits. `AutomationConstants`: drivers finite and not empty,
a workflow whose first step is no condition. `PublishingConstants`: runners finite
and not empty, some content, at least one attempt, a limit of at least one job
and a window no smaller. Those of the services say as
much of their own: finite sets of actors where a bound counts them, positive
limits, absent values outside the sets they stand beside, deals in the order of
their times (`LiveSyncConstants`). The conditions on `Store`, on fixed terms, on
one ticker, one driver that is not killed (`MaxCrashes = 0`), one runner
(`OneRunner`), conditions that read the agent step closest before them
(`NearReads`) and on one deciding worker (`OneDecider`) stand in the theorems
themselves. Each is needed: section 4 says what happens without it, and every one
is met by the instance of a run, so no theorem is about nothing. TLC evaluates the assumptions at each run.

**The ledger's argument.** `Structure` types the variables and says two things of
a call: over the in-memory store whoever is inside the lock is the head of the
queue, and a call past `resolve()` holds terms the user has had. Every step is
then one of four (`StepKinds`): `Quiet`, a check, a debit or a credit; later
proofs argue about those four only.
*No overdraft* needs `Covered`: over the in-memory store a call between check
and insert still fits. It is inductive because nobody else is between check and
insert and a refund only lowers the sum. `NeverOverdraws` and the refinement
follow: an insert is the abstract debit, all else stutters.
*Answers* needs the calls that own a row and have not yet answered
(`OwnersHaveRows`, `OneOwner`), since the answer comes some awaits after the row.
*The bound* is not inductive as it stands: when nobody serializes, several calls
past their check may all insert. `Slack` picks one of them whose own check bounded
what was there, and allows each other one largest charge.
*Notices* are counted by what their row says (`MailsOf`): while there is none, each
delivery has its caller still about to log it, or was a lapse; once it says SENT or
SKIPPED, whoever is still to send had looked before it was written, or a look-up
lapsed.
*The sum* is the one place where the model keeps incrementally what the code asks
the database for. Sums over a finite set are a function on its subsets, which
exists because strict inclusion is well-founded there (`SetSums`); what an
induction over data would give comes from the smallest subset for which a claim
fails.

**The runtime's argument.** `Inv` adds to the types a `Shared` part (the steps
below `next` have successful calls; a call on record is reserved; only a step
whose input is refused is refunded, and such a step has no successful call) and
a `Local` part of what each tick knows at each place. A stale copy is harmless to
it because the tables only grow: what a tick once knew stays true whatever the
others do (`Elsewhere`), which is also why overlap breaks finality and the
budget but not completeness. The refinement for one ticker adds `SameRow`: what
the tick has read is still the row.
*The budget* of one ticker is not inductive by itself, since a crash hides a cost
from the row: `Budget` says that the reserves of the steps behind `next` come to
no more than the row has counted, and that only the step at hand may be reserved
beside them; run again, it finds its reserve paid under the same key. *Step rows* are counted
against the limit a tick has checked: each tick has at most two still to append
(`StepsToCome`), and the sum of rows and rows to come never grows past the bound.

**The automation's argument.** `Inv` says what a step row proves: a first step
that is OK did its work, one that is SKIPPED was cancelled (`RowTrue`), in the
table and in every copy (`SeenTrue`), since work and cancellation are never
taken back (`Grows`). So an invocation past its cancellation check at a later
step knows the first one is done (`Past`). It is the first step only, because a
later one may be skipped by a failure that another invocation undoes. For the
notice, `OneNotice` ties the count to the one transition into a terminal status:
while the run is active nobody is about to notify, and whoever is, is alone.
*One driver that is not killed* keeps the whole contract by `AloneInv`: `Walk`
says that behind the step at hand every step has done its work (`Before`), that
beyond it nothing has begun (`After`), and what its own row is at each place
(`Hand`); between two passes either nothing has begun or one child run is waited
for (`Resting`). `Tidy` says what a status about to be written and a status
written stand for (`Verdict`). The gate and the one child follow from `Front`,
the step which the work has reached.
*The contract* needs three things more (`Strict`): a run about to end has its cause
among the rows behind the invocation (`Cause`); a step about to fail has begun or is
a condition that halts (`Tried`), whatever its child run has come to, and blocks
the run only if that hit its limit (`Limited`); and a run is CANCELLED only if the
owner has asked (`Asked`). With them every action is one step of
`ExecutionContract`, at the step in hand, or leaves all stages (`StageKept`).
*One driver that is killed at any await* keeps the gate up to the first
condition. A step there that is SKIPPED was skipped by a cancellation or behind a
FAILED row (`LeadTrue`), and nothing unfinished stands before a FAILED row
(`FailedFirst`): whoever resumes the run sees the cancellation at its first check
and stops at the failure (`Tread`). Behind a condition this is lost, since a run
halted there leaves SKIPPED rows that say nothing of why.

**The publication's argument.** The cap is read before the increment, so it is
not inductive: `Capped` adds to the count the runners between check and increment
(`Coming`), which the check itself bounds. A runner that has counted owns its
attempt number until it returns (`OwnNumbers`), so two never write one attempt
and a finished one is never rewritten; `Local` says that a verdict of success was
given to publishable content. Backing then survives every overlap, although the
status of the job (`SucceededIsFinal`) does not. With one runner, what is in
progress has one owner, so a job's row and the runner's place make one stage of
the contract; a killed runner leaves its job RUNNING with nobody at work, the
stage `lost`, which no scan or retry takes up again. Every step of the module is
then one step of `JobContract` or none.

**The services' arguments.** Each invariant says what makes an old copy harmless.
*Rewards:* what a worker read of an instalment bounds what it may still write,
because released and returned only grow. *Licences and subscriptions:* the bound
on rows or devices counts those present and those about to be created by a
request that saw room. *Tickets:* nobody ever takes an admin away, so a status
allowed by a stale read is still some admin's (`Backed`). *Triggers:* Run Now
looks and creates under one lock; a slot's run is looked for by its instant in
the creating statement. *Posts:* a pass counts only from the attempts it listed,
so its own sendings are bounded by what it had left. *Limiters:* a request that
holds a lock holds it alone, and what it counted is still the count at its
commit, for only the holder adds such rows; a later window has fewer rows.
*Alerts:* the row's `lastFiredAt` is the last announcement, so a check that finds
it unchanged compares with that one. *Live sync:* `LiveSyncInv` says of every
position in the chain, wherever it is written down (server, terminal, state
file, answer under way), that its time covers its batches and that what it
acknowledges was stored; of a call about to commit, that the row it read is of
an earlier life of the account or a prefix of the chain today (`RowTrue`). The
uniqueness of a batch's number then leaves it no place but the end.

**Only model-checked.** The four liveness properties (`CallsReturn`, `RunEnds`,
`RunFinishes`, `QueueDrains`), which with `ENABLED` are beyond this prover. Every
invariant, action property and refinement that a passing run checks is a theorem;
those under "alone" hold of one actor only, and section 4 shows the runs of two
that break them. In turn `NeverOverdraws`, `ServedIsBacked`, `SucceededIsFinal`,
`GateToCondition`, `OneChildPerStep` and the types of the publishing engine are proved and in no run.

## 6. What is not modelled

`PROJECT.json` lists every component with its reason. By lines the greater part
of the repository is left aside: numerical code (back-tests, indicators,
simulation, strategy import, experts), which is data without an order of events;
pages, charts and forms; prompts, news and SEO pipelines, whose state no property
is about; generated registries and sample results. Delivery by mail, push and
messengers is pure I/O and appears as an outcome that may fail. The remaining
stateful parts were read and add nothing to check: bonus credits and payment
links change one row behind a guard in one statement, the quant-lite store is
one synchronous step of one process, market-data retries drop the answer that
lost the race, the daily publisher only calls what PublishingJobs allows at any
time.

Within the modelled parts:

* the isolation of single SQL statements is taken from Postgres (each is atomic;
  the transactions the code opens and really uses are one step);
* the clock is modelled only where a window or a cooldown is compared (AlertRules,
  RateLimit); elsewhere a timeout or a limit of time may come at any await where
  the code looks at it. Clocks of different servers are taken to agree;
* the terminal's state file is replaced in one step, where `AT24LiveSync.mq5` writes
  three lines that a crash may cut short; the MT4 expert is not modelled;
* of the limiters, the login limiter, which counts failed log-ins without a lock
  and so promises less;
* what each module's header names as left out: signatures and dates of licences,
  the billing period, cents, snapshots and heartbeats of Live Sync, the cap on
  accounts and rules.

### Hazards without a property

`PROJECT.json` lists the hazards that matter most. These are real too:

| Where | What can go wrong |
|---|---|
| `agent-runtime.ts:458` | with LLM planning switched on, a second planning slice may save another plan, and the reserve keys of the first then pay for other tools |
| `agent-runtime.ts:577` | a run stuck in planning is ended by a limit the table does not allow there (`TransitionsInTable`) |
| `evaluation-service.ts:66` | the evaluation is kept from the first terminal status when a late slice changes it |
| `credit-ledger.ts:225` | a refund takes no lock: it may fall between another call's sum and insert (it only lowers the sum, as the proof of no overdraft uses) |
| `dispatcher.ts:84`, `:125`, `:175` | a resumed invocation's poorer context; a step re-executed beside the one that started it; an agent step waited for by two |
| `dispatcher.ts:422`, `:307`, `:327` | a notice lost after the terminal status is written; a draft refused as a duplicate on resume; a second artifact on resume |
| `automation-repository.ts:342` | a run driven for more than two minutes on one step is listed as stalled and driven twice |
| `dispatcher.ts:492`, `automation-repository.ts:154` | bookkeeping uses the automation's version of today, not the run's; the next version number from the last one read |
| `run-dispatch.ts:160` | the stalled runs that do not fit the cron's time budget wait for the next |
| `daily-auto-publisher.service.ts:319` | the daily report stays a draft when the publisher dies between draft and publish |
| `article.service.ts:226`, `:254` | two edits of different fields lose one; a published article is scheduled again |
| `SubscriptionActionService.ts:144` | subscription and user plan in two statements |
| `webhooks/stripe/route.ts:241` | an update after the cancellation reactivates (`EndedStaysEnded`) |
| `live-sync/ingest.ts:65` | account cap checked, then created |
| `lib/market-data/reliability.ts:57` | an answer after its timeout, discarded while the retry runs |

## 7. What is left

Every part of section 1 has its module, its run and its proofs. Worth adding:

1. abstract specifications for the services as CreditAccount is for the ledger: a
   licence (issued, active, revoked), a chain that is only appended to;
2. AutomationTrigger and AutomationDispatch in one instance, with several runs of
   one automation;
3. the pure rules (walk-forward windows, order fill of the simulation, the
   workflow validator) as operators against a reference.
