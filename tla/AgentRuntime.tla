---------------------------- MODULE AgentRuntime ----------------------------
(***************************************************************************)
(* One AgentRun and the overlapping calls of AgentRuntime.tick() that      *)
(* drive it (runtime/agent-runtime.ts).  tick() reads the row, claims it   *)
(* by its updatedAt, runs ONE slice (plan, one tool call, or the final     *)
(* output) and patches the row.  Nothing keeps a second caller from        *)
(* reading the row after the claim and claiming it again, so slices may    *)
(* overlap; an invocation may also die between any two awaits.  A step     *)
(* below is what happens between two awaits.                               *)
(*                                                                         *)
(* The plan is fixed, as the deterministic planner's is for one definition *)
(* and input.  charge() and refund() are the atomic account that module    *)
(* CreditAccount specifies.  An evaluation is best-effort and left out.    *)
(***************************************************************************)
EXTENDS Integers, FiniteSetsExt

CONSTANTS
    Tickers,          \* concurrent callers of tick(): pollers, cron, client retries
    PlanLength,       \* number of tool requests in the plan
    Price,            \* Price[i]: flatEstimate() of the tool of plan step i
    MaxSteps,         \* AgentRunLimits, snapshotted at startRun()
    MaxToolCalls,
    MaxCreditCost,
    MaxCrashes        \* bound: invocations that die or throw in one behaviour

PlanSteps == 0 .. (PlanLength - 1)

ASSUME RunConstants ==
    /\ IsFiniteSet(Tickers) /\ Tickers # {}
    /\ PlanLength \in Nat
    /\ Price \in [PlanSteps -> Nat]
    /\ MaxSteps \in Nat \ {0} /\ MaxToolCalls \in Nat \ {0} /\ MaxCreditCost \in Nat \ {0}
    /\ MaxCrashes \in Nat

VARIABLES
    row,         \* the AgentRun row; next is resumeState.nextPlanIndex
    fresh,       \* tickers whose copy still carries the row's updatedAt
    stepRows,    \* number of AgentStep rows; their indexes are 0 .. stepRows-1
    callRows,    \* number of AgentToolCall rows
    okCalls,     \* plan steps with an AgentToolCall row of status ok
    reserved,    \* plan steps whose :reserve entry is in the ledger
    refunded,    \* plan steps whose :refund entry is in the ledger
    badInput,    \* plan steps whose input the tool's parseInput() refuses
    crashes,     \* invocations lost so far
    pc, copy, doing, index, outcome   \* of each ticker: its place, its `run`, locals

tables   == <<stepRows, callRows, okCalls>>
ledger   == <<reserved, refunded>>
locals   == <<copy, doing, index, outcome>>
vars == <<row, fresh, stepRows, callRows, okCalls, reserved, refunded, badInput, crashes,
          pc, copy, doing, index, outcome>>

Failures == {"failed", "timeout", "credit_limit", "step_limit", "tool_call_limit",
             "permission_denied", "tool_error"}
Terminal == Failures \cup {"succeeded"}
Statuses == {"queued", "planning", "running"} \cup Terminal
Rows == [status : Statuses, planned : BOOLEAN, next : Nat, credits : Nat]
Outcomes == {"none", "ok", "error", "invalid"} \cup Failures
Kinds == {"none", "plan", "tool_call", "evidence", "output", "evaluation", "over_budget", "denied"}
PCs == {"idle", "claim", "count", "resume", "planning", "planned", "reserve", "execute",
        "index", "append", "record", "recordDenial", "refund", "advance", "finish", "terminate"}

NewRow == [status |-> "queued", planned |-> FALSE, next |-> 0, credits |-> 0]

Init ==
    /\ row = NewRow
    /\ fresh = {}
    /\ stepRows = 0 /\ callRows = 0 /\ okCalls = {}
    /\ reserved = {} /\ refunded = {}
    /\ badInput \in SUBSET PlanSteps
    /\ crashes = 0
    /\ pc = [t \in Tickers |-> "idle"]
    /\ copy = [t \in Tickers |-> NewRow]
    /\ doing = [t \in Tickers |-> "none"]
    /\ index = [t \in Tickers |-> 0]
    /\ outcome = [t \in Tickers |-> "none"]

(* An update bumps updatedAt: no copy carries the row's version any more. *)
Patch(r) == row' = r /\ fresh' = {}

Goto(t, from, to) == pc[t] = from /\ pc' = [pc EXCEPT ![t] = to]

(* Go and append a step row of this kind. *)
Trace(t, from, kind) ==
    /\ Goto(t, from, "index")
    /\ doing' = [doing EXCEPT ![t] = kind]

Return(t, from) ==
    /\ Goto(t, from, "idle")
    /\ copy' = [copy EXCEPT ![t] = NewRow]
    /\ doing' = [doing EXCEPT ![t] = "none"]
    /\ index' = [index EXCEPT ![t] = 0]
    /\ outcome' = [outcome EXCEPT ![t] = "none"]

Fail(t, from, status) ==
    /\ Goto(t, from, "terminate")
    /\ outcome' = [outcome EXCEPT ![t] = status]

-----------------------------------------------------------------------------
(* tick(): getRun().  A terminal row is returned as it is. *)
Read(t) ==
    /\ row.status \notin Terminal
    /\ Goto(t, "idle", "claim")
    /\ copy' = [copy EXCEPT ![t] = row]
    /\ fresh' = fresh \cup {t}
    /\ UNCHANGED <<row, tables, ledger, badInput, crashes, doing, index, outcome>>

(* claimForTick(): UPDATE ... WHERE updatedAt is the one read. *)
Claim(t) ==
    /\ t \in fresh
    /\ Goto(t, "claim", "count")
    /\ Patch([row EXCEPT !.status = copy[t].status])
    /\ UNCHANGED <<tables, ledger, badInput, crashes, locals>>

ClaimLost(t) ==
    /\ t \notin fresh
    /\ Return(t, "claim")
    /\ UNCHANGED <<row, fresh, tables, ledger, badInput, crashes>>

Bug_LimitPassed(t) ==
    (IF copy[t].status # "queued" THEN {"timeout"} ELSE {}) \cup
    {CASE stepRows > MaxSteps -> "step_limit"
       [] callRows >= MaxToolCalls -> "tool_call_limit"
       [] copy[t].credits > MaxCreditCost -> "credit_limit"
       [] OTHER -> "ok"}

(* checkLimits(), in its order.  The clock runs from startedAt, which the     *)
(* queued row has not; maxRetries cannot be crossed, retriesUsed stays 0.     *)
LimitAnswers(t) ==
    (IF copy[t].status # "queued" THEN {"timeout"} ELSE {}) \cup
    {CASE stepRows >= MaxSteps -> "step_limit"
       [] callRows >= MaxToolCalls -> "tool_call_limit"
       [] copy[t].credits > MaxCreditCost -> "credit_limit"
       [] OTHER -> "ok"}

Breach(t) ==
    /\ \E status \in LimitAnswers(t) \ {"ok"} : Fail(t, "count", status)
    /\ UNCHANGED <<row, fresh, tables, ledger, badInput, crashes, copy, doing, index>>

(* The counts are in and no limit is reached: tick() dispatches on run.status. *)
Dispatch(t, statuses) == "ok" \in LimitAnswers(t) /\ copy[t].status \in statuses

Bug_BeginPlanUnmarked(t) ==
    /\ Dispatch(t, {"queued", "planning"})
    /\ IF copy[t].planned THEN Goto(t, "count", "resume") /\ UNCHANGED doing
       ELSE Trace(t, "count", "plan")
    /\ UNCHANGED <<row, fresh, tables, ledger, badInput, crashes, copy, index, outcome>>

(* doPlan(): a planned run resumes, a queued one is first marked planning. *)
BeginPlan(t) ==
    /\ Dispatch(t, {"queued", "planning"})
    /\ IF copy[t].planned THEN Goto(t, "count", "resume") /\ UNCHANGED doing
       ELSE IF copy[t].status = "queued" THEN Goto(t, "count", "planning") /\ UNCHANGED doing
       ELSE Trace(t, "count", "plan")
    /\ UNCHANGED <<row, fresh, tables, ledger, badInput, crashes, copy, index, outcome>>

Resume(t) ==
    /\ Return(t, "resume")
    /\ Patch([row EXCEPT !.status = "running", !.next = 0])
    /\ UNCHANGED <<tables, ledger, badInput, crashes>>

MarkPlanning(t) ==
    /\ Trace(t, "planning", "plan")
    /\ Patch([row EXCEPT !.status = "planning"])
    /\ UNCHANGED <<tables, ledger, badInput, crashes, copy, index, outcome>>

SavePlan(t) ==
    /\ Return(t, "planned")
    /\ Patch([row EXCEPT !.status = "running", !.planned = TRUE, !.next = 0])
    /\ UNCHANGED <<tables, ledger, badInput, crashes>>

-----------------------------------------------------------------------------
Bug_LastIndex(t) ==
    /\ Goto(t, "index", "append")
    /\ index' = [index EXCEPT ![t] = stepRows - 1]
    /\ UNCHANGED <<row, fresh, tables, ledger, badInput, crashes, copy, doing, outcome>>

(* RunTracer.step(): read the next index, then insert under unique (runId,    *)
(* index); the insert of an index taken meanwhile throws out of tick().       *)
ReadIndex(t) ==
    /\ Goto(t, "index", "append")
    /\ index' = [index EXCEPT ![t] = stepRows]
    /\ UNCHANGED <<row, fresh, tables, ledger, badInput, crashes, copy, doing, outcome>>

AfterStep == [plan |-> "planned", tool_call |-> "record", evidence |-> "advance",
              output |-> "index", evaluation |-> "finish", over_budget |-> "terminate",
              denied |-> "recordDenial"]

AppendStep(t) ==
    /\ index[t] = stepRows
    /\ Goto(t, "append", AfterStep[doing[t]])
    /\ stepRows' = stepRows + 1
    /\ doing' = [doing EXCEPT ![t] = IF doing[t] = "output" THEN "evaluation" ELSE "none"]
    /\ index' = [index EXCEPT ![t] = 0]
    /\ UNCHANGED <<row, fresh, callRows, okCalls, ledger, badInput, crashes, copy, outcome>>

AppendTaken(t) ==
    /\ index[t] # stepRows
    /\ Return(t, "append")
    /\ UNCHANGED <<row, fresh, tables, ledger, badInput, crashes>>

-----------------------------------------------------------------------------
Bug_SynthesiseEarly(t) ==
    /\ "ok" \in LimitAnswers(t) /\ copy[t].status = "running"
    /\ copy[t].next >= PlanLength - 1
    /\ Trace(t, "count", "output")
    /\ UNCHANGED <<row, fresh, tables, ledger, badInput, crashes, copy, index, outcome>>

(* doRunningSlice(), the plan exhausted: output step, integrity gate, its     *)
(* evaluation step, and the verdict.                                          *)
Synthesise(t) ==
    /\ Dispatch(t, {"running"})
    /\ copy[t].next >= PlanLength
    /\ Trace(t, "count", "output")
    /\ UNCHANGED <<row, fresh, tables, ledger, badInput, crashes, copy, index, outcome>>

Finish(t, status) ==
    /\ Return(t, "finish")
    /\ Patch([row EXCEPT !.status = status, !.next = 0])
    /\ UNCHANGED <<tables, ledger, badInput, crashes>>

Succeed(t) == Finish(t, "succeeded")
FailIntegrity(t) == Finish(t, "failed")

(* doRunningSlice(), a plan step left: authorize() ...                        *)
NextStep(t) == Dispatch(t, {"running"}) /\ copy[t].next < PlanLength
Bug_BudgetBehind(t) == copy[t].credits <= MaxCreditCost
WithinBudget(t) == copy[t].credits + Price[copy[t].next] <= MaxCreditCost

Authorize(t) ==
    /\ NextStep(t)
    /\ WithinBudget(t)
    /\ Goto(t, "count", "reserve")
    /\ UNCHANGED <<row, fresh, tables, ledger, badInput, crashes, locals>>

OverBudget(t) ==
    /\ NextStep(t)
    /\ ~WithinBudget(t)
    /\ Trace(t, "count", "over_budget")
    /\ outcome' = [outcome EXCEPT ![t] = "credit_limit"]
    /\ UNCHANGED <<row, fresh, tables, ledger, badInput, crashes, copy, index>>

(* Tools and their floors come from the deployed registry, which may change   *)
(* between two ticks of a run: a policy denial is possible at any tick.       *)
Deny(t) ==
    /\ NextStep(t)
    /\ Trace(t, "count", "denied")
    /\ \E status \in {"permission_denied", "tool_error"} : outcome' = [outcome EXCEPT ![t] = status]
    /\ UNCHANGED <<row, fresh, tables, ledger, badInput, crashes, copy, index>>

RecordDenial(t) ==
    /\ Goto(t, "recordDenial", "terminate")
    /\ callRows' = callRows + 1
    /\ UNCHANGED <<row, fresh, stepRows, okCalls, ledger, badInput, crashes, locals>>

Bug_ReserveLater(t) ==
    /\ Goto(t, "reserve", "execute")
    /\ UNCHANGED <<row, fresh, tables, ledger, badInput, crashes, locals>>

(* ... reserve the estimate under the key run:step:reserve, a no-op when the  *)
(* entry exists ...                                                           *)
Reserve(t) ==
    /\ Goto(t, "reserve", "execute")
    /\ reserved' = reserved \cup {copy[t].next}
    /\ UNCHANGED <<row, fresh, tables, refunded, badInput, crashes, locals>>

Insufficient(t) ==
    /\ Fail(t, "reserve", "credit_limit")
    /\ copy[t].next \notin reserved /\ Price[copy[t].next] > 0
    /\ UNCHANGED <<row, fresh, tables, ledger, badInput, crashes, copy, doing, index>>

(* ... invokeTool(), whose refusal of a bad input costs nothing and whose     *)
(* errors and timeouts cost the estimate ...                                  *)
Execute(t) ==
    /\ Trace(t, "execute", "tool_call")
    /\ \E o \in (IF copy[t].next \in badInput THEN {"invalid"} ELSE {"ok", "error"}) :
         outcome' = [outcome EXCEPT ![t] = o]
    /\ UNCHANGED <<row, fresh, tables, ledger, badInput, crashes, copy, index>>

(* ... appendToolCall(), and the evidence with its step if there is any ...   *)
Record(t) ==
    /\ callRows' = callRows + 1
    /\ okCalls' = IF outcome[t] = "ok" THEN okCalls \cup {copy[t].next} ELSE okCalls
    /\ \/ outcome[t] = "ok" /\ Trace(t, "record", "evidence")
       \/ /\ Goto(t, "record", IF outcome[t] = "invalid" THEN "refund" ELSE "advance")
          /\ UNCHANGED doing
    /\ UNCHANGED <<row, fresh, stepRows, ledger, badInput, crashes, copy, index, outcome>>

(* ... reconcile: only a refused input leaves a difference, the whole price.  *)
Refund(t) ==
    /\ Goto(t, "refund", "advance")
    /\ refunded' = IF Price[copy[t].next] > 0 THEN refunded \cup {copy[t].next} ELSE refunded
    /\ UNCHANGED <<row, fresh, tables, reserved, badInput, crashes, locals>>

CreditsAfter(t) ==
    copy[t].credits + (IF outcome[t] = "invalid" THEN 0 ELSE Price[copy[t].next])

Bug_AdvanceFromRow(t) ==
    /\ outcome[t] = "ok"
    /\ Return(t, "advance")
    /\ Patch([row EXCEPT !.credits = CreditsAfter(t), !.next = row.next + 1])
    /\ UNCHANGED <<tables, ledger, badInput, crashes>>

(* The last patch of the slice writes counters computed from the stale copy.  *)
Advance(t) ==
    /\ outcome[t] = "ok"
    /\ Return(t, "advance")
    /\ Patch([row EXCEPT !.credits = CreditsAfter(t), !.next = copy[t].next + 1])
    /\ UNCHANGED <<tables, ledger, badInput, crashes>>

ToolFailed(t) ==
    /\ outcome[t] # "ok"
    /\ Fail(t, "advance", "tool_error")
    /\ Patch([row EXCEPT !.credits = CreditsAfter(t)])
    /\ UNCHANGED <<tables, ledger, badInput, crashes, copy, doing, index>>

Bug_TerminateStale(t) ==
    /\ Return(t, "terminate")
    /\ Patch([row EXCEPT !.status = copy[t].status, !.next = 0])
    /\ UNCHANGED <<tables, ledger, badInput, crashes>>

(* terminate(): an unconditional patch, whatever the row has become.          *)
Terminate(t) ==
    /\ Return(t, "terminate")
    /\ Patch([row EXCEPT !.status = outcome[t], !.next = 0])
    /\ UNCHANGED <<tables, ledger, badInput, crashes>>

(* The invocation is killed, or an await of it throws (the planner, the       *)
(* ledger's busy lock, the database): tick() ends where it stands.            *)
Crash(t) ==
    /\ crashes < MaxCrashes
    /\ pc[t] # "idle"
    /\ Return(t, pc[t])
    /\ crashes' = crashes + 1
    /\ fresh' = fresh \ {t}
    /\ UNCHANGED <<row, tables, ledger, badInput>>

-----------------------------------------------------------------------------
Plan(t)  == BeginPlan(t) \/ Resume(t) \/ MarkPlanning(t) \/ SavePlan(t)
Tracing(t) == ReadIndex(t) \/ AppendStep(t) \/ AppendTaken(t)
Output(t) == Synthesise(t) \/ Succeed(t) \/ FailIntegrity(t)
Gate(t)  == Authorize(t) \/ OverBudget(t) \/ Deny(t) \/ RecordDenial(t)
Tool(t)  == Reserve(t) \/ Insufficient(t) \/ Execute(t) \/ Record(t) \/ Refund(t)
Close(t) == Advance(t) \/ ToolFailed(t) \/ Terminate(t)
Tick(t)  == \/ Read(t) \/ Claim(t) \/ ClaimLost(t) \/ Breach(t)
            \/ Plan(t) \/ Tracing(t) \/ Output(t) \/ Gate(t) \/ Tool(t) \/ Close(t)

Next == \E t \in Tickers : Tick(t) \/ Crash(t)

Spec == Init /\ [][Next]_vars

(* Somebody polls until the run is terminal, and an invocation that is not    *)
(* killed goes on.                                                            *)
FairSpec == Spec /\ \A t \in Tickers : WF_vars(Tick(t))
-----------------------------------------------------------------------------
TypeOK ==
    /\ row \in Rows
    /\ fresh \subseteq Tickers
    /\ stepRows \in Nat /\ callRows \in Nat
    /\ okCalls \subseteq PlanSteps
    /\ reserved \subseteq PlanSteps /\ refunded \subseteq PlanSteps
    /\ badInput \subseteq PlanSteps
    /\ crashes \in Nat
    /\ pc \in [Tickers -> PCs]
    /\ copy \in [Tickers -> Rows]
    /\ doing \in [Tickers -> Kinds]
    /\ index \in [Tickers -> Nat]
    /\ outcome \in [Tickers -> Outcomes]

(* However slices overlap, restart or overwrite each other's resumeState, a   *)
(* run only succeeds when every step of its plan has a successful tool call.  *)
SucceededMeansDone == row.status = "succeeded" => okCalls = PlanSteps

(* agent-runtime.ts:455, "RESERVE the estimate BEFORE the executor": a tool   *)
(* call on record was paid for, by an entry no refund has taken back.         *)
WorkIsPaid == okCalls \subseteq reserved \ refunded

(* maxSteps holds up to what slices begun below it may still append: two step *)
(* rows for each overlapping tick.                                            *)
StepsBounded == stepRows <= MaxSteps - 1 + 2 * Cardinality(Tickers)

(* Polled, the run comes to a terminal status: restarts and resets of the     *)
(* plan index cannot keep it going for ever.                                  *)
RunEnds == <>(row.status \in Terminal)

(* agent-run-contract.ts:433, "a run in this state can never transition".     *)
TerminalIsFinal == [][row.status \in Terminal => row'.status = row.status]_row

(* RUN_STATUS_TRANSITIONS, for the statuses the runtime writes.               *)
Permitted ==
    [queued |-> {"planning"},
     planning |-> {"running", "failed", "permission_denied", "credit_limit"},
     running |-> Terminal]

(* agent-runtime.ts:579, a transition outside the table "should never happen  *)
(* given the dispatch".                                                       *)
TransitionsInTable ==
    [][(row'.status # row.status /\ row.status \notin Terminal)
         => row'.status \in Permitted[row.status]]_row

(* agent-runtime.ts:576-579: a tick that still sees the row's status changes  *)
(* it only along the table, or ends a planning run by a limit other than the  *)
(* credit one, which the code allows and the table does not.                  *)
PlanningStops == {"timeout", "step_limit", "tool_call_limit"}
Allowed(old, new) ==
    \/ old \notin Terminal /\ new \in Permitted[old]
    \/ old = "planning" /\ new \in PlanningStops
StatusMoves ==
    [][\A t \in Tickers : (pc'[t] # pc[t] /\ row'.status # row.status /\ copy[t].status = row.status)
         => Allowed(row.status, row'.status)]_vars

(* agent-run.repository.ts:274, the loser of a claim "backs off instead of    *)
(* both executing a slice concurrently".                                      *)
Executing(t) == pc[t] \notin {"idle", "claim"}
OneSliceAtATime == \A t, u \in Tickers : (Executing(t) /\ Executing(u)) => t = u

(* The AF-v1 contract, which the ticks of a run implement when they do not    *)
(* overlap, crashes and restarts included.                                    *)
Contract == INSTANCE RunContract WITH status <- row.status, next <- row.next, paid <- reserved
ImplementsContract == Contract!Spec

(* agent-run-contract.ts:138, "the effective ceilings for one run": what the  *)
(* ledger holds against the run's plan steps stays within maxCreditCost, the  *)
(* ceiling authorize() compares the row's own counter with.                   *)
Cost(steps) == MapThenSumSet(LAMBDA i : Price[i], steps)
BudgetHolds == Cost(reserved \ refunded) <= MaxCreditCost
=============================================================================
