------------------------- MODULE AutomationDispatch -------------------------
(***************************************************************************)
(* One AutomationRun and the invocations of dispatchAutomationRun()        *)
(* (services/automation/dispatcher.ts) that drive it: Run Now, the slot    *)
(* cron, the two-minute resume cron and a watching client's /advance may   *)
(* all be at it at once, and any of them may die between two awaits, killed *)
(* or by a call outside the loop's try that throws.  The owner may cancel   *)
(* meanwhile (run-dispatch.ts).                                            *)
(*                                                                         *)
(* A step below is what happens between two awaits, except that            *)
(* skipRemaining() adds a missing row and marks it in one.                 *)
(***************************************************************************)
EXTENDS Integers, Sequences, FiniteSets

CONSTANTS
    Drivers,      \* concurrent invocations of dispatchAutomationRun()
    Workflow,     \* the definition's steps: a sequence of Kinds
    Reads,        \* Reads[i]: the agent step whose result condition i looks at
    MaxYields,    \* bound: passes that end with the child run unfinished
    MaxCrashes,   \* bound: invocations that die
    MaxCancels    \* bound: cancellation requests, 0 or 1

Kinds == {"agent_run", "condition", "publication_draft", "workspace_save"}
StepIds == 1 .. Len(Workflow)
OfKind(k) == {i \in StepIds : Workflow[i] = k}

ASSUME AutomationConstants ==
    /\ IsFiniteSet(Drivers) /\ Drivers # {}
    /\ Workflow \in Seq(Kinds) /\ (Workflow # <<>> => Workflow[1] # "condition")
    /\ Reads \in [StepIds -> StepIds]
    /\ MaxYields \in Nat /\ MaxCrashes \in Nat /\ MaxCancels \in Nat

VARIABLES
    run,        \* the AutomationRun row: status, cancelRequestedAt set or not
    steps,      \* the AutomationStepRun rows: status and agentRunId (0: none)
    met,        \* conditions that the agents' real results satisfy
    children,   \* the child AgentRuns started for each step: how each has ended, or "open"
    effects,    \* drafts or artifacts each step has created
    notices,    \* owner notifications sent: failure e-mail or result delivery
    canceller,  \* requestRunCancellation(): what it has read of the run
    yields, crashes,
    pc, at, seen, held, ctx, final  \* of each driver: place, step, rows it read, child run it
                                \* drives or condition that halts it, results it holds,
                                \* status it is about to write

rows   == <<run, steps>>
world  == <<met, children, effects, notices>>
bounds == <<canceller, yields, crashes>>
locals == <<at, seen, held, ctx, final>>
vars == <<run, steps, met, children, effects, notices, canceller, yields, crashes,
          pc, at, seen, held, ctx, final>>

Terminal == {"SUCCEEDED", "FAILED", "CONDITION_HALTED", "CANCELLED", "CREDIT_BLOCKED"}
RunStatuses == {"QUEUED", "RUNNING"} \cup Terminal
StepStatuses == {"none", "PENDING", "RUNNING", "OK", "SKIPPED", "FAILED"}
StepRows == [status : StepStatuses, child : Nat]
ChildEnds == {"succeeded", "failed", "credit_limit"}
PCs == {"idle", "claim", "reread", "snapshot", "check", "append", "claimStep", "mark", "execute",
        "record", "drive", "yield", "ok", "halt", "failed", "skip", "skipping", "finalize", "notify"}

NoRow == [status |-> "none", child |-> 0]
NoRows == [i \in StepIds |-> NoRow]

Init ==
    /\ run = [status |-> "QUEUED", cancel |-> FALSE]
    /\ steps = NoRows
    /\ met \in SUBSET OfKind("condition")
    /\ children = [i \in StepIds |-> <<>>]
    /\ effects = [i \in StepIds |-> 0]
    /\ notices = 0
    /\ canceller = "idle"
    /\ yields = 0 /\ crashes = 0
    /\ pc = [d \in Drivers |-> "idle"]
    /\ at = [d \in Drivers |-> 0]
    /\ seen = [d \in Drivers |-> NoRows]
    /\ held = [d \in Drivers |-> 0]
    /\ ctx = [d \in Drivers |-> {}]
    /\ final = [d \in Drivers |-> "QUEUED"]

Goto(d, from, to) == pc[d] = from /\ pc' = [pc EXCEPT ![d] = to]
Put(f, d, v) == [f EXCEPT ![d] = v]

Return(d, from) ==
    /\ Goto(d, from, "idle")
    /\ at' = Put(at, d, 0)
    /\ seen' = Put(seen, d, NoRows)
    /\ held' = Put(held, d, 0)
    /\ ctx' = Put(ctx, d, {})
    /\ final' = Put(final, d, "QUEUED")

Bug_PastFailed(d, from, i, known) ==
    LET left == {j \in i .. Len(Workflow) : known[j].status \notin {"OK", "SKIPPED", "FAILED"}}
        next == CHOOSE j \in left : \A k \in left : j <= k
    IN  IF left = {} THEN Goto(d, from, "finalize") /\ final' = Put(final, d, "SUCCEEDED") /\ UNCHANGED at
        ELSE Goto(d, from, "check") /\ at' = Put(at, d, next) /\ UNCHANGED final

(* The loop of dispatchAutomationRun() goes on at step i with what it read at *)
(* the start: finished steps are passed over, a FAILED one ends the run.      *)
GoOnAt(d, from, i, known) ==
    LET left == {j \in i .. Len(Workflow) : known[j].status \notin {"OK", "SKIPPED"}}
        next == CHOOSE j \in left : \A k \in left : j <= k
        ends(status) == Goto(d, from, "finalize") /\ final' = Put(final, d, status) /\ UNCHANGED at
    IN  IF left = {} THEN ends("SUCCEEDED")
        ELSE IF known[next].status = "FAILED" THEN ends("FAILED")
        ELSE Goto(d, from, "check") /\ at' = Put(at, d, next) /\ UNCHANGED final

(* skipRemaining(from step i), then finalize(status). *)
SkipFrom(d, from, i, status) ==
    /\ Goto(d, from, "skip")
    /\ at' = Put(at, d, i)
    /\ final' = Put(final, d, status)

Here(d) == Workflow[at[d]]
SetStep(d, row) == steps' = Put(steps, at[d], row)
StepStatus(d, status) == SetStep(d, [steps[at[d]] EXCEPT !.status = status])

-----------------------------------------------------------------------------
Bug_LoadQueued(d) ==
    /\ run.status = "QUEUED"
    /\ Goto(d, "idle", "claim")
    /\ UNCHANGED <<rows, world, bounds, locals>>

(* getRun(): nothing to do for a terminal run. *)
Load(d) ==
    /\ run.status \notin Terminal
    /\ Goto(d, "idle", IF run.status = "QUEUED" THEN "claim" ELSE "snapshot")
    /\ UNCHANGED <<rows, world, bounds, locals>>

(* claimQueuedRun(): QUEUED -> RUNNING, only if still QUEUED. *)
ClaimRun(d) ==
    /\ Goto(d, "claim", IF run.status = "QUEUED" THEN "snapshot" ELSE "reread")
    /\ run' = IF run.status = "QUEUED" THEN [run EXCEPT !.status = "RUNNING"] ELSE run
    /\ UNCHANGED <<steps, world, bounds, locals>>

(* The claim was lost: stop only if the run is terminal by now. *)
Reread(d) ==
    /\ IF run.status \in Terminal THEN Return(d, "reread")
       ELSE Goto(d, "reread", "snapshot") /\ UNCHANGED locals
    /\ UNCHANGED <<rows, world, bounds>>

(* stepRunsForRun() and rebuildContext().  The stored output of an agent step *)
(* is its run id and status: what the agent found is not in the context.      *)
Snapshot(d) ==
    /\ GoOnAt(d, "snapshot", 1, steps)
    /\ seen' = Put(seen, d, steps)
    /\ ctx' = Put(ctx, d, {})
    /\ UNCHANGED <<rows, world, bounds, held>>

CheckCancel(d) ==
    /\ IF run.cancel THEN SkipFrom(d, "check", at[d], "CANCELLED")
       ELSE Goto(d, "check", "append") /\ UNCHANGED <<at, final>>
    /\ UNCHANGED <<rows, world, bounds, seen, held, ctx>>

(* The row read at the start, or appendStepRunIfAbsent(): the new row or the  *)
(* one another invocation has added since.                                    *)
AppendStep(d) ==
    LET i == at[d]
        fresh == IF steps[i].status = "none" THEN [NoRow EXCEPT !.status = "PENDING"] ELSE steps[i]
        row == IF seen[d][i].status = "none" THEN fresh ELSE seen[d][i]
    IN  /\ pc[d] = "append"
        /\ Goto(d, "append", IF row.status = "PENDING" THEN "claimStep" ELSE "mark")
        /\ steps' = IF seen[d][i].status = "none" THEN Put(steps, i, fresh) ELSE steps
        /\ seen' = Put(seen, d, Put(seen[d], i, row))
        /\ UNCHANGED <<run, world, bounds, at, held, ctx, final>>

(* claimStepRunForExecution(): PENDING -> RUNNING, or back off. *)
ClaimStep(d) ==
    /\ pc[d] = "claimStep"
    /\ IF steps[at[d]].status = "PENDING"
         THEN Goto(d, "claimStep", "mark") /\ StepStatus(d, "RUNNING") /\ UNCHANGED locals
         ELSE Return(d, "claimStep") /\ UNCHANGED steps
    /\ UNCHANGED <<run, world, bounds>>

(* patchStepRun(RUNNING), whatever the row has become. *)
MarkRunning(d) ==
    /\ Goto(d, "mark", "execute")
    /\ StepStatus(d, "RUNNING")
    /\ UNCHANGED <<run, world, bounds, locals>>

-----------------------------------------------------------------------------
(* executeStep(), by kind. *)
Executes(d, kind) == pc[d] = "execute" /\ Here(d) = kind

(* A left-hand side that is not in the context makes the condition false      *)
(* (all operators but neq).                                                   *)
Holds(d) == at[d] \in met /\ Reads[at[d]] \in ctx[d]

Evaluate(d) ==
    /\ Executes(d, "condition")
    /\ Goto(d, "execute", IF Holds(d) THEN "ok" ELSE "halt")
    /\ UNCHANGED <<rows, world, bounds, locals>>

(* The catch of the loop: the error is kept as the status the run will get,   *)
(* and what the invocation had read is used no more.                          *)
Fail(d, from, status) ==
    /\ Goto(d, from, "failed")
    /\ seen' = Put(seen, d, NoRows)
    /\ held' = Put(held, d, 0)
    /\ ctx' = Put(ctx, d, {})
    /\ final' = Put(final, d, status)
    /\ UNCHANGED at

(* Every call within the try may throw, having done nothing, or having done   *)
(* its work when only its answer was lost: that is a throw at the next place. *)
(* advanceAgentRun(), getAgentRun() and the patches among them, so a step may *)
(* fail over a child run that is open or has succeeded.                       *)
StepThrows(d) ==
    /\ \/ pc[d] = "execute" /\ Here(d) # "condition"
       \/ pc[d] \in {"record", "drive", "yield", "ok", "halt"}
    /\ Fail(d, pc[d], "FAILED")
    /\ UNCHANGED <<rows, world, bounds>>

Bug_StartAlways(d) ==
    /\ Executes(d, "agent_run")
    /\ Goto(d, "execute", "record")
    /\ children' = Put(children, at[d], Append(children[at[d]], "open"))
    /\ held' = Put(held, d, Len(children[at[d]]) + 1)
    /\ UNCHANGED <<rows, met, effects, notices, bounds, at, seen, ctx, final>>

(* startAgentRun(), unless the row it read already names a child run. *)
StartChild(d) ==
    /\ Executes(d, "agent_run")
    /\ seen[d][at[d]].child = 0
    /\ Goto(d, "execute", "record")
    /\ children' = Put(children, at[d], Append(children[at[d]], "open"))
    /\ held' = Put(held, d, Len(children[at[d]]) + 1)
    /\ UNCHANGED <<rows, met, effects, notices, bounds, at, seen, ctx, final>>

RecordChild(d) ==
    /\ Goto(d, "record", "drive")
    /\ SetStep(d, [steps[at[d]] EXCEPT !.child = held[d]])
    /\ UNCHANGED <<run, world, bounds, locals>>

ResumeChild(d) ==
    /\ Executes(d, "agent_run")
    /\ seen[d][at[d]].child # 0
    /\ Goto(d, "execute", "drive")
    /\ held' = Put(held, d, seen[d][at[d]].child)
    /\ UNCHANGED <<rows, world, bounds, at, seen, ctx, final>>

(* Up to MAX_AGENT_ADVANCES ticks end the child run, for good ...             *)
EndChild(d) ==
    /\ pc[d] = "drive" /\ children[at[d]][held[d]] = "open"
    /\ \E end \in ChildEnds : children' = Put(children, at[d], Put(children[at[d]], held[d], end))
    /\ UNCHANGED <<rows, met, effects, notices, bounds, pc, locals>>

(* ... and getAgentRun() tells how ...                                        *)
ReadChild(d) ==
    /\ pc[d] = "drive" /\ children[at[d]][held[d]] # "open"
    /\ CASE children[at[d]][held[d]] = "succeeded" -> Goto(d, "drive", "ok") /\ UNCHANGED locals
         [] children[at[d]][held[d]] = "credit_limit" -> Fail(d, "drive", "CREDIT_BLOCKED")
         [] OTHER -> Fail(d, "drive", "FAILED")
    /\ UNCHANGED <<rows, world, bounds>>

(* ... or do not, and the pass yields. *)
DriveOut(d) ==
    /\ pc[d] = "drive" /\ yields < MaxYields
    /\ children[at[d]][held[d]] = "open"
    /\ Goto(d, "drive", "yield")
    /\ yields' = yields + 1
    /\ UNCHANGED <<rows, world, canceller, crashes, locals>>

(* Both patches of a yield: agentRunId, then RUNNING. *)
Yield(d) ==
    /\ pc[d] = "yield"
    /\ SetStep(d, [status |-> "RUNNING", child |-> held[d]])
    /\ Return(d, "yield")
    /\ UNCHANGED <<run, world, bounds>>

(* createDraft(): the run's slug is unique, a second draft throws. *)
Draft(d) ==
    /\ Executes(d, "publication_draft")
    /\ IF effects[at[d]] = 0
         THEN Goto(d, "execute", "ok") /\ effects' = Put(effects, at[d], 1) /\ UNCHANGED locals
         ELSE Fail(d, "execute", "FAILED") /\ UNCHANGED effects
    /\ UNCHANGED <<rows, met, children, notices, bounds>>

(* appendArtifact(): always a new row. *)
Save(d) ==
    /\ Executes(d, "workspace_save")
    /\ Goto(d, "execute", "ok")
    /\ effects' = Put(effects, at[d], effects[at[d]] + 1)
    /\ UNCHANGED <<rows, met, children, notices, bounds, locals>>

-----------------------------------------------------------------------------
Bug_OkForgets(d) ==
    /\ GoOnAt(d, "ok", at[d] + 1, seen[d])
    /\ SetStep(d, [status |-> "OK", child |-> held[d]])
    /\ held' = Put(held, d, 0)
    /\ UNCHANGED <<run, world, bounds, seen, ctx>>

(* The step is patched OK and its result enters this invocation's context. *)
StepOk(d) ==
    /\ GoOnAt(d, "ok", at[d] + 1, seen[d])
    /\ SetStep(d, [status |-> "OK", child |-> held[d]])
    /\ held' = Put(held, d, 0)
    /\ ctx' = Put(ctx, d, ctx[d] \cup {at[d]})
    /\ UNCHANGED <<run, world, bounds, seen>>

StepHalts(d) ==
    /\ SkipFrom(d, "halt", at[d] + 1, "CONDITION_HALTED")
    /\ StepStatus(d, "OK")
    /\ held' = Put(held, d, at[d])
    /\ UNCHANGED <<run, world, bounds, seen, ctx>>

(* The rest of a halt is within the try, too: if it throws, the condition is  *)
(* the step that failed.                                                      *)
HaltThrows(d) ==
    /\ pc[d] \in {"skip", "skipping", "finalize", "notify"} /\ final[d] = "CONDITION_HALTED"
    /\ Goto(d, pc[d], "failed")
    /\ at' = Put(at, d, held[d])
    /\ held' = Put(held, d, 0)
    /\ final' = Put(final, d, "FAILED")
    /\ UNCHANGED <<rows, world, bounds, seen, ctx>>

Bug_FailedGoesOn(d) ==
    /\ GoOnAt(d, "failed", at[d] + 1, seen[d])
    /\ StepStatus(d, "FAILED")
    /\ UNCHANGED <<run, world, bounds, seen, held, ctx>>

Bug_FailedAsRun(d) ==
    /\ SkipFrom(d, "failed", at[d] + 1, final[d])
    /\ StepStatus(d, final[d])
    /\ UNCHANGED <<run, world, bounds, seen, held, ctx>>

StepFails(d) ==
    /\ SkipFrom(d, "failed", at[d] + 1, final[d])
    /\ StepStatus(d, "FAILED")
    /\ UNCHANGED <<run, world, bounds, seen, held, ctx>>

(* skipRemaining() reads the rows again, then goes through them. *)
SkipRead(d) ==
    /\ Goto(d, "skip", "skipping")
    /\ seen' = Put(seen, d, steps)
    /\ UNCHANGED <<rows, world, bounds, at, held, ctx, final>>

SkipNext(d) ==
    /\ pc[d] = "skipping"
    /\ IF at[d] > Len(Workflow)
         THEN Goto(d, "skipping", "finalize") /\ UNCHANGED <<steps, at>>
         ELSE LET known == IF seen[d][at[d]].status = "none" THEN steps[at[d]] ELSE seen[d][at[d]]
              IN  /\ UNCHANGED pc
                  /\ at' = Put(at, d, at[d] + 1)
                  /\ IF known.status \in {"OK", "FAILED"} THEN UNCHANGED steps
                     ELSE StepStatus(d, "SKIPPED")
    /\ UNCHANGED <<run, world, bounds, seen, held, ctx, final>>

Bug_FinalizeAlways(d) ==
    /\ Goto(d, "finalize", "notify") /\ UNCHANGED locals
    /\ run' = [run EXCEPT !.status = final[d]]
    /\ UNCHANGED <<steps, world, bounds>>

(* finalizeRunIfActive(): only who moves the run out of QUEUED/RUNNING goes on. *)
Finalize(d) ==
    /\ IF run.status \notin Terminal
         THEN Goto(d, "finalize", "notify") /\ run' = [run EXCEPT !.status = final[d]] /\ UNCHANGED locals
         ELSE Return(d, "finalize") /\ UNCHANGED run
    /\ UNCHANGED <<steps, world, bounds>>

(* The failure e-mail, or the delivery of the result. *)
Notify(d) ==
    /\ Return(d, "notify")
    /\ notices' = IF final[d] \in {"FAILED", "CREDIT_BLOCKED", "SUCCEEDED"} THEN notices + 1 ELSE notices
    /\ UNCHANGED <<rows, met, children, effects, bounds>>

Crash(d) ==
    /\ crashes < MaxCrashes
    /\ pc[d] # "idle"
    /\ Return(d, pc[d])
    /\ crashes' = crashes + 1
    /\ UNCHANGED <<rows, world, canceller, yields>>

-----------------------------------------------------------------------------
(* requestRunCancellation(): 409 for a terminal run, else act on what was read. *)
CancelRead ==
    /\ MaxCancels > 0 /\ canceller = "idle"
    /\ run.status \notin Terminal
    /\ canceller' = run.status
    /\ UNCHANGED <<rows, world, yields, crashes, pc, locals>>

CancelPatch ==
    /\ canceller \in {"QUEUED", "RUNNING"}
    /\ run' = IF canceller = "QUEUED" THEN [status |-> "CANCELLED", cancel |-> TRUE]
              ELSE [run EXCEPT !.cancel = TRUE]
    /\ canceller' = "done"
    /\ UNCHANGED <<steps, world, yields, crashes, pc, locals>>

Begin(d) == Load(d) \/ ClaimRun(d) \/ Reread(d) \/ Snapshot(d)
Enter(d) == CheckCancel(d) \/ AppendStep(d) \/ ClaimStep(d) \/ MarkRunning(d)
Child(d) == StartChild(d) \/ RecordChild(d) \/ ResumeChild(d)
            \/ EndChild(d) \/ ReadChild(d) \/ DriveOut(d) \/ Yield(d)
Work(d)  == StepThrows(d) \/ Evaluate(d) \/ Child(d) \/ Draft(d) \/ Save(d)
Finish(d) == \/ StepOk(d) \/ StepHalts(d) \/ HaltThrows(d) \/ StepFails(d)
             \/ SkipRead(d) \/ SkipNext(d)
Close(d) == Finalize(d) \/ Notify(d)
Drive(d) == Begin(d) \/ Enter(d) \/ Work(d) \/ Finish(d) \/ Close(d)

Next == \/ \E d \in Drivers : Drive(d) \/ Crash(d)
        \/ CancelRead \/ CancelPatch

Spec == Init /\ [][Next]_vars

(* The resume cron comes back every two minutes for a run that is not over.   *)
FairSpec == Spec /\ \A d \in Drivers : WF_vars(Drive(d))
-----------------------------------------------------------------------------
(* The rows hold statuses of their own kind, the locals what was read.        *)
TypeOK ==
    /\ run \in [status : RunStatuses, cancel : BOOLEAN]
    /\ steps \in [StepIds -> StepRows]
    /\ met \subseteq StepIds
    /\ children \in [StepIds -> Seq(ChildEnds \cup {"open"})]
    /\ effects \in [StepIds -> Nat] /\ notices \in Nat
    /\ canceller \in {"idle", "done", "QUEUED", "RUNNING"}
    /\ yields \in Nat /\ crashes \in Nat
    /\ pc \in [Drivers -> PCs]
    /\ at \in [Drivers -> Nat]
    /\ seen \in [Drivers -> [StepIds -> StepRows]]
    /\ held \in [Drivers -> Nat]
    /\ ctx \in [Drivers -> SUBSET StepIds]
    /\ final \in [Drivers -> RunStatuses]

(* dispatcher.ts:397, "nobody is notified twice", whoever drives, finalizes    *)
(* again or cancels.                                                          *)
NotifiedOnce == notices <= 1

(* AUTOMATION_EXECUTION_CONTRACT 4.2, "no step runs until the previous step   *)
(* reached OK": a step has effects only when every earlier agent succeeded.   *)
(* Invocations that overlap and die pass over SKIPPED rows as if finished.    *)
HasEffect(i) == children[i] # <<>> \/ effects[i] > 0
AgentsGate ==
    \A i \in StepIds : HasEffect(i) =>
        \A j \in OfKind("agent_run") : j < i => \E c \in DOMAIN children[j] : children[j][c] = "succeeded"

(* What survives of it when invocations overlap and die: nothing has effects  *)
(* before the first step, which is never skipped but by cancelling the run,   *)
(* has done its work.                                                         *)
Done(i) == \/ effects[i] > 0
           \/ \E c \in DOMAIN children[i] : children[i][c] = "succeeded"
FirstStepGate == \A i \in StepIds : i > 1 /\ HasEffect(i) => Done(1)

(* The same for conditions: nothing behind a false condition has effects.     *)
ConditionsGate ==
    \A i \in StepIds : HasEffect(i) => \A j \in OfKind("condition") : j < i => j \in met

(* What survives of both when invocations do not overlap but may be killed at *)
(* any await: up to the first condition, each step has effects only when all  *)
(* the steps before it have done their work.                                  *)
Leading == {j \in StepIds : \A k \in OfKind("condition") : k > j}
GateToCondition == \A i \in StepIds : HasEffect(i) => \A j \in Leading : j < i => Done(j)

(* Both together: what one invocation at a time keeps.                        *)
StepsGate == AgentsGate /\ ConditionsGate

(* What a run ends with is what its steps did: SUCCEEDED, every step is OK and *)
(* has done its work, the agent's recorded child run its own; stopped early,  *)
(* no step is left without a row, PENDING or RUNNING; FAILED, a step failed;  *)
(* blocked, one whose recorded child run hit the credit limit; halted, some   *)
(* condition really was not satisfied.  A failed step tells nothing of its    *)
(* work: the call that threw may only have lost the answer.                   *)
RecordedEnd(i, end) == steps[i].child \in DOMAIN children[i] /\ children[i][steps[i].child] = end
Worked(i) ==
    CASE Workflow[i] = "agent_run" -> RecordedEnd(i, "succeeded")
      [] Workflow[i] = "condition" -> i \in met
      [] OTHER -> effects[i] = 1
EndsAsItsStepsSay ==
    /\ run.status = "SUCCEEDED" => \A i \in StepIds : steps[i].status = "OK" /\ Worked(i)
    /\ run.status \in {"FAILED", "CREDIT_BLOCKED", "CONDITION_HALTED"} =>
         \A i \in StepIds : steps[i].status \in {"OK", "SKIPPED", "FAILED"}
    /\ run.status = "FAILED" => \E i \in StepIds : steps[i].status = "FAILED"
    /\ run.status = "CREDIT_BLOCKED" =>
         \E i \in StepIds : steps[i].status = "FAILED" /\ RecordedEnd(i, "credit_limit")
    /\ run.status = "CONDITION_HALTED" => ~(OfKind("condition") \subseteq met)

(* An agent step starts one child run.                                        *)
OneChildPerStep == \A i \in StepIds : Len(children[i]) <= 1

(* AUTOMATION_EXECUTION_CONTRACT 3, "any terminal: immutable", as far as it    *)
(* holds: an end is only rewritten by a cancellation that had read QUEUED     *)
(* (run-dispatch.ts:247 patches by id), and only to CANCELLED.                *)
EndsAreKept ==
    [][(run.status \in Terminal /\ run'.status # run.status)
         => (run'.status = "CANCELLED" /\ canceller = "QUEUED" /\ canceller' = "done")]_vars

(* A run that keeps being resumed comes to an end.                            *)
RunFinishes == <>(run.status \in Terminal)

(* How far each step is, for one invocation at a time: a step has begun when   *)
(* it has passed the check for a cancellation, though its row may come later; *)
(* a condition that is not met halts the run, though its row says OK.         *)
Stage(i) ==
    CASE steps[i].status = "OK" -> IF i \in OfKind("condition") \ met THEN "halted" ELSE "done"
      [] steps[i].status = "SKIPPED" -> "skipped"
      [] steps[i].status = "FAILED" -> "failed"
      [] steps[i].status \in {"PENDING", "RUNNING"} -> "begun"
      [] OTHER -> IF \E d \in Drivers : pc[d] = "append" /\ at[d] = i THEN "begun" ELSE "ahead"

(* What dispatchAutomationRun() promises of a run when its invocations neither *)
(* overlap nor die: the contract of ExecutionContract.                        *)
Contract == INSTANCE ExecutionContract WITH
    Steps <- StepIds, Kind <- Workflow,
    status <- run.status, cancelled <- run.cancel, stage <- [i \in StepIds |-> Stage(i)]
ImplementsExecutionContract == Contract!Spec
=============================================================================
