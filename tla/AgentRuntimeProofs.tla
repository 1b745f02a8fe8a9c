------------------------- MODULE AgentRuntimeProofs -------------------------
(* Theorems about AgentRuntime, for every value of its constants. *)
EXTENDS AgentRuntime, FiniteSetTheorems, SetSums, TLAPS

(***************************************************************************)
(* The inductive invariant.  Its local part says what a tick knows at each *)
(* place it can stand; every fact it needs about the tables only grows     *)
(* truer (rows are appended, never removed), so other tickers keep it.     *)
(***************************************************************************)

Tracing_(t, kinds) == pc[t] \in {"index", "append"} /\ doing[t] \in kinds

(* At work on plan step copy.next; the reserve entry is written.               *)
OnStep(t) == pc[t] \in {"reserve", "execute", "record", "refund", "advance"}
             \/ Tracing_(t, {"tool_call", "evidence"})
Paid(t) == OnStep(t) /\ pc[t] # "reserve"
Ending(t) == pc[t] \in {"terminate", "recordDenial"} \/ Tracing_(t, {"over_budget", "denied"})
Finishing(t) == pc[t] = "finish" \/ Tracing_(t, {"output", "evaluation"})
Returned(t) == pc[t] \in {"record", "refund", "advance"} \/ Tracing_(t, {"tool_call", "evidence"})
OnRecord(t) == pc[t] \in {"refund", "advance"} \/ Tracing_(t, {"evidence"})

Local(t) ==
    /\ pc[t] = "claim" => copy[t].status \notin Terminal
    /\ pc[t] \in {"index", "append"} => doing[t] \in DOMAIN AfterStep
    /\ OnStep(t) => copy[t].next \in PlanSteps
    /\ Paid(t) => copy[t].next \in reserved
    /\ Ending(t) => outcome[t] \in Failures
    /\ Finishing(t) => copy[t].next >= PlanLength
    /\ Returned(t) => outcome[t] \in {"ok", "error", "invalid"}
    /\ Returned(t) /\ outcome[t] = "ok" => copy[t].next \notin badInput
    /\ Returned(t) /\ outcome[t] = "invalid" => copy[t].next \in badInput
    /\ pc[t] = "refund" => outcome[t] = "invalid"
    /\ OnRecord(t) /\ outcome[t] = "ok" => copy[t].next \in okCalls
    /\ Tracing_(t, {"evidence"}) => outcome[t] = "ok"
    /\ \A i \in PlanSteps : i < copy[t].next => i \in okCalls

Shared ==
    /\ \A i \in PlanSteps : i < row.next => i \in okCalls
    /\ row.status = "succeeded" => okCalls = PlanSteps
    /\ okCalls \cap badInput = {}
    /\ okCalls \subseteq reserved
    /\ refunded \subseteq badInput

Inv == TypeOK /\ Shared /\ \A t \in Tickers : Local(t)

LEMMA RunTypes ==
    ASSUME TypeOK, NEW t \in Tickers
    PROVE  /\ copy[t] \in Rows /\ copy[t].next \in Nat /\ copy[t].credits \in Nat
           /\ copy[t].status \in Statuses /\ copy[t].planned \in BOOLEAN
           /\ row.next \in Nat /\ row.credits \in Nat /\ row.status \in Statuses
           /\ pc[t] \in PCs /\ doing[t] \in Kinds /\ outcome[t] \in Outcomes
           /\ index[t] \in Nat
<1>1. copy[t] \in Rows /\ row \in Rows  BY DEF TypeOK
<1> QED BY <1>1 DEF TypeOK, Rows

LEMMA PlanFacts ==
    /\ NewRow \in Rows
    /\ PlanLength \in Nat
    /\ \A i \in Nat : i < PlanLength <=> i \in PlanSteps
    /\ \A i \in PlanSteps : i \in Nat /\ Price[i] \in Nat
BY RunConstants DEF NewRow, Rows, Statuses, PlanSteps

(* A step of t leaves the locals of the others alone and takes no row away: it *)
(* is enough to look at t and at the shared part.                              *)
Elsewhere(t) ==
    /\ \A u \in Tickers \ {t} : /\ pc'[u] = pc[u] /\ copy'[u] = copy[u]
                               /\ doing'[u] = doing[u] /\ outcome'[u] = outcome[u]
    /\ okCalls \subseteq okCalls' /\ reserved \subseteq reserved' /\ badInput' = badInput

LEMMA OneTicker ==
    ASSUME Inv, NEW t \in Tickers, Elsewhere(t), TypeOK', Shared', Local(t)'
    PROVE  Inv'
<1>1. ASSUME NEW u \in Tickers, u # t PROVE Local(u)'
    BY <1>1 DEF Inv, Elsewhere, Local, OnStep, Paid, Ending, Finishing, Returned, OnRecord, Tracing_, AfterStep
<1> QED BY <1>1 DEF Inv

(* A tick that returns knows nothing. *)
LEMMA ReturnLocals ==
    ASSUME TypeOK, NEW t \in Tickers, NEW from, Return(t, from)
    PROVE  /\ pc' \in [Tickers -> PCs] /\ copy' \in [Tickers -> Rows]
           /\ doing' \in [Tickers -> Kinds] /\ index' \in [Tickers -> Nat]
           /\ outcome' \in [Tickers -> Outcomes]
           /\ Local(t)'
           /\ \A u \in Tickers \ {t} : /\ pc'[u] = pc[u] /\ copy'[u] = copy[u]
                                      /\ doing'[u] = doing[u] /\ outcome'[u] = outcome[u]
<1>1. pc'[t] = "idle" /\ copy'[t] = NewRow  BY DEF TypeOK, Return, Goto
<1>2. Local(t)'
  <2>1. \A i \in PlanSteps : ~(i < copy'[t].next)  BY <1>1, PlanFacts DEF NewRow
  <2> QED BY <1>1, <2>1 DEF Local, OnStep, Paid, Ending, Finishing, Returned, OnRecord, Tracing_
<1> QED BY <1>2, PlanFacts DEF TypeOK, Return, Goto, PCs, Kinds, Outcomes

(* A patch writes a row: what must be shown of it. *)
LEMMA PatchShared ==
    ASSUME Inv, NEW r \in Rows, Patch(r), UNCHANGED <<tables, ledger, badInput, crashes>>,
           \A i \in PlanSteps : i < r.next => i \in okCalls,
           r.status = "succeeded" => okCalls = PlanSteps
    PROVE  Shared' /\ row' \in Rows /\ fresh' \subseteq Tickers
BY DEF Inv, Shared, Patch, tables, ledger

LEMMA InvInit == Init => Inv
<1> SUFFICES ASSUME Init PROVE Inv  OBVIOUS
<1>1. TypeOK  BY PlanFacts DEF Init, TypeOK, PCs, Kinds, Outcomes
<1>2. Shared  BY PlanFacts DEF Init, Shared, NewRow
<1>3. ASSUME NEW t \in Tickers PROVE Local(t)
    BY PlanFacts DEF Init, Local, NewRow, OnStep, Paid, Ending, Finishing, Returned, OnRecord, Tracing_
<1> QED BY <1>1, <1>2, <1>3 DEF Inv

(* Steps that end the tick, with or without a patch of the row. *)
LEMMA ReturnsKeepInv ==
    ASSUME Inv, NEW t \in Tickers
    PROVE  /\ ClaimLost(t) \/ AppendTaken(t) \/ Crash(t) => Inv'
           /\ Resume(t) \/ SavePlan(t) \/ Advance(t) => Inv'
           /\ Succeed(t) \/ FailIntegrity(t) \/ Terminate(t) => Inv'
<1> USE DEF Inv
<1>1. ASSUME ClaimLost(t) \/ AppendTaken(t) \/ Crash(t) PROVE Inv'
  <2>1. PICK from : Return(t, from)  BY <1>1 DEF ClaimLost, AppendTaken, Crash
  <2>2. /\ UNCHANGED <<row, tables, ledger, badInput>> /\ fresh' \subseteq fresh
        /\ crashes' \in Nat
      BY <1>1 DEF ClaimLost, AppendTaken, Crash, TypeOK
  <2>3. TypeOK' /\ Shared' /\ Elsewhere(t)
      BY <2>1, <2>2, ReturnLocals DEF TypeOK, Shared, Elsewhere, tables, ledger
  <2> QED BY <2>1, <2>3, ReturnLocals, OneTicker
<1>2. ASSUME NEW from, NEW r \in Rows, Return(t, from), Patch(r),
             UNCHANGED <<tables, ledger, badInput, crashes>>,
             \A i \in PlanSteps : i < r.next => i \in okCalls,
             r.status = "succeeded" => okCalls = PlanSteps
      PROVE  Inv'
  <2>1. Shared' /\ row' \in Rows /\ fresh' \subseteq Tickers  BY <1>2, PatchShared
  <2>2. TypeOK' /\ Elsewhere(t)
      BY <1>2, <2>1, ReturnLocals DEF TypeOK, Elsewhere, tables, ledger
  <2> QED BY <1>2, <2>1, <2>2, ReturnLocals, OneTicker
<1>3. ASSUME Resume(t) \/ SavePlan(t) PROVE Inv'
  <2> DEFINE r == IF Resume(t) THEN [row EXCEPT !.status = "running", !.next = 0]
                  ELSE [row EXCEPT !.status = "running", !.planned = TRUE, !.next = 0]
  <2>1. r \in Rows /\ r.next = 0 /\ r.status = "running"  BY DEF TypeOK, Rows, Statuses
  <2>2. PICK from : Return(t, from)  BY <1>3 DEF Resume, SavePlan
  <2>3. Patch(r) /\ UNCHANGED <<tables, ledger, badInput, crashes>>
      BY <1>3 DEF Resume, SavePlan
  <2>4. \A i \in PlanSteps : ~(i < r.next)  BY <2>1, PlanFacts
  <2> HIDE DEF r
  <2> QED BY <1>2, <2>1, <2>2, <2>3, <2>4
<1>4. ASSUME Advance(t) PROVE Inv'
  <2> DEFINE r == [row EXCEPT !.credits = CreditsAfter(t), !.next = copy[t].next + 1]
  <2>1. pc[t] = "advance" /\ outcome[t] = "ok"  BY <1>4 DEF Advance, Return, Goto
  <2>2. copy[t].next \in PlanSteps /\ copy[t].next \in okCalls
      BY <2>1 DEF Local, OnStep, OnRecord
  <2>3. CreditsAfter(t) \in Nat /\ copy[t].next + 1 \in Nat
      BY <2>2, RunTypes, PlanFacts DEF CreditsAfter
  <2>4. r \in Rows /\ r.next = copy[t].next + 1 /\ r.status = row.status
      BY <2>3 DEF TypeOK, Rows
  <2>5. Return(t, "advance") /\ Patch(r) /\ UNCHANGED <<tables, ledger, badInput, crashes>>
      BY <1>4 DEF Advance
  <2>6. \A i \in PlanSteps : i < r.next => i \in okCalls
    <3>1. \A i \in PlanSteps : i < copy[t].next => i \in okCalls  BY DEF Local
    <3> HIDE DEF r
    <3> QED BY <2>2, <2>4, <3>1, RunTypes, PlanFacts
  <2>7. r.status = "succeeded" => okCalls = PlanSteps  BY <2>4 DEF Shared
  <2> HIDE DEF r
  <2> QED BY <1>2, <2>4, <2>5, <2>6, <2>7
<1>5. ASSUME NEW from, NEW status \in Terminal, Return(t, from),
             Patch([row EXCEPT !.status = status, !.next = 0]),
             UNCHANGED <<tables, ledger, badInput, crashes>>,
             status = "succeeded" => okCalls = PlanSteps
      PROVE  Inv'
  <2> DEFINE r == [row EXCEPT !.status = status, !.next = 0]
  <2>1. r \in Rows /\ r.next = 0 /\ r.status = status  BY DEF TypeOK, Rows, Statuses
  <2>2. Patch(r)  BY <1>5
  <2>3. \A i \in PlanSteps : ~(i < r.next)  BY <2>1, PlanFacts
  <2> HIDE DEF r
  <2> QED BY <1>2, <1>5, <2>1, <2>2, <2>3
<1>6. ASSUME Succeed(t) \/ FailIntegrity(t) PROVE Inv'
  <2>1. PICK status \in {"succeeded", "failed"} : Finish(t, status)  BY <1>6 DEF Succeed, FailIntegrity
  <2>2. copy[t].next >= PlanLength  BY <2>1 DEF Finish, Return, Goto, Local, Finishing
  <2>3. \A i \in PlanSteps : i \in okCalls  BY <2>2, RunTypes, PlanFacts DEF Local
  <2>4. okCalls = PlanSteps  BY <2>3 DEF TypeOK
  <2> QED BY <1>5, <2>1, <2>4 DEF Finish, Terminal, Failures
<1>7. ASSUME Terminate(t) PROVE Inv'
  <2>1. outcome[t] \in Failures  BY <1>7 DEF Terminate, Return, Goto, Local, Ending
  <2>2. outcome[t] # "succeeded"  BY <2>1 DEF Failures
  <2> QED BY <1>5, <1>7, <2>1, <2>2 DEF Terminate, Terminal
<1> QED BY <1>1, <1>3, <1>4, <1>6, <1>7

(* Steps that only move t: its place and its locals change, no table does. *)
Quiet(t) ==
    /\ UNCHANGED <<row, tables, ledger, badInput, crashes>>
    /\ fresh' \subseteq Tickers
    /\ \E p \in PCs : pc' = [pc EXCEPT ![t] = p]
    /\ \E c \in Rows : copy' = [copy EXCEPT ![t] = c]
    /\ \E k \in Kinds : doing' = [doing EXCEPT ![t] = k]
    /\ \E n \in Nat : index' = [index EXCEPT ![t] = n]
    /\ \E o \in Outcomes : outcome' = [outcome EXCEPT ![t] = o]

LEMMA QuietKeepsRest ==
    ASSUME Inv, NEW t \in Tickers, Quiet(t), Local(t)'
    PROVE  Inv'
<1>1. TypeOK'  BY DEF Inv, TypeOK, Quiet, tables, ledger
<1>2. Shared'  BY DEF Inv, Shared, Quiet, tables, ledger
<1>3. Elsewhere(t)  BY DEF Inv, TypeOK, Elsewhere, Quiet, tables, ledger
<1> QED BY <1>1, <1>2, <1>3, OneTicker

LEMMA Unmoved ==
    ASSUME TypeOK, NEW t \in Tickers
    PROVE  /\ UNCHANGED copy => copy' = [copy EXCEPT ![t] = copy[t]]
           /\ UNCHANGED doing => doing' = [doing EXCEPT ![t] = doing[t]]
           /\ UNCHANGED index => index' = [index EXCEPT ![t] = index[t]]
           /\ UNCHANGED outcome => outcome' = [outcome EXCEPT ![t] = outcome[t]]
BY DEF TypeOK

LEMMA QuietStepsKeepInv ==
    ASSUME Inv, NEW t \in Tickers
    PROVE  /\ Read(t) \/ Breach(t) \/ BeginPlan(t) \/ ReadIndex(t) => Inv'
           /\ Synthesise(t) \/ Authorize(t) \/ OverBudget(t) \/ Deny(t) => Inv'
           /\ Insufficient(t) \/ Execute(t) => Inv'
<1> USE DEF Inv
<1> USE Unmoved, RunTypes
<1>1. ASSUME Read(t) PROVE Inv'
  <2>1. Quiet(t)
    <3>1. row \in Rows /\ "claim" \in PCs /\ fresh' \subseteq Tickers
        BY <1>1 DEF Read, TypeOK, PCs
    <3>2. copy' = [copy EXCEPT ![t] = row] /\ pc' = [pc EXCEPT ![t] = "claim"]
        BY <1>1 DEF Read, Goto
    <3> QED BY <1>1, <3>1, <3>2 DEF Read, Quiet
  <2>2. Local(t)'  BY <1>1, PlanFacts DEF Read, Goto, TypeOK, tables, ledger, locals,
                   Local, OnStep, Paid, Ending, Finishing, Returned, OnRecord, Tracing_, Shared
  <2> QED BY <2>1, <2>2, QuietKeepsRest
<1>2. ASSUME Breach(t) PROVE Inv'
  <2>1. PICK status \in Failures : Fail(t, "count", status)
      BY <1>2 DEF Breach, LimitAnswers, Failures
  <2>2. Quiet(t)  BY <1>2, <2>1 DEF Breach, Fail, Quiet, Goto, TypeOK, PCs, Outcomes
  <2>3. Local(t)'  BY <1>2, <2>1 DEF Breach, Fail, Goto, TypeOK, tables, ledger,
                   Local, OnStep, Paid, Ending, Finishing, Returned, OnRecord, Tracing_
  <2> QED BY <2>2, <2>3, QuietKeepsRest
<1>3. ASSUME BeginPlan(t) PROVE Inv'
  <2>1. Quiet(t)  BY <1>3 DEF BeginPlan, Quiet, Goto, TypeOK, PCs, Kinds, Outcomes, Failures, locals, Trace
  <2>2. Local(t)'  BY <1>3, PlanFacts DEF BeginPlan, Goto, TypeOK, tables, ledger, locals, AfterStep,
                   Local, OnStep, Paid, Ending, Finishing, Returned, OnRecord, Tracing_, Trace
  <2> QED BY <2>1, <2>2, QuietKeepsRest
<1>4. ASSUME ReadIndex(t) PROVE Inv'
  <2>1. Quiet(t)  BY <1>4 DEF ReadIndex, Quiet, Goto, TypeOK, PCs, Kinds, Outcomes, Failures, locals
  <2>2. Local(t)'  BY <1>4, PlanFacts DEF ReadIndex, Goto, TypeOK, tables, ledger, locals, AfterStep,
                   Local, OnStep, Paid, Ending, Finishing, Returned, OnRecord, Tracing_
  <2> QED BY <2>1, <2>2, QuietKeepsRest
<1>5. ASSUME Synthesise(t) PROVE Inv'
  <2>1. Quiet(t)  BY <1>5 DEF Synthesise, Quiet, Goto, TypeOK, PCs, Kinds, Outcomes, Failures, locals, Trace
  <2>2. Local(t)'  BY <1>5, PlanFacts DEF Synthesise, Goto, TypeOK, tables, ledger, locals, AfterStep,
                   Local, OnStep, Paid, Ending, Finishing, Returned, OnRecord, Tracing_, Trace
  <2> QED BY <2>1, <2>2, QuietKeepsRest
<1>6. ASSUME Authorize(t) PROVE Inv'
  <2>1. Quiet(t)  BY <1>6 DEF Authorize, Quiet, Goto, TypeOK, PCs, Kinds, Outcomes, Failures, locals, NextStep
  <2>2. Local(t)'  BY <1>6, PlanFacts DEF Authorize, Goto, TypeOK, tables, ledger, locals, AfterStep,
                   Local, OnStep, Paid, Ending, Finishing, Returned, OnRecord, Tracing_, NextStep
  <2> QED BY <2>1, <2>2, QuietKeepsRest
<1>7. ASSUME OverBudget(t) PROVE Inv'
  <2>1. Quiet(t)  BY <1>7 DEF OverBudget, Quiet, Goto, TypeOK, PCs, Kinds, Outcomes, Failures, locals, Trace
  <2>2. Local(t)'  BY <1>7, PlanFacts DEF OverBudget, Goto, TypeOK, tables, ledger, locals, AfterStep,
                   Local, OnStep, Paid, Ending, Finishing, Returned, OnRecord, Tracing_, Trace, Failures
  <2> QED BY <2>1, <2>2, QuietKeepsRest
<1>8. ASSUME Deny(t) PROVE Inv'
  <2>1. Quiet(t)  BY <1>8 DEF Deny, Quiet, Goto, TypeOK, PCs, Kinds, Outcomes, Failures, locals, Trace
  <2>2. Local(t)'  BY <1>8, PlanFacts DEF Deny, Goto, TypeOK, tables, ledger, locals, AfterStep,
                   Local, OnStep, Paid, Ending, Finishing, Returned, OnRecord, Tracing_, Trace, Failures
  <2> QED BY <2>1, <2>2, QuietKeepsRest
<1>9. ASSUME Insufficient(t) PROVE Inv'
  <2>1. Quiet(t)  BY <1>9 DEF Insufficient, Quiet, Goto, TypeOK, PCs, Kinds, Outcomes, Failures, locals, Fail
  <2>2. Local(t)'  BY <1>9, PlanFacts DEF Insufficient, Goto, TypeOK, tables, ledger, locals, AfterStep,
                   Local, OnStep, Paid, Ending, Finishing, Returned, OnRecord, Tracing_, Fail, Failures
  <2> QED BY <2>1, <2>2, QuietKeepsRest
<1>10. ASSUME Execute(t) PROVE Inv'
  <2>1. Quiet(t)  BY <1>10 DEF Execute, Quiet, Goto, TypeOK, PCs, Kinds, Outcomes, Failures, locals, Trace
  <2>2. Local(t)'  BY <1>10, PlanFacts DEF Execute, Goto, TypeOK, tables, ledger, locals, AfterStep,
                   Local, OnStep, Paid, Ending, Finishing, Returned, OnRecord, Tracing_, Trace
  <2> QED BY <2>1, <2>2, QuietKeepsRest
<1> QED BY <1>1, <1>2, <1>3, <1>4, <1>5, <1>6, <1>7, <1>8, <1>9, <1>10

(* Steps of t that write a table or patch the row and go on. *)
Moves(t) ==
    /\ \E p \in PCs : pc' = [pc EXCEPT ![t] = p]
    /\ \E k \in Kinds : doing' = [doing EXCEPT ![t] = k]
    /\ \E n \in Nat : index' = [index EXCEPT ![t] = n]
    /\ \E o \in Outcomes : outcome' = [outcome EXCEPT ![t] = o]
    /\ UNCHANGED copy

LEMMA MovesType ==
    ASSUME TypeOK, NEW t \in Tickers, Moves(t)
    PROVE  /\ pc' \in [Tickers -> PCs] /\ doing' \in [Tickers -> Kinds]
           /\ index' \in [Tickers -> Nat] /\ outcome' \in [Tickers -> Outcomes]
           /\ copy' \in [Tickers -> Rows]
           /\ \A u \in Tickers \ {t} : /\ pc'[u] = pc[u] /\ copy'[u] = copy[u]
                                      /\ doing'[u] = doing[u] /\ outcome'[u] = outcome[u]
BY DEF TypeOK, Moves

LEMMA PatchesKeepInv ==
    ASSUME Inv, NEW t \in Tickers
    PROVE  Claim(t) \/ MarkPlanning(t) \/ ToolFailed(t) => Inv'
<1> USE DEF Inv
<1> USE RunTypes, Unmoved
<1>0. ASSUME NEW r \in Rows, Patch(r), UNCHANGED <<tables, ledger, badInput, crashes>>,
             r.next = row.next, r.status = "succeeded" => row.status = "succeeded",
             Moves(t), Local(t)'
      PROVE  Inv'
  <2>1. Shared' /\ row' \in Rows /\ fresh' \subseteq Tickers
    <3>1. \A i \in PlanSteps : i < r.next => i \in okCalls  BY <1>0 DEF Shared
    <3>2. r.status = "succeeded" => okCalls = PlanSteps  BY <1>0 DEF Shared
    <3> QED BY <1>0, <3>1, <3>2, PatchShared
  <2>2. TypeOK' /\ Elsewhere(t)  BY <1>0, <2>1, MovesType DEF TypeOK, Elsewhere, tables, ledger
  <2> QED BY <1>0, <2>1, <2>2, OneTicker
<1>1. ASSUME Claim(t) PROVE Inv'
  <2> DEFINE r == [row EXCEPT !.status = copy[t].status]
  <2>1. pc[t] = "claim"  BY <1>1 DEF Claim, Goto
  <2>2. r \in Rows /\ r.next = row.next /\ r.status = copy[t].status  BY DEF TypeOK, Rows
  <2>3. r.status # "succeeded"  BY <2>1, <2>2 DEF Local, Terminal
  <2>4. Patch(r) /\ UNCHANGED <<tables, ledger, badInput, crashes>>  BY <1>1 DEF Claim
  <2>5. Moves(t)  BY <1>1 DEF Claim, Goto, Moves, locals, PCs
  <2>6. Local(t)'  BY <1>1, <2>1 DEF Claim, Goto, TypeOK, tables, ledger, locals, Local, OnStep, Paid, Ending, Finishing, Returned, OnRecord, Tracing_
  <2> HIDE DEF r
  <2> QED BY <1>0, <2>2, <2>3, <2>4, <2>5, <2>6
<1>2. ASSUME MarkPlanning(t) PROVE Inv'
  <2> DEFINE r == [row EXCEPT !.status = "planning"]
  <2>1. r \in Rows /\ r.next = row.next /\ r.status = "planning"  BY DEF TypeOK, Rows, Statuses
  <2>2. Patch(r) /\ UNCHANGED <<tables, ledger, badInput, crashes>>  BY <1>2 DEF MarkPlanning
  <2>3. Moves(t)  BY <1>2 DEF MarkPlanning, Trace, Goto, Moves, PCs, Kinds
  <2>4. Local(t)'  BY <1>2 DEF MarkPlanning, Trace, Goto, TypeOK, tables, ledger, AfterStep, Local, OnStep, Paid, Ending, Finishing, Returned, OnRecord, Tracing_
  <2> HIDE DEF r
  <2> QED BY <1>0, <2>1, <2>2, <2>3, <2>4
<1>3. ASSUME ToolFailed(t) PROVE Inv'
  <2> DEFINE r == [row EXCEPT !.credits = CreditsAfter(t)]
  <2>1. copy[t].next \in PlanSteps  BY <1>3 DEF ToolFailed, Fail, Goto, Local, OnStep
  <2>2. CreditsAfter(t) \in Nat  BY <2>1, PlanFacts DEF CreditsAfter
  <2>3. r \in Rows /\ r.next = row.next /\ r.status = row.status  BY <2>2 DEF TypeOK, Rows
  <2>4. Patch(r) /\ UNCHANGED <<tables, ledger, badInput, crashes>>  BY <1>3 DEF ToolFailed
  <2>5. Moves(t)  BY <1>3 DEF ToolFailed, Fail, Goto, Moves, PCs, Outcomes, Failures
  <2>6. Local(t)'  BY <1>3 DEF ToolFailed, Fail, Goto, Failures, TypeOK, tables, ledger, Local, OnStep, Paid, Ending, Finishing, Returned, OnRecord, Tracing_
  <2> HIDE DEF r
  <2> QED BY <1>0, <2>3, <2>4, <2>5, <2>6
<1> QED BY <1>1, <1>2, <1>3

LEMMA WritesKeepInv ==
    ASSUME Inv, NEW t \in Tickers
    PROVE  /\ AppendStep(t) \/ RecordDenial(t) \/ Record(t) => Inv'
           /\ Reserve(t) \/ Refund(t) => Inv'
<1> USE DEF Inv
<1> USE RunTypes, Unmoved
<1>1. ASSUME AppendStep(t) PROVE Inv'
  <2>1. pc[t] = "append" /\ doing[t] \in DOMAIN AfterStep  BY <1>1 DEF AppendStep, Goto, Local
  <2>2. AfterStep[doing[t]] \in PCs  BY <2>1 DEF AfterStep, PCs
  <2>3. Moves(t)  BY <1>1, <2>2 DEF AppendStep, Goto, Moves, Kinds
  <2>4. TypeOK' /\ Shared' /\ Elsewhere(t)
      BY <1>1, <2>3, MovesType DEF AppendStep, TypeOK, Shared, Elsewhere, ledger
  <2>5. Local(t)'  BY <1>1, <2>1 DEF AppendStep, Goto, TypeOK, ledger, AfterStep, Local, OnStep, Paid, Ending, Finishing, Returned, OnRecord, Tracing_
  <2> QED BY <2>4, <2>5, OneTicker
<1>2. ASSUME RecordDenial(t) PROVE Inv'
  <2>1. Moves(t)  BY <1>2 DEF RecordDenial, Goto, Moves, PCs, locals
  <2>2. TypeOK' /\ Shared' /\ Elsewhere(t)
      BY <1>2, <2>1, MovesType DEF RecordDenial, TypeOK, Shared, Elsewhere, ledger
  <2>3. Local(t)'  BY <1>2 DEF RecordDenial, Goto, TypeOK, ledger, locals, Local, OnStep, Paid, Ending, Finishing, Returned, OnRecord, Tracing_
  <2> QED BY <2>2, <2>3, OneTicker
<1>3. ASSUME Record(t) PROVE Inv'
  <2>1. /\ pc[t] = "record" /\ copy[t].next \in PlanSteps /\ copy[t].next \in reserved
        /\ outcome[t] = "ok" => copy[t].next \notin badInput
      BY <1>3 DEF Record, Trace, Goto, Local, OnStep, Paid, Returned
  <2>2. Moves(t)  BY <1>3 DEF Record, Trace, Goto, Moves, PCs, Kinds
  <2>3. \/ okCalls' = okCalls
        \/ okCalls' = okCalls \cup {copy[t].next} /\ outcome[t] = "ok"
      BY <1>3 DEF Record
  <2>4. Shared'  BY <1>3, <2>1, <2>3 DEF Record, Shared, ledger, TypeOK
  <2>5. TypeOK' /\ Elsewhere(t)
      BY <1>3, <2>1, <2>2, <2>3, MovesType DEF Record, TypeOK, Elsewhere, ledger
  <2>6. Local(t)'  BY <1>3, <2>1 DEF Record, Trace, Goto, TypeOK, ledger, AfterStep, Local, OnStep, Paid, Ending, Finishing, Returned, OnRecord, Tracing_
  <2> QED BY <2>4, <2>5, <2>6, OneTicker
<1>4. ASSUME Reserve(t) PROVE Inv'
  <2>1. copy[t].next \in PlanSteps  BY <1>4 DEF Reserve, Goto, Local, OnStep
  <2>2. Moves(t)  BY <1>4 DEF Reserve, Goto, Moves, PCs, locals
  <2>3. TypeOK' /\ Shared' /\ Elsewhere(t)
      BY <1>4, <2>1, <2>2, MovesType DEF Reserve, TypeOK, Shared, Elsewhere, tables
  <2>4. Local(t)'  BY <1>4 DEF Reserve, Goto, TypeOK, tables, locals, Local, OnStep, Paid, Ending, Finishing, Returned, OnRecord, Tracing_
  <2> QED BY <2>3, <2>4, OneTicker
<1>5. ASSUME Refund(t) PROVE Inv'
  <2>1. /\ copy[t].next \in PlanSteps /\ outcome[t] = "invalid" /\ copy[t].next \in badInput
      BY <1>5 DEF Refund, Goto, Local, OnStep, Returned
  <2>2. Moves(t)  BY <1>5 DEF Refund, Goto, Moves, PCs, locals
  <2>3. TypeOK' /\ Shared' /\ Elsewhere(t)
      BY <1>5, <2>1, <2>2, MovesType DEF Refund, TypeOK, Shared, Elsewhere, tables
  <2>4. Local(t)'  BY <1>5, <2>1 DEF Refund, Goto, TypeOK, tables, locals, Local, OnStep, Paid, Ending, Finishing, Returned, OnRecord, Tracing_
  <2> QED BY <2>3, <2>4, OneTicker
<1> QED BY <1>1, <1>2, <1>3, <1>4, <1>5

LEMMA InvStep == Inv /\ [Next]_vars => Inv'
<1> SUFFICES ASSUME Inv, [Next]_vars PROVE Inv'  OBVIOUS
<1>1. CASE UNCHANGED vars
    BY <1>1 DEF vars, Inv, TypeOK, Shared, Local, OnStep, Paid, Ending, Finishing, Returned, OnRecord, Tracing_
<1>2. ASSUME NEW t \in Tickers, Tick(t) \/ Crash(t) PROVE Inv'
    BY <1>2, ReturnsKeepInv, QuietStepsKeepInv, PatchesKeepInv, WritesKeepInv
       DEF Tick, Plan, Tracing, Output, Gate, Tool, Close
<1> QED BY <1>1, <1>2 DEF Next

LEMMA InvHolds == Spec => []Inv
BY InvInit, InvStep, PTL DEF Spec

(* The run row, its tables and every tick keep their types. *)
THEOREM TypeCorrect == Spec => []TypeOK
<1>1. Inv => TypeOK  BY DEF Inv
<1> QED BY <1>1, InvHolds, PTL

(* However many callers drive a run at once, and wherever they die: a run that *)
(* succeeded has a successful tool call for every step of its plan.            *)
THEOREM SuccessIsComplete == Spec => []SucceededMeansDone
<1>1. Inv => SucceededMeansDone  BY DEF Inv, Shared, SucceededMeansDone
<1> QED BY <1>1, InvHolds, PTL

(* A tool call on record is paid for by an entry that no refund takes back.    *)
THEOREM RecordedWorkIsPaid == Spec => []WorkIsPaid
<1>1. Inv => WorkIsPaid  BY DEF Inv, Shared, WorkIsPaid
<1> QED BY <1>1, InvHolds, PTL

-----------------------------------------------------------------------------
(* With one caller at a time the runtime implements the run contract.  What is *)
(* needed beyond Inv is that the row is still the one the tick has read.       *)

Early ==
    /\ row.next <= PlanLength
    /\ row.status = "queued" => stepRows = 0 /\ callRows = 0 /\ row.credits = 0
    /\ row.status \in {"queued", "planning"} => row.next = 0 /\ ~row.planned

OnPlan(t) == pc[t] = "planned" \/ Tracing_(t, {"plan"})
InSlice(t) == OnStep(t) \/ Finishing(t) \/ pc[t] = "recordDenial"
              \/ Tracing_(t, {"over_budget", "denied"})

SameRow(t) ==
    /\ pc[t] # "idle" => copy[t].next = row.next /\ copy[t].planned = row.planned
    /\ pc[t] \in {"claim", "count"} => copy[t] = row /\ row.status \notin Terminal
    /\ pc[t] = "planning" => row.status = "queued"
    /\ OnPlan(t) => row.status = "planning"
    /\ InSlice(t) => row.status = "running"
    /\ pc[t] = "terminate" => row.status \in {"planning", "running"}
    /\ pc[t] # "resume"

Alone(t) == Early /\ SameRow(t)

(* What a step must do: keep the row the tick knows, and follow the contract.  *)
Follows(t) == Alone(t)' /\ [Contract!Next]_<<row.status, row.next, reserved>>

LEMMA AloneStep ==
    ASSUME NEW t \in Tickers, Tickers = {t}, Inv, Alone(t), [Next]_vars
    PROVE  Follows(t)
<1> USE RunTypes, PlanFacts DEF Inv, Follows
<1>0. CASE UNCHANGED vars
    BY <1>0 DEF vars, Alone, Early, SameRow, OnPlan, InSlice, OnStep, Finishing, Tracing_
<1>1. ASSUME Read(t) PROVE Follows(t)
    BY <1>1 DEF Read, Alone, Early, SameRow, OnPlan, InSlice, OnStep, Finishing, Tracing_, Goto, TypeOK, tables, ledger, locals
<1>2. ASSUME Claim(t) PROVE Follows(t)
  <2>1. copy[t] = row /\ row.status \notin Terminal /\ pc[t] = "claim" /\ pc'[t] = "count"
      BY <1>2 DEF Claim, Goto, Alone, SameRow, TypeOK
  <2>2. row' = row  BY <1>2, <2>1 DEF Claim, Patch, TypeOK, Rows
  <2> QED BY <1>2, <2>1, <2>2 DEF Claim, tables, ledger, locals, Alone, Early, SameRow, OnPlan, InSlice, OnStep, Finishing, Tracing_
<1>3. ASSUME ClaimLost(t) PROVE Follows(t)
    BY <1>3 DEF ClaimLost, Return, Alone, Early, SameRow, OnPlan, InSlice, OnStep, Finishing, Tracing_, Goto, TypeOK, tables, ledger, locals
<1>4. ASSUME Breach(t) PROVE Follows(t)
  <2>1. copy[t] = row /\ row.status \notin Terminal /\ pc[t] = "count"
      BY <1>4 DEF Breach, Fail, Goto, Alone, SameRow
  <2>2. PICK status \in LimitAnswers(t) \ {"ok"} : Fail(t, "count", status)  BY <1>4 DEF Breach
  <2>3. pc'[t] = "terminate" /\ UNCHANGED <<row, stepRows, callRows, reserved, copy>>
      BY <1>4, <2>2 DEF Breach, Fail, Goto, TypeOK, tables, ledger
  <2>4. row.status # "queued"
    <3>1. row.status = "queued" => stepRows = 0 /\ callRows = 0 /\ copy[t].credits = 0
        BY <2>1 DEF Alone, Early
    <3>2. ~(0 >= MaxSteps) /\ ~(0 >= MaxToolCalls) /\ ~(0 > MaxCreditCost)  BY RunConstants
    <3> QED BY <2>1, <2>2, <3>1, <3>2 DEF LimitAnswers
  <2>5. row.status \in {"planning", "running"}  BY <2>1, <2>4 DEF Statuses, Terminal
  <2> QED BY <2>1, <2>3, <2>5 DEF Alone, Early, SameRow, OnPlan, InSlice, OnStep, Finishing, Tracing_
<1>5. ASSUME BeginPlan(t) PROVE Follows(t)
    BY <1>5 DEF BeginPlan, Dispatch, Trace, Alone, Early, SameRow, OnPlan, InSlice, OnStep, Finishing, Tracing_, Goto, TypeOK, tables, ledger, locals
<1>6. ASSUME Resume(t) PROVE Follows(t)
    BY <1>6 DEF Resume, Return, Patch, Alone, Early, SameRow, OnPlan, InSlice, OnStep, Finishing, Tracing_, Goto, TypeOK, tables, ledger, locals
<1>7. ASSUME MarkPlanning(t) PROVE Follows(t)
  <2>1. pc[t] = "planning" /\ pc'[t] = "index" /\ doing'[t] = "plan"
      BY <1>7 DEF MarkPlanning, Trace, Goto, TypeOK
  <2>2. /\ row.status = "queued" /\ row'.status = "planning" /\ row'.next = row.next
        /\ row'.planned = row.planned
      BY <1>7, <2>1 DEF MarkPlanning, Patch, Alone, SameRow, TypeOK, Rows
  <2>3. Contract!StartPlanning  BY <1>7, <2>2 DEF MarkPlanning, Contract!StartPlanning, ledger
  <2>4. Alone(t)'  BY <1>7, <2>1, <2>2 DEF MarkPlanning, tables, ledger, Alone, Early, SameRow, OnPlan, InSlice, OnStep, Finishing, Tracing_
  <2> QED BY <2>3, <2>4 DEF Contract!Next
<1>8. ASSUME SavePlan(t) PROVE Follows(t)
  <2>1. pc[t] = "planned" /\ pc'[t] = "idle"  BY <1>8 DEF SavePlan, Return, Goto, TypeOK
  <2>2. row.status = "planning" /\ row.next = 0  BY <2>1 DEF Alone, Early, SameRow, OnPlan, InSlice, OnStep, Finishing, Tracing_
  <2>3. row'.status = "running" /\ row'.next = 0
      BY <1>8 DEF SavePlan, Patch, TypeOK, Rows
  <2>4. Contract!StartRunning  BY <1>8, <2>2, <2>3 DEF SavePlan, Contract!StartRunning, ledger
  <2>5. Alone(t)'  BY <2>1, <2>3 DEF Alone, Early, SameRow, OnPlan, InSlice, OnStep, Finishing, Tracing_
  <2> QED BY <2>4, <2>5 DEF Contract!Next
<1>9. ASSUME ReadIndex(t) PROVE Follows(t)
    BY <1>9 DEF ReadIndex, Alone, Early, SameRow, OnPlan, InSlice, OnStep, Finishing, Tracing_, Goto, TypeOK, tables, ledger, locals
<1>10. ASSUME AppendStep(t) PROVE Follows(t)
    BY <1>10 DEF AppendStep, AfterStep, Local, Alone, Early, SameRow, OnPlan, InSlice, OnStep, Finishing, Tracing_, Goto, TypeOK, tables, ledger, locals
<1>11. ASSUME AppendTaken(t) PROVE Follows(t)
    BY <1>11 DEF AppendTaken, Return, Alone, Early, SameRow, OnPlan, InSlice, OnStep, Finishing, Tracing_, Goto, TypeOK, tables, ledger, locals
<1>12. ASSUME Synthesise(t) PROVE Follows(t)
    BY <1>12 DEF Synthesise, Dispatch, Trace, Alone, Early, SameRow, OnPlan, InSlice, OnStep, Finishing, Tracing_, Goto, TypeOK, tables, ledger, locals
<1>13. ASSUME Authorize(t) PROVE Follows(t)
    BY <1>13 DEF Authorize, NextStep, Dispatch, Alone, Early, SameRow, OnPlan, InSlice, OnStep, Finishing, Tracing_, Goto, TypeOK, tables, ledger, locals
<1>14. ASSUME OverBudget(t) PROVE Follows(t)
    BY <1>14 DEF OverBudget, NextStep, Dispatch, Trace, Alone, Early, SameRow, OnPlan, InSlice, OnStep, Finishing, Tracing_, Goto, TypeOK, tables, ledger, locals
<1>15. ASSUME Deny(t) PROVE Follows(t)
    BY <1>15 DEF Deny, NextStep, Dispatch, Trace, Alone, Early, SameRow, OnPlan, InSlice, OnStep, Finishing, Tracing_, Goto, TypeOK, tables, ledger, locals
<1>16. ASSUME RecordDenial(t) PROVE Follows(t)
    BY <1>16 DEF RecordDenial, Alone, Early, SameRow, OnPlan, InSlice, OnStep, Finishing, Tracing_, Goto, TypeOK, tables, ledger, locals
<1>17. ASSUME Reserve(t) PROVE Follows(t)
  <2>1. pc[t] = "reserve" /\ pc'[t] = "execute"  BY <1>17 DEF Reserve, Goto, TypeOK
  <2>2. copy[t].next \in PlanSteps  BY <2>1 DEF Local, OnStep
  <2>3. row.status = "running" /\ copy[t].next = row.next  BY <2>1 DEF Alone, Early, SameRow, OnPlan, InSlice, OnStep, Finishing, Tracing_
  <2>4. Contract!Pay  BY <1>17, <2>2, <2>3 DEF Reserve, Contract!Pay
  <2>5. Alone(t)'  BY <1>17, <2>1, <2>3 DEF Reserve, tables, locals, Alone, Early, SameRow, OnPlan, InSlice, OnStep, Finishing, Tracing_
  <2> QED BY <2>4, <2>5 DEF Contract!Next
<1>18. ASSUME Insufficient(t) PROVE Follows(t)
    BY <1>18 DEF Insufficient, Fail, Alone, Early, SameRow, OnPlan, InSlice, OnStep, Finishing, Tracing_, Goto, TypeOK, tables, ledger, locals
<1>19. ASSUME Execute(t) PROVE Follows(t)
    BY <1>19 DEF Execute, Trace, Alone, Early, SameRow, OnPlan, InSlice, OnStep, Finishing, Tracing_, Goto, TypeOK, tables, ledger, locals
<1>20. ASSUME Record(t) PROVE Follows(t)
    BY <1>20 DEF Record, Trace, Alone, Early, SameRow, OnPlan, InSlice, OnStep, Finishing, Tracing_, Goto, TypeOK, tables, ledger, locals
<1>21. ASSUME Refund(t) PROVE Follows(t)
    BY <1>21 DEF Refund, Alone, Early, SameRow, OnPlan, InSlice, OnStep, Finishing, Tracing_, Goto, TypeOK, tables, ledger, locals
<1>22. ASSUME ToolFailed(t) PROVE Follows(t)
    BY <1>22 DEF ToolFailed, Fail, Patch, Alone, Early, SameRow, OnPlan, InSlice, OnStep, Finishing, Tracing_, Goto, TypeOK, tables, ledger, locals
<1>23. ASSUME Advance(t) PROVE Follows(t)
  <2>1. pc[t] = "advance" /\ pc'[t] = "idle"  BY <1>23 DEF Advance, Return, Goto, TypeOK
  <2>2. copy[t].next \in PlanSteps /\ copy[t].next \in reserved  BY <2>1 DEF Local, OnStep, Paid
  <2>3. row.status = "running" /\ copy[t].next = row.next  BY <2>1 DEF Alone, Early, SameRow, OnPlan, InSlice, OnStep, Finishing, Tracing_
  <2>4. row'.status = "running" /\ row'.next = row.next + 1
      BY <1>23, <2>3 DEF Advance, Patch, TypeOK, Rows
  <2>5. Contract!Advance  BY <1>23, <2>2, <2>3, <2>4 DEF Advance, Contract!Advance, ledger
  <2>6. Alone(t)'  BY <2>1, <2>2, <2>3, <2>4 DEF Alone, Early, SameRow, OnPlan, InSlice, OnStep, Finishing, Tracing_
  <2> QED BY <2>5, <2>6 DEF Contract!Next
<1>24. ASSUME Succeed(t) PROVE Follows(t)
  <2>1. pc[t] = "finish" /\ pc'[t] = "idle"  BY <1>24 DEF Succeed, Finish, Return, Goto, TypeOK
  <2>2. copy[t].next >= PlanLength  BY <2>1 DEF Local, Finishing
  <2>3. row.status = "running" /\ row.next = PlanLength  BY <2>1, <2>2 DEF Alone, Early, SameRow, OnPlan, InSlice, OnStep, Finishing, Tracing_
  <2>4. row'.status = "succeeded" /\ row'.next = 0
      BY <1>24 DEF Succeed, Finish, Patch, TypeOK, Rows
  <2>5. Contract!Succeed  BY <1>24, <2>3, <2>4 DEF Succeed, Finish, Contract!Succeed, ledger
  <2>6. Alone(t)'  BY <2>1, <2>4 DEF Alone, Early, SameRow, OnPlan, InSlice, OnStep, Finishing, Tracing_
  <2> QED BY <2>5, <2>6 DEF Contract!Next
<1>25. ASSUME FailIntegrity(t) PROVE Follows(t)
  <2>1. pc[t] = "finish" /\ pc'[t] = "idle"  BY <1>25 DEF FailIntegrity, Finish, Return, Goto, TypeOK
  <2>2. row.status = "running"  BY <2>1 DEF Alone, Early, SameRow, OnPlan, InSlice, OnStep, Finishing, Tracing_
  <2>3. row'.status = "failed" /\ row'.next = 0
      BY <1>25 DEF FailIntegrity, Finish, Patch, TypeOK, Rows
  <2>4. Contract!Stop
      BY <1>25, <2>2, <2>3 DEF FailIntegrity, Finish, Contract!Stop, ledger, Failures
  <2>5. Alone(t)'  BY <2>1, <2>3 DEF Alone, Early, SameRow, OnPlan, InSlice, OnStep, Finishing, Tracing_
  <2> QED BY <2>4, <2>5 DEF Contract!Next
<1>26. ASSUME Terminate(t) PROVE Follows(t)
  <2>1. pc[t] = "terminate" /\ pc'[t] = "idle"  BY <1>26 DEF Terminate, Return, Goto, TypeOK
  <2>2. outcome[t] \in Failures  BY <2>1 DEF Local, Ending
  <2>3. row.status \in {"planning", "running"}  BY <2>1 DEF Alone, Early, SameRow, OnPlan, InSlice, OnStep, Finishing, Tracing_
  <2>4. row'.status = outcome[t] /\ row'.next = 0
      BY <1>26 DEF Terminate, Patch, TypeOK, Rows
  <2>5. Contract!Stop  BY <1>26, <2>2, <2>3, <2>4 DEF Terminate, Contract!Stop, ledger
  <2>6. Alone(t)'
    <3>1. row'.status \notin {"queued", "planning"}  BY <2>2, <2>4 DEF Failures
    <3> QED BY <2>1, <2>4, <3>1 DEF Alone, Early, SameRow, OnPlan, InSlice, OnStep, Finishing, Tracing_
  <2> QED BY <2>5, <2>6 DEF Contract!Next
<1>27. ASSUME Crash(t) PROVE Follows(t)
  <2>1. pc'[t] = "idle" /\ UNCHANGED <<row, stepRows, callRows, reserved>>
      BY <1>27 DEF Crash, Return, Goto, TypeOK, tables, ledger
  <2> QED BY <2>1 DEF Alone, Early, SameRow, OnPlan, InSlice, OnStep, Finishing, Tracing_
<1>28. CASE \E u \in Tickers : Tick(u) \/ Crash(u)
  <2>1. Tick(t) \/ Crash(t)  BY <1>28
  <2> HIDE DEF Inv, Follows
  <2>2. CASE Read(t) \/ Claim(t) \/ ClaimLost(t) \/ Breach(t)  BY <2>2, <1>1, <1>2, <1>3, <1>4
  <2>3. CASE Plan(t)  BY <2>3, <1>5, <1>6, <1>7, <1>8 DEF Plan
  <2>4. CASE Tracing(t)  BY <2>4, <1>9, <1>10, <1>11 DEF Tracing
  <2>5. CASE Output(t)  BY <2>5, <1>12, <1>24, <1>25 DEF Output
  <2>6. CASE Gate(t)  BY <2>6, <1>13, <1>14, <1>15, <1>16 DEF Gate
  <2>7. CASE Tool(t)  BY <2>7, <1>17, <1>18, <1>19, <1>20, <1>21 DEF Tool
  <2>8. CASE Close(t)  BY <2>8, <1>22, <1>23, <1>26 DEF Close
  <2> QED BY <2>1, <2>2, <2>3, <2>4, <2>5, <2>6, <2>7, <2>8, <1>27 DEF Tick
<1> QED BY <1>0, <1>28 DEF Next

(* agent-run-contract.ts:6-12 and :78-100, for ticks that do not overlap, and  *)
(* wherever they die: planned once, every plan step paid before the run moves  *)
(* past it, one step at a time, success only at the end of the plan, and a     *)
(* terminal status for good.                                                   *)
THEOREM AloneImplementsContract ==
    ASSUME NEW t \in Tickers, Tickers = {t} PROVE Spec => ImplementsContract
<1>1. Init => Contract!Init  BY DEF Init, NewRow, Contract!Init
<1>2. Init => Alone(t)
    BY PlanFacts DEF Init, NewRow, Alone, Early, SameRow, OnPlan, InSlice, OnStep, Finishing, Tracing_
<1>3. Inv /\ Alone(t) /\ [Next]_vars
        => Alone(t)' /\ [Contract!Next]_<<row.status, row.next, reserved>>
    BY AloneStep DEF Follows
<1> QED BY <1>1, <1>2, <1>3, InvHolds, PTL DEF Spec, ImplementsContract, Contract!Spec, Contract!contractVars

-----------------------------------------------------------------------------
(***************************************************************************)
(* The budget of a run whose ticks do not overlap.  What the ledger holds  *)
(* for the plan steps before the one the row stands at is in the row's     *)
(* counter, whatever died; the entry of the step it stands at may be there *)
(* already, and running the step again pays no second time.                *)
(***************************************************************************)
Earlier == Total(Price, (reserved \ refunded) \ {row.next})

Budget(t) ==
    /\ row.status \in {"queued", "planning"} => reserved = {}
    /\ row.status = "running" => (\A i \in reserved : i <= row.next) /\ Earlier <= row.credits
    /\ OnStep(t) => copy[t].credits = row.credits
    /\ pc[t] = "reserve" => copy[t].credits + Price[copy[t].next] <= MaxCreditCost
    /\ BudgetHolds

LEMMA CostIsTotal == \A S : Cost(S) = Total(Price, S)
BY DEF Cost, Total

(* What the ledger holds against the run. *)
Charged == Total(Price, reserved \ refunded)
LEMMA BudgetIsCharged ==
    /\ BudgetHolds <=> Charged <= MaxCreditCost
    /\ BudgetHolds' <=> Charged' <= MaxCreditCost
BY CostIsTotal DEF BudgetHolds, Charged

(* Sets of plan steps are finite and their prices add up to an integer. *)
LEMMA HeldSums ==
    ASSUME NEW S \in SUBSET PlanSteps
    PROVE  IsFiniteSet(S) /\ (\A i \in S : Price[i] \in Nat) /\ Total(Price, S) \in Int
<1>1. IsFiniteSet(PlanSteps)
    <2>1. 0 \in Int /\ PlanLength - 1 \in Int  BY RunConstants
    <2> QED BY <2>1, FS_Interval DEF PlanSteps
<1>2. IsFiniteSet(S)  BY <1>1, FS_Subset
<1>3. \A i \in S : Price[i] \in Nat  BY PlanFacts
<1>4. \A i \in S : Price[i] \in Int  BY <1>3
<1> QED BY <1>2, <1>3, <1>4, TotalType

(* A step that writes neither the row nor the ledger. *)
LEMMA QuietBudget ==
    ASSUME NEW t \in Tickers, Budget(t), UNCHANGED <<row, reserved, refunded>>,
           OnStep(t)' => copy'[t].credits = row.credits,
           pc'[t] = "reserve" => copy'[t].credits + Price[copy'[t].next] <= MaxCreditCost
    PROVE  Budget(t)'
BY BudgetIsCharged DEF Budget, Earlier, Charged

(* A step that patches the row and leaves its tick between two plan steps. *)
LEMMA PatchBudget ==
    ASSUME NEW t \in Tickers, Budget(t), UNCHANGED <<reserved, refunded>>,
           ~ OnStep(t)', pc'[t] # "reserve",
           row'.status \in {"queued", "planning"} => reserved = {},
           row'.status = "running" => (\A i \in reserved : i <= row'.next) /\ Earlier' <= row'.credits
    PROVE  Budget(t)'
BY BudgetIsCharged DEF Budget, Charged

LEMMA BudgetStep ==
    ASSUME NEW t \in Tickers, Tickers = {t}, Inv, Alone(t), Budget(t), [Next]_vars
    PROVE  Budget(t)'
<1> USE RunTypes, PlanFacts DEF Inv
<1>m. MaxCreditCost \in Nat  BY RunConstants
<1>0. CASE UNCHANGED vars
    BY <1>0, QuietBudget DEF vars, Budget, OnStep, Tracing_
(* The tick moves on, the row and the ledger as they are.                      *)
<1>1. ASSUME \/ Read(t) \/ ClaimLost(t) \/ Breach(t) \/ BeginPlan(t) \/ AppendTaken(t) \/ Synthesise(t)
             \/ OverBudget(t) \/ Deny(t) \/ RecordDenial(t) \/ Insufficient(t) \/ Crash(t)
      PROVE  Budget(t)'
  <2>1. UNCHANGED <<row, reserved, refunded>>
      BY <1>1 DEF Read, ClaimLost, Breach, BeginPlan, AppendTaken, Synthesise, OverBudget, Deny,
                  RecordDenial, Insufficient, Crash, ledger
  <2>2. /\ pc'[t] \in {"idle", "claim", "terminate", "resume", "planning", "index"}
        /\ pc'[t] = "index" => doing'[t] \in {"plan", "output", "over_budget", "denied"}
      BY <1>1 DEF Read, ClaimLost, Breach, BeginPlan, AppendTaken, Synthesise, OverBudget, Deny,
                  RecordDenial, Insufficient, Crash, Fail, Trace, Goto, Return, TypeOK
  <2>3. ~ OnStep(t)' /\ pc'[t] # "reserve"  BY <2>2 DEF OnStep, Tracing_
  <2> QED BY <2>1, <2>3, QuietBudget
<1>2. ASSUME Claim(t) PROVE Budget(t)'
  <2>1. copy[t] = row /\ pc'[t] = "count"  BY <1>2 DEF Claim, Goto, Alone, SameRow, TypeOK
  <2>2. row' = row /\ UNCHANGED <<reserved, refunded>>
      BY <1>2, <2>1 DEF Claim, Patch, TypeOK, Rows, ledger
  <2> QED BY <2>1, <2>2, QuietBudget DEF OnStep, Tracing_
<1>3. ASSUME ReadIndex(t) \/ AppendStep(t) \/ Execute(t) \/ Record(t) PROVE Budget(t)'
  <2>1. UNCHANGED <<row, reserved, refunded, copy>>
      BY <1>3 DEF ReadIndex, AppendStep, Execute, Record, ledger
  <2>2. OnStep(t)' => OnStep(t)
      BY <1>3 DEF ReadIndex, AppendStep, Execute, Record, Trace, Goto, TypeOK, OnStep, Tracing_, Local, AfterStep
  <2>3. pc'[t] # "reserve"
      BY <1>3 DEF ReadIndex, AppendStep, Execute, Record, Trace, Goto, TypeOK, Local, AfterStep
  <2> QED BY <2>1, <2>2, <2>3, QuietBudget DEF Budget
<1>4. ASSUME Authorize(t) PROVE Budget(t)'
  <2>1. pc[t] = "count" /\ copy[t].credits + Price[copy[t].next] <= MaxCreditCost
      BY <1>4 DEF Authorize, WithinBudget, Goto
  <2>2. UNCHANGED <<row, reserved, refunded, copy>>  BY <1>4 DEF Authorize, ledger, locals
  <2>3. copy[t].credits = row.credits  BY <2>1 DEF Alone, SameRow
  <2> QED BY <2>1, <2>2, <2>3, QuietBudget
(* The ledger: an entry for the step at hand, and its return.                  *)
<1> DEFINE n == copy[t].next
           Held == reserved \ refunded
<1>5. OnStep(t) => /\ n \in PlanSteps /\ n = row.next /\ row.status = "running"
                   /\ copy[t].credits = row.credits
  <2>1. OnStep(t) => pc[t] # "idle"  BY DEF OnStep, Tracing_
  <2> QED BY <2>1 DEF Local, Alone, SameRow, InSlice, Budget
<1>6. Held \in SUBSET PlanSteps /\ Held \ {row.next} \in SUBSET PlanSteps  BY DEF TypeOK
<1>7. ASSUME Reserve(t) PROVE Budget(t)'
  <2>1. pc[t] = "reserve" /\ pc'[t] = "execute" /\ OnStep(t)  BY <1>7 DEF Reserve, Goto, TypeOK, OnStep
  <2>2. reserved' = reserved \cup {n} /\ UNCHANGED <<row, refunded, copy>>
      BY <1>7 DEF Reserve, locals
  <2>3. (reserved' \ refunded') \ {row'.next} = Held \ {row.next}  BY <1>5, <2>1, <2>2
  <2>4. Earlier' = Earlier  BY <2>3, Zenon DEF Earlier
  <2>5. Charged' <= MaxCreditCost
    <3> DEFINE E == Held \ {row.next}
    <3>1. Total(Price, E) <= row.credits  BY <1>5, <2>1 DEF Budget, Earlier
    <3>2. row.credits + Price[n] <= MaxCreditCost  BY <1>5, <2>1 DEF Budget
    <3>3. CASE n \in refunded
      <4>1. reserved' \ refunded' = Held  BY <2>2, <3>3
      <4>2. Charged' = Charged  BY <4>1, Zenon DEF Charged
      <4> QED BY <4>2, BudgetIsCharged DEF Budget
    <3>4. CASE n \notin refunded
      <4>1. reserved' \ refunded' = E \cup {n}  BY <1>5, <2>1, <2>2, <3>4
      <4>2. Charged' = Total(Price, E \cup {n})  BY <4>1, Zenon DEF Charged
      <4>3. IsFiniteSet(E) /\ \A i \in E \cup {n} : Price[i] \in Nat
          BY <1>5, <1>6, <2>1, HeldSums
      <4> HIDE DEF E, n
      <4>4. Total(Price, E \cup {n}) <= Total(Price, E) + Price[n]  BY <4>3, TotalAdd
      <4>5. /\ Total(Price, E) \in Int /\ Price[n] \in Nat
            /\ Total(Price, E \cup {n}) \in Int
          BY <1>5, <1>6, <2>1, HeldSums DEF E
      <4> QED BY <1>m, <3>1, <3>2, <4>2, <4>4, <4>5
    <3> QED BY <3>3, <3>4
  <2>6. \A i \in reserved' : i <= row'.next  BY <1>5, <2>1, <2>2 DEF Budget
  <2> HIDE DEF n, Held
  <2> QED BY <1>5, <2>1, <2>2, <2>4, <2>5, <2>6, BudgetIsCharged DEF Budget
<1>8. ASSUME Refund(t) PROVE Budget(t)'
  <2>1. pc'[t] = "advance" /\ OnStep(t)  BY <1>8 DEF Refund, Goto, TypeOK, OnStep
  <2>2. /\ UNCHANGED <<row, reserved, copy>>
        /\ refunded' = refunded \/ refunded' = refunded \cup {n}
      BY <1>8 DEF Refund, locals
  <2>3. (reserved' \ refunded') \ {row'.next} = Held \ {row.next}  BY <1>5, <2>1, <2>2
  <2>4. Earlier' = Earlier  BY <2>3, Zenon DEF Earlier
  <2>5. Charged' <= MaxCreditCost
    <3>1. CASE refunded' = refunded
      <4>1. Charged' = Charged  BY <2>2, <3>1 DEF Charged
      <4> QED BY <4>1, BudgetIsCharged DEF Budget
    <3>2. CASE refunded' = refunded \cup {n}
      <4>1. reserved' \ refunded' = Held \ {n}  BY <2>2, <3>2
      <4>2. Charged' = Total(Price, Held \ {n})  BY <4>1, Zenon DEF Charged
      <4>3. IsFiniteSet(Held) /\ (\A i \in Held : Price[i] \in Nat) /\ Total(Price, Held) \in Int
          BY <1>6, HeldSums
      <4>4. Held \ {n} \in SUBSET PlanSteps  BY <1>6
      <4>5. Total(Price, Held \ {n}) \in Int  BY <4>4, HeldSums
      <4>6. Total(Price, Held) <= MaxCreditCost  BY BudgetIsCharged DEF Budget, Charged
      <4> HIDE DEF Held, n
      <4>7. Total(Price, Held \ {n}) <= Total(Price, Held)  BY <4>3, TotalDrop
      <4> QED BY <1>m, <4>2, <4>3, <4>5, <4>6, <4>7
    <3> QED BY <2>2, <3>1, <3>2
  <2>6. \A i \in reserved' : i <= row'.next  BY <1>5, <2>1, <2>2 DEF Budget
  <2> HIDE DEF n, Held
  <2> QED BY <1>5, <2>1, <2>2, <2>4, <2>5, <2>6, BudgetIsCharged DEF Budget
(* The row: a patch of the counters, the plan saved, the run ended.            *)
<1>9. ASSUME MarkPlanning(t) \/ SavePlan(t) PROVE Budget(t)'
  <2>1. row.status \in {"queued", "planning"}
      BY <1>9 DEF MarkPlanning, SavePlan, Trace, Return, Goto, Alone, SameRow, OnPlan
  <2>2. reserved = {} /\ UNCHANGED <<reserved, refunded>>
      BY <1>9, <2>1 DEF MarkPlanning, SavePlan, ledger, Budget
  <2>3. pc'[t] = "idle" \/ (pc'[t] = "index" /\ doing'[t] = "plan")
      BY <1>9 DEF MarkPlanning, SavePlan, Trace, Return, Goto, TypeOK
  <2>4. row'.credits \in Nat
      BY <1>9 DEF MarkPlanning, SavePlan, Patch, TypeOK, Rows
  <2>5. Earlier' = 0
    <3>1. (reserved' \ refunded') \ {row'.next} = {}  BY <2>2
    <3>2. Earlier' = Total(Price, {})  BY <3>1, Zenon DEF Earlier
    <3> QED BY <3>2, TotalEmpty
  <2>6. Earlier' <= row'.credits  BY <2>4, <2>5
  <2> QED BY <2>2, <2>3, <2>6, PatchBudget DEF OnStep, Tracing_
<1>10. ASSUME Succeed(t) \/ FailIntegrity(t) \/ Terminate(t) PROVE Budget(t)'
  <2>1. PICK status \in Terminal : row' = [row EXCEPT !.status = status, !.next = 0]
      BY <1>10 DEF Succeed, FailIntegrity, Finish, Terminate, Patch, Return, Goto, Local, Ending, Terminal, Failures
  <2>2. row'.status = status  BY <2>1 DEF TypeOK, Rows
  <2>3. row'.status \notin {"queued", "planning", "running"}  BY <2>2 DEF Terminal, Failures
  <2>4. pc'[t] = "idle" /\ UNCHANGED <<reserved, refunded>>
      BY <1>10 DEF Succeed, FailIntegrity, Finish, Terminate, Return, Goto, TypeOK, ledger
  <2> QED BY <2>3, <2>4, PatchBudget DEF OnStep, Tracing_
<1>11. ASSUME ToolFailed(t) \/ Advance(t) PROVE Budget(t)'
  <2>1. /\ pc[t] = "advance" /\ OnStep(t) /\ pc'[t] \in {"idle", "terminate"}
        /\ UNCHANGED <<reserved, refunded>>
      BY <1>11 DEF ToolFailed, Advance, Fail, Return, Goto, TypeOK, OnStep, ledger
  <2>2. CreditsAfter(t) \in Nat /\ CreditsAfter(t) >= row.credits
      BY <1>5, <2>1 DEF CreditsAfter
  <2>3. /\ row'.status = row.status /\ row'.credits = CreditsAfter(t)
        /\ row'.next = IF outcome[t] = "ok" THEN n + 1 ELSE row.next
      BY <1>11, <2>2 DEF ToolFailed, Advance, Patch, TypeOK, Rows
  <2>4. /\ \A i \in reserved : i \in Nat /\ i <= row.next
        /\ Earlier <= row.credits /\ Earlier \in Int
      BY <1>5, <1>6, <2>1, HeldSums DEF Budget, Earlier, TypeOK
  <2>5. Earlier' <= row'.credits
    <3>1. CASE outcome[t] = "ok"
      <4> DEFINE E == Held \ {row.next}
      <4>1. (reserved' \ refunded') \ {row'.next} = Held
          BY <1>5, <2>1, <2>3, <2>4, <3>1
      <4>2. Earlier' = Total(Price, Held)  BY <4>1, Zenon DEF Earlier
      <4>3. CreditsAfter(t) = row.credits + Price[n]
          BY <1>5, <2>1, <3>1 DEF CreditsAfter
      <4>4. Total(Price, Held) <= Total(Price, E) + Price[n] /\ Total(Price, E) \in Int
        <5>1. IsFiniteSet(E) /\ (\A i \in E \cup {n} : Price[i] \in Nat) /\ Total(Price, E) \in Int
            BY <1>5, <1>6, <2>1, HeldSums
        <5>2. Price[n] \in Nat  BY <1>5, <2>1
        <5>3. Total(Price, Held) \in Int  BY <1>6, HeldSums
        <5>4. CASE n \in Held
          <6>1. E \cup {n} = Held  BY <1>5, <2>1, <5>4
          <6> HIDE DEF E, n, Held
          <6>2. Total(Price, E \cup {n}) <= Total(Price, E) + Price[n]  BY <5>1, TotalAdd
          <6>3. Total(Price, E \cup {n}) = Total(Price, Held)  BY <6>1, Zenon
          <6> QED BY <5>1, <6>2, <6>3
        <5>5. CASE n \notin Held
          <6>1. E = Held  BY <1>5, <2>1, <5>5
          <6> HIDE DEF E, n, Held
          <6>2. Total(Price, E) = Total(Price, Held)  BY <6>1, Zenon
          <6> QED BY <5>1, <5>2, <6>2
        <5> QED BY <5>1, <5>4, <5>5
      <4>5. Total(Price, E) <= row.credits  BY <2>4 DEF Earlier
      <4>6. Price[n] \in Nat /\ Total(Price, Held) \in Int  BY <1>5, <1>6, <2>1, HeldSums
      <4> HIDE DEF E, n, Held
      <4> QED BY <2>3, <4>2, <4>3, <4>4, <4>5, <4>6
    <3>2. CASE outcome[t] # "ok"
      <4>1. Earlier' = Earlier  BY <2>1, <2>3, <3>2 DEF Earlier
      <4> QED BY <2>2, <2>3, <2>4, <4>1
    <3> QED BY <3>1, <3>2
  <2>6. \A i \in reserved : i <= row'.next  BY <1>5, <2>1, <2>3, <2>4
  <2>7. row'.status = "running"  BY <1>5, <2>1, <2>3
  <2> HIDE DEF n, Held
  <2> QED BY <2>1, <2>5, <2>6, <2>7, PatchBudget DEF OnStep, Tracing_
<1>12. ~ Resume(t)  BY DEF Resume, Return, Goto, Alone, SameRow
<1>13. CASE Next
  <2>1. Tick(t) \/ Crash(t)  BY <1>13 DEF Next
  <2> QED BY <2>1, <1>1, <1>2, <1>3, <1>4, <1>7, <1>8, <1>9, <1>10, <1>11, <1>12
          DEF Tick, Plan, Tracing, Output, Gate, Tool, Close
<1> QED BY <1>0, <1>13

(* For ticks that do not overlap, wherever they die: what the ledger holds     *)
(* against the run never exceeds its credit ceiling, although a crash may hide *)
(* a cost from the row that authorize() reads (agent-runtime.ts:453-565).      *)
THEOREM BudgetHoldsAlone ==
    ASSUME NEW t \in Tickers, Tickers = {t} PROVE Spec => []BudgetHolds
<1>1. Init => Alone(t)
    BY PlanFacts DEF Init, NewRow, Alone, Early, SameRow, OnPlan, InSlice, OnStep, Finishing, Tracing_
<1>2. Init => Budget(t)
  <2> SUFFICES ASSUME Init PROVE Budget(t)  OBVIOUS
  <2>1. reserved \ refunded = {}  BY DEF Init
  <2>2. Charged = Total(Price, {})  BY <2>1, Zenon DEF Charged
  <2>3. Charged <= MaxCreditCost  BY <2>2, TotalEmpty, RunConstants
  <2> QED BY <2>3, BudgetIsCharged DEF Init, NewRow, Budget, OnStep, Tracing_
<1>3. Inv /\ Alone(t) /\ [Next]_vars => Alone(t)'  BY AloneStep DEF Follows
<1>4. Inv /\ Alone(t) /\ Budget(t) /\ [Next]_vars => Budget(t)'  BY BudgetStep
<1>5. Budget(t) => BudgetHolds  BY DEF Budget
<1> QED BY <1>1, <1>2, <1>3, <1>4, <1>5, InvHolds, PTL DEF Spec

-----------------------------------------------------------------------------
(***************************************************************************)
(* The step rows.  A tick that passed the limit check appends at most two  *)
(* rows before it checks again: the rows on record and those that ticks    *)
(* past the check may still append stay within the bound together.         *)
(***************************************************************************)
MayTwo(t) == pc[t] \in {"reserve", "execute"} \/ Tracing_(t, {"tool_call", "output"})
MayOne(t) == \/ MayTwo(t) \/ pc[t] \in {"record", "planning"}
             \/ Tracing_(t, {"plan", "evidence", "evaluation", "over_budget", "denied"})
OneToCome == {t \in Tickers : MayOne(t)}
TwoToCome == {t \in Tickers : MayTwo(t)}

StepsToCome ==
    stepRows + Cardinality(OneToCome) + Cardinality(TwoToCome) <= MaxSteps - 1 + 2 * Cardinality(Tickers)

(* What t changes of a set of ticks is whether t is in it. *)
LEMMA TickerCount ==
    ASSUME NEW S \in SUBSET Tickers, NEW t \in Tickers
    PROVE  /\ Cardinality(S) \in Nat /\ Cardinality(S \ {t}) \in Nat /\ Cardinality(Tickers) \in Nat
           /\ Cardinality(S) = Cardinality(S \ {t}) + (IF t \in S THEN 1 ELSE 0)
           /\ Cardinality(S \ {t}) + 1 <= Cardinality(Tickers)
<1>1. IsFiniteSet(Tickers)  BY RunConstants
<1>2. IsFiniteSet(S) /\ IsFiniteSet(S \ {t}) /\ IsFiniteSet(Tickers \ {t})  BY <1>1, FS_Subset
<1>3. /\ Cardinality(S) \in Nat /\ Cardinality(S \ {t}) \in Nat
      /\ Cardinality(Tickers) \in Nat /\ Cardinality(Tickers \ {t}) \in Nat
    BY <1>1, <1>2, FS_CardinalityType
<1>4. Cardinality(Tickers \ {t}) = Cardinality(Tickers) - 1  BY <1>1, FS_RemoveElement
<1>5. Cardinality(S \ {t}) <= Cardinality(Tickers \ {t})
  <2>1. S \ {t} \in SUBSET (Tickers \ {t})  OBVIOUS
  <2> QED BY <1>2, <2>1, FS_Subset
<1>6. CASE t \in S
  <2>1. Cardinality(S \ {t}) = Cardinality(S) - 1  BY <1>2, <1>6, FS_RemoveElement
  <2> QED BY <1>3, <1>4, <1>5, <1>6, <2>1
<1>7. CASE t \notin S
  <2>1. S \ {t} = S  BY <1>7
  <2>2. Cardinality(S \ {t}) = Cardinality(S)  BY <2>1, Zenon
  <2> QED BY <1>3, <1>4, <1>5, <1>7, <2>2
<1> QED BY <1>6, <1>7

(* Every step spends what its tick had left to append, or passes the check.   *)
LEMMA StepSpends ==
    ASSUME Inv, NEW t \in Tickers, Tick(t) \/ Crash(t)
    PROVE  /\ \A u \in Tickers \ {t} : pc'[u] = pc[u] /\ doing'[u] = doing[u]
           /\ \/ stepRows' = stepRows /\ (MayOne(t)' => MayOne(t)) /\ (MayTwo(t)' => MayTwo(t))
              \/ stepRows' = stepRows /\ stepRows <= MaxSteps - 1
              \/ stepRows' = stepRows + 1 /\ MayOne(t) /\ ~ MayTwo(t)' /\ (MayOne(t)' => MayTwo(t))
<1> USE RunTypes DEF Inv
<1> DEFINE Others == \A u \in Tickers \ {t} : pc'[u] = pc[u] /\ doing'[u] = doing[u]
           Keeps == stepRows' = stepRows /\ (MayOne(t)' => MayOne(t)) /\ (MayTwo(t)' => MayTwo(t))
           Checked == stepRows' = stepRows /\ stepRows <= MaxSteps - 1
<1>1. ASSUME \/ Read(t) \/ Claim(t) \/ ClaimLost(t) \/ Breach(t) \/ Resume(t) \/ SavePlan(t)
             \/ AppendTaken(t) \/ Succeed(t) \/ FailIntegrity(t) \/ RecordDenial(t)
             \/ Insufficient(t) \/ Refund(t) \/ Close(t) \/ Crash(t)
      PROVE  Others /\ Keeps
  <2>1. stepRows' = stepRows
      BY <1>1 DEF Read, Claim, ClaimLost, Breach, Resume, SavePlan, AppendTaken, Succeed, FailIntegrity, Finish,
                  RecordDenial, Insufficient, Refund, Close, Advance, ToolFailed, Terminate, Crash, tables
  <2>2. /\ pc'[t] \in {"idle", "claim", "count", "terminate", "advance"}
        /\ Others
      BY <1>1 DEF Read, Claim, ClaimLost, Breach, Resume, SavePlan, AppendTaken, Succeed, FailIntegrity, Finish,
                  RecordDenial, Insufficient, Refund, Close, Advance, ToolFailed, Terminate, Crash, Fail, Return,
                  Goto, TypeOK, locals
  <2> QED BY <2>1, <2>2 DEF MayOne, MayTwo, Tracing_
<1>2. ASSUME \/ BeginPlan(t) \/ Synthesise(t) \/ Authorize(t) \/ OverBudget(t) \/ Deny(t)
      PROVE  Others /\ Checked
  <2>1. "ok" \in LimitAnswers(t)
      BY <1>2 DEF BeginPlan, Synthesise, Authorize, OverBudget, Deny, NextStep, Dispatch
  <2>2. stepRows' = stepRows /\ stepRows \in Nat /\ MaxSteps \in Nat
      BY <1>2, RunConstants DEF BeginPlan, Synthesise, Authorize, OverBudget, Deny, tables, TypeOK
  <2>3. ~ (stepRows >= MaxSteps)  BY <2>1 DEF LimitAnswers
  <2>4. Others
      BY <1>2 DEF BeginPlan, Synthesise, Authorize, OverBudget, Deny, Trace, Goto, TypeOK, locals
  <2> QED BY <2>2, <2>3, <2>4
<1>3. ASSUME MarkPlanning(t) \/ ReadIndex(t) \/ Reserve(t) \/ Execute(t) \/ Record(t)
      PROVE  Others /\ Keeps
  <2>1. stepRows' = stepRows
      BY <1>3 DEF MarkPlanning, ReadIndex, Reserve, Execute, Record, tables
  <2>2. Others
      BY <1>3 DEF MarkPlanning, ReadIndex, Reserve, Execute, Record, Trace, Goto, TypeOK, locals
  <2>3. (MayOne(t)' => MayOne(t)) /\ (MayTwo(t)' => MayTwo(t))
      BY <1>3 DEF MarkPlanning, ReadIndex, Reserve, Execute, Record, Trace, Goto, TypeOK, locals,
                  MayOne, MayTwo, Tracing_
  <2> QED BY <2>1, <2>2, <2>3
<1>4. ASSUME AppendStep(t)
      PROVE  /\ Others /\ stepRows' = stepRows + 1 /\ MayOne(t) /\ ~ MayTwo(t)' /\ (MayOne(t)' => MayTwo(t))
  <2>1. /\ pc[t] = "append" /\ doing[t] \in DOMAIN AfterStep /\ pc'[t] = AfterStep[doing[t]]
        /\ doing'[t] = IF doing[t] = "output" THEN "evaluation" ELSE "none"
        /\ stepRows' = stepRows + 1 /\ Others
      BY <1>4 DEF AppendStep, Goto, TypeOK, Local
  <2>2. MayOne(t)  BY <2>1 DEF MayOne, MayTwo, Tracing_, AfterStep
  <2>3. ~ MayTwo(t)' /\ (MayOne(t)' => MayTwo(t))  BY <2>1 DEF MayOne, MayTwo, Tracing_, AfterStep
  <2> QED BY <2>1, <2>2, <2>3
<1> QED BY <1>1, <1>2, <1>3, <1>4 DEF Tick, Plan, Tracing, Output, Gate, Tool

LEMMA StepsToComeNext == Inv /\ StepsToCome /\ [Next]_vars => StepsToCome'
<1> SUFFICES ASSUME Inv, StepsToCome, [Next]_vars PROVE StepsToCome'  OBVIOUS
<1>1. CASE UNCHANGED vars
    BY <1>1 DEF vars, StepsToCome, OneToCome, TwoToCome, MayOne, MayTwo, Tracing_
<1>2. ASSUME NEW t \in Tickers, Tick(t) \/ Crash(t) PROVE StepsToCome'
  <2> DEFINE A == OneToCome
             B == TwoToCome
             others == Tickers \ {t}
  <2>1. \A u \in others : (MayOne(u)' <=> MayOne(u)) /\ (MayTwo(u)' <=> MayTwo(u))
    <3>1. \A u \in others : pc'[u] = pc[u] /\ doing'[u] = doing[u]  BY <1>2, StepSpends
    <3> QED BY <3>1 DEF MayOne, MayTwo, Tracing_
  <2>2. A' \ {t} = A \ {t} /\ B' \ {t} = B \ {t}  BY <2>1 DEF OneToCome, TwoToCome
  <2>3. /\ A \in SUBSET Tickers /\ B \in SUBSET Tickers
        /\ A' \in SUBSET Tickers /\ B' \in SUBSET Tickers
      BY DEF OneToCome, TwoToCome
  <2>4. /\ t \in A <=> MayOne(t)
        /\ t \in B <=> MayTwo(t)
        /\ t \in A' <=> MayOne(t)'
        /\ t \in B' <=> MayTwo(t)'
      BY DEF OneToCome, TwoToCome
  <2>5. \/ stepRows' = stepRows /\ (t \in A' => t \in A) /\ (t \in B' => t \in B)
        \/ stepRows' = stepRows /\ stepRows <= MaxSteps - 1
        \/ stepRows' = stepRows + 1 /\ t \in A /\ t \notin B' /\ (t \in A' => t \in B)
      BY <1>2, <2>4, StepSpends
  <2>6. stepRows + Cardinality(A) + Cardinality(B) <= MaxSteps - 1 + 2 * Cardinality(Tickers)
      BY DEF StepsToCome
  <2>7. stepRows \in Nat /\ MaxSteps \in Nat  BY RunConstants DEF Inv, TypeOK
  <2> HIDE DEF A, B
  <2>8. Cardinality(A' \ {t}) = Cardinality(A \ {t}) /\ Cardinality(B' \ {t}) = Cardinality(B \ {t})
      BY <2>2, Zenon
  <2>9. /\ Cardinality(A \ {t}) \in Nat /\ Cardinality(B \ {t}) \in Nat /\ Cardinality(Tickers) \in Nat
        /\ Cardinality(A) = Cardinality(A \ {t}) + (IF t \in A THEN 1 ELSE 0)
        /\ Cardinality(B) = Cardinality(B \ {t}) + (IF t \in B THEN 1 ELSE 0)
        /\ Cardinality(A \ {t}) + 1 <= Cardinality(Tickers)
        /\ Cardinality(B \ {t}) + 1 <= Cardinality(Tickers)
      BY <2>3, TickerCount
  <2>10. /\ Cardinality(A') = Cardinality(A' \ {t}) + (IF t \in A' THEN 1 ELSE 0)
         /\ Cardinality(B') = Cardinality(B' \ {t}) + (IF t \in B' THEN 1 ELSE 0)
      BY <2>3, TickerCount
  <2>11. stepRows' + Cardinality(A') + Cardinality(B') <= MaxSteps - 1 + 2 * Cardinality(Tickers)
      BY <2>5, <2>6, <2>7, <2>8, <2>9, <2>10
  <2> QED BY <2>11 DEF StepsToCome, A, B
<1> QED BY <1>1, <1>2 DEF Next

(* maxSteps (limit-enforcer.ts:62), for any number of overlapping ticks and    *)
(* wherever they die: step rows pass the limit by at most what each tick that  *)
(* was below it may still append.                                              *)
THEOREM StepsAreBounded == Spec => []StepsBounded
<1>1. Init => StepsToCome
  <2> SUFFICES ASSUME Init PROVE StepsToCome  OBVIOUS
  <2>1. OneToCome = {} /\ TwoToCome = {}
      BY DEF Init, OneToCome, TwoToCome, MayOne, MayTwo, Tracing_
  <2>2. Cardinality(OneToCome) = 0 /\ Cardinality(TwoToCome) = 0  BY <2>1, FS_EmptySet
  <2>3. Cardinality(Tickers) \in Nat  BY RunConstants, FS_CardinalityType
  <2> QED BY <2>2, <2>3, RunConstants DEF Init, StepsToCome
<1>2. Inv /\ StepsToCome => StepsBounded
  <2> SUFFICES ASSUME Inv, StepsToCome PROVE StepsBounded  OBVIOUS
  <2>1. OneToCome \in SUBSET Tickers /\ TwoToCome \in SUBSET Tickers  BY DEF OneToCome, TwoToCome
  <2>2. PICK t : t \in Tickers  BY RunConstants
  <2>3. Cardinality(OneToCome) \in Nat /\ Cardinality(TwoToCome) \in Nat /\ Cardinality(Tickers) \in Nat
      BY <2>1, <2>2, TickerCount
  <2> QED BY <2>3, RunConstants DEF Inv, TypeOK, StepsToCome, StepsBounded
<1> QED BY <1>1, <1>2, StepsToComeNext, InvHolds, PTL DEF Spec

-----------------------------------------------------------------------------
(***************************************************************************)
(* What overlapping ticks know of the status.  A row never comes back to   *)
(* queued and nothing is on record while it is; so a tick that began on a  *)
(* queued run and stops it, or plans it, does so on a row that has moved.  *)
(***************************************************************************)
Untouched == row.status = "queued" =>
    stepRows = 0 /\ callRows = 0 /\ row.credits = 0 /\ ~row.planned

Sees(t) ==
    /\ t \in fresh => pc[t] = "claim" /\ copy[t] = row
    /\ row.status = "queued" => copy[t].status = "queued"
    /\ copy[t].status = "queued" => copy[t].credits = 0 /\ ~copy[t].planned
    /\ pc[t] = "count" => copy[t].status \notin Terminal
    /\ pc[t] = "resume" => copy[t].status = "planning"
    /\ pc[t] = "planning" => copy[t].status = "queued"
    /\ OnPlan(t) => copy[t].status \in {"queued", "planning"} /\ row.status # "queued"
    /\ InSlice(t) => copy[t].status = "running"
    /\ pc[t] = "terminate" =>
         \/ copy[t].status = "running"
         \/ copy[t].status = "planning" /\ outcome[t] \in PlanningStops \cup {"credit_limit"}
         \/ copy[t].status = "queued" /\ row.status # "queued"

SeenInv == Untouched /\ \A t \in Tickers : Sees(t)

LEMMA SeenInit == Init => SeenInv
BY DEF Init, SeenInv, Untouched, Sees, NewRow, OnPlan, InSlice, OnStep, Finishing, Tracing_

(* The others know of the row only that it has left queued, or which it is    *)
(* while nobody patches it.                                                   *)
LEMMA OthersSee ==
    ASSUME SeenInv, NEW t \in Tickers,
           \A u \in Tickers \ {t} : /\ pc'[u] = pc[u] /\ copy'[u] = copy[u]
                                   /\ doing'[u] = doing[u] /\ outcome'[u] = outcome[u],
           row.status # "queued" => row'.status # "queued",
           fresh' = {} \/ (row' = row /\ fresh' \subseteq fresh \cup {t}),
           Untouched', Sees(t)'
    PROVE  SeenInv'
<1>1. ASSUME NEW u \in Tickers \ {t} PROVE Sees(u)'
    BY DEF SeenInv, Sees, OnPlan, InSlice, OnStep, Finishing, Tracing_
<1> QED BY <1>1 DEF SeenInv

(* A tick that returns without a patch, and one that returns with it. *)
LEMMA ReturnSees ==
    ASSUME Inv, SeenInv, NEW t \in Tickers, NEW from, Return(t, from),
           \/ /\ UNCHANGED <<row, stepRows, callRows>>
              /\ fresh' \subseteq fresh \ {t}
           \/ /\ UNCHANGED <<stepRows, callRows>>
              /\ fresh' = {} /\ row'.status # "queued"
    PROVE  SeenInv'
<1>1. pc'[t] = "idle" /\ copy'[t] = NewRow  BY DEF Inv, TypeOK, Return, Goto
<1>2. \A u \in Tickers \ {t} : /\ pc'[u] = pc[u] /\ copy'[u] = copy[u]
                               /\ doing'[u] = doing[u] /\ outcome'[u] = outcome[u]
    BY ReturnLocals DEF Inv
<1>3. Untouched'  BY DEF SeenInv, Untouched
<1>4. t \notin fresh'  OBVIOUS
<1>5. Sees(t)'
    BY <1>1, <1>4 DEF Sees, NewRow, OnPlan, InSlice, OnStep, Finishing, Tracing_
<1> QED BY <1>2, <1>3, <1>5, OthersSee

(* A step inside a tick that leaves the run's row and its copy alone. *)
LEMMA InsideSees ==
    ASSUME Inv, SeenInv, NEW t \in Tickers, pc[t] # "claim",
           \A u \in Tickers \ {t} : /\ pc'[u] = pc[u] /\ copy'[u] = copy[u]
                                   /\ doing'[u] = doing[u] /\ outcome'[u] = outcome[u],
           UNCHANGED <<row, fresh, copy>>,
           row.status # "queued" \/ UNCHANGED <<stepRows, callRows>>,
           pc'[t] \notin {"claim", "count", "idle"},
           pc'[t] = "resume" => copy[t].status = "planning",
           pc'[t] = "planning" => copy[t].status = "queued",
           OnPlan(t)' => copy[t].status \in {"queued", "planning"} /\ row.status # "queued",
           InSlice(t)' => copy[t].status = "running",
           pc'[t] = "terminate" =>
              \/ copy[t].status = "running"
              \/ copy[t].status = "planning" /\ outcome'[t] \in PlanningStops \cup {"credit_limit"}
              \/ copy[t].status = "queued" /\ row.status # "queued"
    PROVE  SeenInv'
<1>1. Untouched'  BY DEF SeenInv, Untouched
<1>2. t \notin fresh  BY DEF SeenInv, Sees
<1>3. Sees(t)'  BY <1>2 DEF SeenInv, Sees
<1> QED BY <1>1, <1>3, OthersSee

(* The steps of a tick that leave the row alone, a use case at a time. *)
LEMMA BeginningsSee ==
    ASSUME Inv, SeenInv, NEW t \in Tickers, Read(t) \/ Breach(t)
    PROVE  SeenInv'
<1> USE RunTypes DEF Inv
<1>1. CASE Read(t)
  <2>1. /\ row' = row /\ copy'[t] = row /\ pc'[t] = "claim" /\ fresh' = fresh \cup {t}
        /\ UNCHANGED <<stepRows, callRows>>
        /\ \A u \in Tickers \ {t} : /\ pc'[u] = pc[u] /\ copy'[u] = copy[u]
                                   /\ doing'[u] = doing[u] /\ outcome'[u] = outcome[u]
      BY <1>1 DEF Read, Goto, TypeOK, tables
  <2>2. Untouched'  BY <2>1 DEF SeenInv, Untouched
  <2>3. Sees(t)'
      BY <2>1 DEF SeenInv, Untouched, Sees, OnPlan, InSlice, OnStep, Finishing, Tracing_
  <2> QED BY <2>1, <2>2, <2>3, OthersSee
<1>2. CASE Breach(t)
  <2>1. /\ pc[t] = "count" /\ pc'[t] = "terminate" /\ UNCHANGED <<row, fresh, copy, stepRows, callRows>>
        /\ \A u \in Tickers \ {t} : /\ pc'[u] = pc[u] /\ copy'[u] = copy[u]
                                   /\ doing'[u] = doing[u] /\ outcome'[u] = outcome[u]
      BY <1>2 DEF Breach, Fail, Goto, TypeOK, tables
  <2>2. PICK status \in LimitAnswers(t) \ {"ok"} : outcome'[t] = status
      BY <1>2 DEF Breach, Fail, TypeOK
  <2>3. status \in PlanningStops \cup {"credit_limit"}
      BY <2>2 DEF LimitAnswers, PlanningStops
  <2>4. copy[t].status = "queued" => row.status # "queued"
    <3> SUFFICES ASSUME copy[t].status = "queued", row.status = "queued" PROVE FALSE  OBVIOUS
    <3>1. stepRows = 0 /\ callRows = 0 /\ copy[t].credits = 0  BY DEF SeenInv, Untouched, Sees
    <3>2. ~(0 >= MaxSteps) /\ ~(0 >= MaxToolCalls) /\ ~(0 > MaxCreditCost)  BY RunConstants
    <3> QED BY <2>2, <3>1, <3>2 DEF LimitAnswers
  <2>5. copy[t].status \in {"queued", "planning", "running"}
      BY <2>1 DEF SeenInv, Sees, Statuses
  <2> QED BY <2>1, <2>2, <2>3, <2>4, <2>5, InsideSees DEF OnPlan, InSlice, OnStep, Finishing, Tracing_
<1> QED BY <1>1, <1>2

LEMMA InsidesSee ==
    ASSUME Inv, SeenInv, NEW t \in Tickers,
           \/ BeginPlan(t) \/ ReadIndex(t) \/ AppendStep(t) \/ Synthesise(t) \/ Gate(t) \/ Tool(t)
    PROVE  SeenInv'
<1> USE RunTypes DEF Inv
<1> DEFINE Inside ==
    /\ \A u \in Tickers \ {t} : /\ pc'[u] = pc[u] /\ copy'[u] = copy[u]
                               /\ doing'[u] = doing[u] /\ outcome'[u] = outcome[u]
    /\ UNCHANGED <<row, fresh, copy>> /\ pc[t] # "claim" /\ pc'[t] \notin {"claim", "count", "idle"}
<1>p. copy[t].status = "running" => row.status # "queued"  BY DEF SeenInv, Sees
<1>1. CASE BeginPlan(t)
  <2>1. /\ Inside /\ UNCHANGED <<stepRows, callRows>>
        /\ copy[t].status \in {"queued", "planning"}
        /\ \/ pc'[t] = "resume" /\ copy[t].planned
           \/ pc'[t] = "planning" /\ copy[t].status = "queued"
           \/ pc'[t] = "index" /\ doing'[t] = "plan" /\ copy[t].status = "planning"
      BY <1>1 DEF BeginPlan, Dispatch, Goto, Trace, TypeOK, tables
  <2>2. /\ copy[t].planned => copy[t].status # "queued"
        /\ copy[t].status = "planning" => row.status # "queued"
      BY DEF SeenInv, Sees
  <2> QED BY <2>1, <2>2, InsideSees DEF OnPlan, InSlice, OnStep, Finishing, Tracing_
<1>2. CASE ReadIndex(t)
  <2>1. /\ Inside /\ UNCHANGED <<stepRows, callRows>> /\ pc[t] = "index" /\ pc'[t] = "append" /\ doing'[t] = doing[t]
      BY <1>2 DEF ReadIndex, Goto, TypeOK, tables
  <2>2. (OnPlan(t)' <=> OnPlan(t)) /\ (InSlice(t)' <=> InSlice(t))
      BY <2>1 DEF OnPlan, InSlice, OnStep, Finishing, Tracing_
  <2> QED BY <2>1, <2>2, InsideSees DEF SeenInv, Sees
<1>3. CASE AppendStep(t)
  <2>1. /\ Inside /\ callRows' = callRows /\ outcome' = outcome
        /\ pc[t] = "append" /\ pc'[t] = AfterStep[doing[t]]
        /\ doing'[t] = IF doing[t] = "output" THEN "evaluation" ELSE "none"
        /\ doing[t] \in DOMAIN AfterStep
      BY <1>3 DEF AppendStep, Goto, TypeOK, Local, AfterStep, Kinds
  <2>2. (OnPlan(t) \/ InSlice(t))
      BY <2>1 DEF OnPlan, InSlice, OnStep, Finishing, Tracing_, AfterStep
  <2>3. OnPlan(t) => pc'[t] = "planned"
      BY <2>1 DEF OnPlan, Tracing_, AfterStep
  <2>4. /\ OnPlan(t)' => OnPlan(t)
        /\ InSlice(t)' => InSlice(t)
        /\ pc'[t] = "terminate" => InSlice(t)
        /\ pc'[t] \notin {"resume", "planning"}
      BY <2>1, <2>2, <2>3 DEF OnPlan, InSlice, OnStep, Finishing, Tracing_, AfterStep
  <2>5. row.status # "queued"  BY <1>p, <2>2 DEF SeenInv, Sees
  <2> QED BY <2>1, <2>4, <2>5, InsideSees DEF SeenInv, Sees
<1>4. CASE Synthesise(t)
  <2>1. Inside /\ UNCHANGED <<stepRows, callRows>> /\ copy[t].status = "running" /\ pc'[t] = "index"
        /\ doing'[t] = "output"
      BY <1>4 DEF Synthesise, Dispatch, Trace, Goto, TypeOK, tables
  <2> QED BY <2>1, InsideSees DEF OnPlan, Tracing_
<1>5. CASE Gate(t)
  <2>1. /\ Inside /\ copy[t].status = "running"
        /\ pc'[t] \in {"reserve", "index", "terminate"}
        /\ pc'[t] = "index" => doing'[t] \in {"over_budget", "denied"}
      BY <1>5 DEF Gate, Authorize, OverBudget, Deny, RecordDenial, NextStep, Dispatch, Trace, Goto, TypeOK,
         locals, SeenInv, Sees, InSlice
  <2> QED BY <1>p, <2>1, InsideSees DEF OnPlan, Tracing_
<1>6. CASE Tool(t)
  <2>1. /\ Inside
        /\ pc[t] \in {"reserve", "execute", "record", "refund"}
        /\ pc'[t] \in {"execute", "terminate", "index", "refund", "advance"}
        /\ pc'[t] = "index" => doing'[t] \in {"tool_call", "evidence"}
      BY <1>6 DEF Tool, Reserve, Insufficient, Execute, Record, Refund, Fail, Trace, Goto, TypeOK, locals
  <2>2. copy[t].status = "running"  BY <2>1 DEF SeenInv, Sees, InSlice, OnStep
  <2> QED BY <1>p, <2>1, <2>2, InsideSees DEF OnPlan, Tracing_
<1> QED BY <1>1, <1>2, <1>3, <1>4, <1>5, <1>6

(* What a tick that is about to patch knows of the row it patches. *)
LEMMA PatchersKnow ==
    ASSUME Inv, SeenInv, NEW t \in Tickers
    PROVE  /\ Resume(t) => copy[t].status = "planning" /\ row'.status = "running"
           /\ MarkPlanning(t) => copy[t].status = "queued" /\ row'.status = "planning"
           /\ SavePlan(t) => /\ copy[t].status \in {"queued", "planning"} /\ row.status # "queued"
                             /\ row'.status = "running"
           /\ Succeed(t) \/ FailIntegrity(t) => copy[t].status = "running" /\ row'.status \in Terminal
           /\ Advance(t) \/ ToolFailed(t) => copy[t].status = "running" /\ row'.status = row.status
           /\ Terminate(t) =>
                /\ row'.status = outcome[t] /\ outcome[t] \in Failures
                /\ \/ copy[t].status = "running"
                   \/ copy[t].status = "planning" /\ outcome[t] \in PlanningStops \cup {"credit_limit"}
                   \/ copy[t].status = "queued" /\ row.status # "queued"
<1> USE RunTypes DEF Inv, SeenInv, Sees, Patch, Return, Goto, Trace, Fail, TypeOK, Rows
<1>1. Resume(t) => copy[t].status = "planning" /\ row'.status = "running"  BY DEF Resume
<1>2. MarkPlanning(t) => copy[t].status = "queued" /\ row'.status = "planning"  BY DEF MarkPlanning
<1>3. SavePlan(t) => /\ copy[t].status \in {"queued", "planning"} /\ row.status # "queued"
                     /\ row'.status = "running"
    BY DEF SavePlan, OnPlan
<1>4. Succeed(t) \/ FailIntegrity(t) => copy[t].status = "running" /\ row'.status \in Terminal
    BY DEF Succeed, FailIntegrity, Finish, InSlice, Finishing, Terminal, Failures
<1>5. Advance(t) \/ ToolFailed(t) => copy[t].status = "running" /\ row'.status = row.status
    BY DEF Advance, ToolFailed, InSlice, OnStep
<1>6. Terminate(t) => /\ row'.status = outcome[t] /\ outcome[t] \in Failures
                      /\ \/ copy[t].status = "running"
                         \/ copy[t].status = "planning" /\ outcome[t] \in PlanningStops \cup {"credit_limit"}
                         \/ copy[t].status = "queued" /\ row.status # "queued"
    BY DEF Terminate, Local, Ending
<1> QED BY <1>1, <1>2, <1>3, <1>4, <1>5, <1>6

(* A claim writes back the row it read. *)
LEMMA ClaimWritesWhatIs ==
    ASSUME Inv, SeenInv, NEW t \in Tickers, Claim(t)
    PROVE  row' = row /\ SeenInv'
<1> USE RunTypes DEF Inv
<1>1. copy[t] = row /\ row.status \notin Terminal  BY DEF Claim, Goto, SeenInv, Sees, Local
<1>2. row' = row  BY <1>1 DEF Claim, Patch, TypeOK, Rows
<1>3. /\ fresh' = {} /\ pc'[t] = "count" /\ UNCHANGED <<copy, stepRows, callRows>>
      /\ \A u \in Tickers \ {t} : /\ pc'[u] = pc[u] /\ copy'[u] = copy[u]
                                 /\ doing'[u] = doing[u] /\ outcome'[u] = outcome[u]
    BY DEF Claim, Patch, Goto, TypeOK, tables, locals
<1>4. Untouched'  BY <1>2, <1>3 DEF SeenInv, Untouched
<1>5. Sees(t)'
    BY <1>1, <1>2, <1>3 DEF SeenInv, Sees, OnPlan, InSlice, OnStep, Finishing, Tracing_
<1> QED BY <1>2, <1>3, <1>4, <1>5, OthersSee

LEMMA PatchersSee ==
    ASSUME Inv, SeenInv, NEW t \in Tickers,
           \/ ClaimLost(t) \/ AppendTaken(t) \/ Crash(t) \/ Resume(t) \/ SavePlan(t) \/ Succeed(t)
           \/ FailIntegrity(t) \/ Advance(t) \/ Terminate(t) \/ MarkPlanning(t) \/ ToolFailed(t)
    PROVE  SeenInv'
<1> USE RunTypes DEF Inv
<1>1. CASE ClaimLost(t) \/ AppendTaken(t) \/ Crash(t)
  <2>1. PICK from : Return(t, from) /\ pc[t] = from  BY <1>1 DEF ClaimLost, AppendTaken, Crash, Return, Goto
  <2>2. UNCHANGED <<row, stepRows, callRows>>
      BY <1>1 DEF ClaimLost, AppendTaken, Crash, tables
  <2>3. fresh' \subseteq fresh \ {t}
      BY <1>1 DEF ClaimLost, AppendTaken, Crash, Return, Goto, SeenInv, Sees
  <2> QED BY <2>1, <2>2, <2>3, ReturnSees
<1>2. CASE \/ Resume(t) \/ SavePlan(t) \/ Succeed(t) \/ FailIntegrity(t) \/ Advance(t) \/ Terminate(t)
  <2>1. PICK from : Return(t, from)
      BY <1>2 DEF Resume, SavePlan, Succeed, FailIntegrity, Finish, Advance, Terminate
  <2>2. UNCHANGED <<stepRows, callRows>> /\ fresh' = {}
      BY <1>2 DEF Resume, SavePlan, Succeed, FailIntegrity, Finish, Advance, Terminate, Patch, tables
  <2>3. row'.status # "queued"
      BY <1>2, PatchersKnow DEF SeenInv, Sees, Terminal, Failures
  <2> QED BY <2>1, <2>2, <2>3, ReturnSees
<1>3. CASE MarkPlanning(t) \/ ToolFailed(t)
  <2>1. /\ fresh' = {} /\ copy' = copy
        /\ \A u \in Tickers \ {t} : /\ pc'[u] = pc[u] /\ copy'[u] = copy[u]
                                   /\ doing'[u] = doing[u] /\ outcome'[u] = outcome[u]
      BY <1>3 DEF MarkPlanning, ToolFailed, Trace, Fail, Patch, Goto, TypeOK
  <2>2. row'.status # "queued"
      BY <1>3, PatchersKnow DEF SeenInv, Sees
  <2>3. Untouched'  BY <2>2 DEF Untouched
  <2>4. \/ pc'[t] = "index" /\ doing'[t] = "plan" /\ copy[t].status = "queued"
        \/ pc'[t] = "terminate" /\ copy[t].status = "running"
      BY <1>3, PatchersKnow DEF MarkPlanning, ToolFailed, Trace, Fail, Goto, TypeOK
  <2>5. Sees(t)'
      BY <2>1, <2>2, <2>4 DEF SeenInv, Sees, OnPlan, InSlice, OnStep, Finishing, Tracing_
  <2> QED BY <2>1, <2>2, <2>3, <2>5, OthersSee
<1> QED BY <1>1, <1>2, <1>3

LEMMA SeenNext == Inv /\ SeenInv /\ [Next]_vars => SeenInv'
<1> SUFFICES ASSUME Inv, SeenInv, [Next]_vars PROVE SeenInv'  OBVIOUS
<1>1. CASE UNCHANGED vars
    BY <1>1 DEF vars, SeenInv, Untouched, Sees, OnPlan, InSlice, OnStep, Finishing, Tracing_
<1>2. ASSUME NEW t \in Tickers, Tick(t) \/ Crash(t) PROVE SeenInv'
    BY <1>2, BeginningsSee, InsidesSee, ClaimWritesWhatIs, PatchersSee
    DEF Tick, Plan, Tracing, Output, Close
<1> QED BY <1>1, <1>2 DEF Next

(* A tick that still sees the row's status changes it along the table of      *)
(* transitions, or stops a planning run by a limit (agent-runtime.ts:576-     *)
(* 579), however many ticks overlap or die.                                   *)
THEOREM StatusMovesHolds == Spec => StatusMoves
<1> DEFINE Along == \A t \in Tickers :
                      (pc'[t] # pc[t] /\ row'.status # row.status /\ copy[t].status = row.status)
                        => Allowed(row.status, row'.status)
<1>1. Inv /\ SeenInv /\ [Next]_vars => [Along]_vars
  <2> SUFFICES ASSUME Inv, SeenInv, Next, NEW t \in Tickers,
                      pc'[t] # pc[t], row'.status # row.status, copy[t].status = row.status
               PROVE  Allowed(row.status, row'.status)
      OBVIOUS
  <2> USE DEF Inv
  <2>1. PICK u \in Tickers : Tick(u) \/ Crash(u)  BY DEF Next
  <2>2. \/ Resume(u) \/ MarkPlanning(u) \/ SavePlan(u) \/ Succeed(u) \/ FailIntegrity(u)
        \/ Advance(u) \/ ToolFailed(u) \/ Terminate(u) \/ row' = row
    <3>1. Claim(u) => row' = row  BY ClaimWritesWhatIs
    <3>2. Tracing(u) \/ Gate(u) \/ Tool(u) => row' = row
        BY DEF Tracing, ReadIndex, AppendStep, AppendTaken, Gate, Authorize, OverBudget, Deny, RecordDenial,
           Tool, Reserve, Insufficient, Execute, Record, Refund
    <3>3. Read(u) \/ ClaimLost(u) \/ Breach(u) \/ BeginPlan(u) \/ Synthesise(u) \/ Crash(u) => row' = row
        BY DEF Read, ClaimLost, Breach, BeginPlan, Synthesise, Crash
    <3> QED BY <2>1, <3>1, <3>2, <3>3 DEF Tick, Plan, Output, Close
  <2>3. t = u
      BY <2>2 DEF Resume, MarkPlanning, SavePlan, Succeed, FailIntegrity, Finish, Advance, ToolFailed,
         Terminate, Return, Trace, Fail, Goto, TypeOK
  <2>4. /\ Permitted["queued"] = {"planning"} /\ "running" \in Permitted["planning"]
        /\ Permitted["running"] = Terminal /\ "credit_limit" \in Permitted["planning"]
      BY DEF Permitted
  <2>5. {"queued", "planning", "running"} \cap Terminal = {} /\ Failures \subseteq Terminal
      BY DEF Terminal, Failures
  <2> QED BY <2>2, <2>3, <2>4, <2>5, PatchersKnow DEF Allowed
<1>2. Spec => []SeenInv
    BY SeenInit, SeenNext, InvHolds, PTL DEF Spec
<1> QED BY <1>1, <1>2, InvHolds, PTL DEF Spec, StatusMoves
=============================================================================
