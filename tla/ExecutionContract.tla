------------------------- MODULE ExecutionContract -------------------------
(***************************************************************************)
(* What an automation run promises to its owner (types/automation.ts, the  *)
(* execution contract's sections 3 and 4): the steps are carried out one   *)
(* after another, each once; no step is begun after the owner has asked to *)
(* cancel, nor behind a step that failed or a condition that is not met:   *)
(* those are skipped, in their order; and a run ends when every step has,  *)
(* with the status that its steps give it.                                 *)
(***************************************************************************)
EXTENDS Integers

CONSTANTS
    Steps,     \* the steps of the workflow, numbered
    Kind       \* of each step

VARIABLES
    status,    \* of the run
    cancelled, \* the owner has asked to cancel
    stage,     \* of each step: how far it is
    met,       \* conditions that hold of what the agents found
    children,  \* the child runs of each agent step
    effects    \* what each step has written

contractVars == <<status, cancelled, stage, met, children, effects>>
work == <<met, children, effects>>

Init ==
    /\ status = "QUEUED" /\ cancelled = FALSE
    /\ stage = [i \in Steps |-> "ahead"]
    /\ met \in SUBSET {i \in Steps : Kind[i] = "condition"}
    /\ children = [i \in Steps |-> <<>>]
    /\ effects = [i \in Steps |-> 0]

Over(i) == stage[i] \notin {"ahead", "begun"}
Move(i, from, to) ==
    /\ stage[i] \in from /\ stage' = [stage EXCEPT ![i] = to]
    /\ UNCHANGED <<status, cancelled>>

Claim ==
    /\ status = "QUEUED" /\ status' = "RUNNING"
    /\ UNCHANGED <<cancelled, stage, work>>

Begin(i) ==
    /\ status = "RUNNING" /\ ~ cancelled
    /\ \A j \in Steps : j < i => stage[j] = "done"
    /\ Move(i, {"ahead"}, "begun")
    /\ UNCHANGED work

(* What a step that has begun does outside: a child run that ends in some way, *)
(* a draft, an artifact.                                                       *)
SetChild(i, from, to) ==
    /\ Kind[i] = "agent_run" /\ stage[i] = "begun" /\ children[i] = from
    /\ children' = [children EXCEPT ![i] = to]
    /\ UNCHANGED <<status, cancelled, stage, met, effects>>
Start(i) == SetChild(i, <<>>, <<"open">>)
EndChild(i, end) == SetChild(i, <<"open">>, <<end>>)

Write(i) ==
    /\ Kind[i] \in {"publication_draft", "workspace_save"} /\ stage[i] = "begun" /\ effects[i] = 0
    /\ effects' = [effects EXCEPT ![i] = 1]
    /\ UNCHANGED <<status, cancelled, stage, met, children>>

(* What makes a step OK. *)
Worked(i) ==
    CASE Kind[i] = "agent_run" -> children[i] = <<"succeeded">>
      [] Kind[i] = "condition" -> i \in met
      [] OTHER -> effects[i] = 1

Finish(i) == Worked(i) /\ Move(i, {"begun"}, "done") /\ UNCHANGED work
Halt(i) ==
    /\ Kind[i] = "condition" /\ i \notin met
    /\ Move(i, {"begun"}, "halted") /\ UNCHANGED work
(* What fails is the attempt: its child run may be open or have succeeded, its *)
(* work be written, and a halt may fail while it is carried out.               *)
Fail(i) == Move(i, {"begun", "halted"}, "failed") /\ UNCHANGED work

Skip(i) ==
    /\ cancelled \/ \E j \in Steps : j < i /\ stage[j] \in {"halted", "failed"}
    /\ \A j \in Steps : j < i => Over(j)
    /\ Move(i, {"ahead", "begun"}, "skipped") /\ UNCHANGED work

(* The status a run ends with, and what has to be true for it. *)
Ends == {"SUCCEEDED", "FAILED", "CREDIT_BLOCKED", "CONDITION_HALTED", "CANCELLED"}
OverLimit(i) == children[i] = <<"credit_limit">>
Because(s) ==
    /\ s = "SUCCEEDED" => \A i \in Steps : stage[i] = "done"
    /\ s = "CONDITION_HALTED" => \E i \in Steps : stage[i] = "halted"
    /\ s = "FAILED" => \E i \in Steps : stage[i] = "failed"
    /\ s = "CREDIT_BLOCKED" => \E i \in Steps : stage[i] = "failed" /\ OverLimit(i)
    /\ s = "CANCELLED" => cancelled
End(s) ==
    /\ status = "RUNNING" /\ status' = s
    /\ \A i \in Steps : Over(i)
    /\ Because(s)
    /\ UNCHANGED <<cancelled, stage, work>>

(* The owner may cancel once; the run may then be over at once. *)
Cancel ==
    /\ ~ cancelled /\ cancelled' = TRUE
    /\ status' \in {status, "CANCELLED"}
    /\ UNCHANGED <<stage, work>>

Next ==
    \/ Claim \/ Cancel \/ \E s \in Ends : End(s)
    \/ \E i \in Steps : \/ Begin(i) \/ Start(i) \/ Write(i) \/ Finish(i) \/ Halt(i) \/ Fail(i) \/ Skip(i)
                        \/ \E end \in {"succeeded", "failed", "credit_limit"} : EndChild(i, end)

Spec == Init /\ [][Next]_contractVars
=============================================================================
