----------------------- MODULE MC_AutomationDispatch -----------------------
(* Instances of AutomationDispatch for TLC: the shapes of the shipped         *)
(* templates, an agent whose result a condition looks at and what follows.    *)
EXTENDS AutomationDispatch, TLC

CONSTANTS d1, d2

Draft2 == <<"agent_run", "publication_draft">>
Draft3 == <<"agent_run", "condition", "publication_draft">>
Agents3 == <<"agent_run", "agent_run", "publication_draft">>
All5   == <<"agent_run", "condition", "agent_run", "publication_draft", "workspace_save">>
First  == [i \in StepIds |-> 1]

(* Drivers are interchangeable: used only where no liveness is checked. *)
DriverSymmetry == Permutations(Drivers)
=============================================================================
