---------------------------- MODULE MCWorkflowRun ----------------------------
(* A graph for WorkflowRun:  1 -> 2 (condition) -> 3 | 4 -> 5, where 5 joins   *)
(* both branches in mode ANY and 1 may be retried.  Step 4 is itself reached   *)
(* from 1, so that an unselected branch has another, completed, dependency.    *)
EXTENDS WorkflowRun

BranchSteps == 1..5
BranchDeps == <<{}, {1}, {2}, {1, 2}, {3, 4}>>
BranchMode == <<"ALL", "ALL", "ALL", "ANY", "ANY">>
BranchKind == <<"TOOL", "CONDITION", "TOOL", "NOOP", "AGENT">>
BranchThen == <<{}, {3}, {}, {}, {}>>
BranchElse == <<{}, {4}, {}, {}, {}>>
BranchAttempts == <<2, 1, 1, 1, 1>>
=============================================================================
