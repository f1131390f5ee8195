---------------------------- MODULE WorkflowGraph ----------------------------
(* The pure part of the workflow engine: the graphs a published version may    *)
(* have (workflows/entities.py), how a PENDING step is decided from the states *)
(* of its dependencies (workflows/state_machine.py), and what one run of       *)
(* WorkflowRepository._advance leaves behind.                                  *)
(*                                                                             *)
(* A graph is given by functions on the set of step keys:                      *)
(*   deps[s]   the keys s depends on,      mode[s]  "ALL" or "ANY",            *)
(*   kind[s]   the step type,              then[s], else[s]  the branches of a *)
(*   condition step (empty for the other kinds).                               *)
(* Step keys are natural numbers: the code orders steps by key.                *)
EXTENDS Naturals, FiniteSets

StepTypes == {"TOOL", "AGENT", "CONDITION", "NOOP"}

StepStates == {"PENDING", "READY", "RUNNING", "COMPLETED", "FAILED", "SKIPPED", "CANCELLED"}

StepTerminal == {"COMPLETED", "FAILED", "SKIPPED", "CANCELLED"}

\* The two states a dependency can be resolved in.
Resolved == {"COMPLETED", "SKIPPED"}

(* A graph without a cycle: every nonempty set of steps has a member none of   *)
(* whose dependencies is in the set.  This is the reference the topological    *)
(* sort of validate_workflow_graph is checked against (WorkflowLoops).         *)
Acyclic(S, deps) == \A T \in SUBSET S : T # {} => \E s \in T : deps[s] \cap T = {}

\* WorkflowStepSpec and ConditionStepConfig: the validators of a single step.
StepSpecOk(S, deps, mode, kind, then, else) ==
    \A s \in S :
        /\ s \notin deps[s]
        /\ mode[s] = "ANY" => Cardinality(deps[s]) >= 2
        /\ then[s] \cap else[s] = {}
        /\ kind[s] # "CONDITION" => then[s] = {} /\ else[s] = {}

\* A condition may only branch to steps that depend on it.
BranchesOk(S, deps, then, else) ==
    \A s \in S : \A t \in then[s] \cup else[s] : t \in S /\ s \in deps[t]

\* Whether the dependency states let a step run, once all of them are resolved.
Satisfied(deps, mode, st) ==
    \/ deps = {}
    \/ mode = "ALL" /\ \A d \in deps : st[d] = "COMPLETED"
    \/ mode = "ANY" /\ \E d \in deps : st[d] = "COMPLETED"

\* A bug: an ANY join that does not wait for its slower dependencies.
Bug_ResolveEagerAny(deps, mode, st) ==
    IF \/ \E d \in deps : st[d] \notin Resolved /\ mode = "ALL"
       \/ \A d \in deps : st[d] \notin Resolved /\ mode = "ANY"
    THEN "PENDING"
    ELSE IF Satisfied(deps, mode, st) THEN "READY" ELSE "SKIPPED"

\* resolve_pending_step: "PENDING" stands for the None of the code.
ResolvePendingStep(deps, mode, st) ==
    IF \E d \in deps : st[d] \notin Resolved THEN "PENDING"
    ELSE IF Satisfied(deps, mode, st) THEN "READY" ELSE "SKIPPED"

(* What the loop of _advance leaves: the steps that were not PENDING keep      *)
(* their state, and every other one is what resolve_pending_step makes of the  *)
(* states LEFT.  On an acyclic graph there is exactly one such function; that  *)
(* the loop computes it is what WorkflowLoops checks.                          *)
Advanced(S, deps, mode, st, after) ==
    \A s \in S :
        after[s] = IF st[s] = "PENDING" THEN ResolvePendingStep(deps[s], mode[s], after)
                                        ELSE st[s]

\* The functions among which the one left by _advance is looked for.
AdvanceCandidates(S, st) ==
    LET open == {s \in S : st[s] = "PENDING"}
    IN  {[s \in S |-> IF s \in open THEN f[s] ELSE st[s]] :
            f \in [open -> {"PENDING", "READY", "SKIPPED"}]}
=============================================================================
