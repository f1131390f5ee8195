----------------------------- MODULE WorkflowRun -----------------------------
(* One workflow run of the workflow engine (NXS-P14): the durable run and step *)
(* rows of domain/workflows/repository.py, and the workers and callers that    *)
(* drive them through workflows/service.py.                                    *)
(*                                                                             *)
(* Every transaction that writes a step row first locks the run row FOR        *)
(* UPDATE, so a transaction is one action here; what runs outside one (a tool  *)
(* call, an agent turn, a crash) is an action of its own, and anything may     *)
(* happen between the actions of a worker.                                     *)
(*                                                                             *)
(* Left out, because nothing reads them: outputs, payloads, correlation ids,   *)
(* timestamps, state_version, the transition history (one row per transition,  *)
(* written in the same transaction), next_eligible_at (never set).             *)
EXTENDS WorkflowGraph

CONSTANTS
    Steps,        \* step keys of the published version
    Deps,         \* depends_on of each step
    Mode,         \* dependency_mode of each step
    Kind,         \* step_type of each step
    Then,         \* then_steps of a condition step
    Else,         \* else_steps of a condition step
    MaxAttempts,  \* retry.max_attempts of each step
    Workers,      \* processes that call execute_next
    NoWorker

ASSUME GraphAssumption ==
    /\ Steps \subseteq Nat /\ Steps # {} /\ IsFiniteSet(Steps)
    /\ Deps \in [Steps -> SUBSET Steps]
    /\ Mode \in [Steps -> {"ALL", "ANY"}]
    /\ Kind \in [Steps -> StepTypes]
    /\ Then \in [Steps -> SUBSET Steps]
    /\ Else \in [Steps -> SUBSET Steps]
    /\ MaxAttempts \in [Steps -> Nat \ {0}]
    /\ StepSpecOk(Steps, Deps, Mode, Kind, Then, Else)
    /\ BranchesOk(Steps, Deps, Then, Else)
    /\ Acyclic(Steps, Deps)
ASSUME WorkerAssumption == NoWorker \notin Workers

VARIABLES
    run,       \* workflow_runs.state
    step,      \* workflow_step_runs.state
    attempt,   \* attempt_count
    owner,     \* execution_owner_id
    token,     \* claim_token; 0 is NULL, the n-th claim of a step draws token n
    pc,        \* where each worker is in execute_next
    claim,     \* the StepClaim a worker holds
    retryable, \* what a failing worker will report
    unselected,\* the branch a worker evaluating a condition did not select
    effect,    \* what the call behind a step did: "none", "begun", "succeeded"
    output,    \* output_payload.skipped_steps of a completed condition step
    events     \* run events handed to the outbox

durable == <<run, step, attempt, owner, token>>
local == <<pc, claim, retryable, unselected>>
vars == <<run, step, attempt, owner, token, pc, claim, retryable, unselected,
          effect, output, events>>

RunStates == {"PENDING", "RUNNING", "PAUSED", "COMPLETED", "FAILED", "CANCELLED"}
WorkflowTerminal == {"COMPLETED", "FAILED", "CANCELLED"}

\* _WORKFLOW_TRANSITIONS
WorkflowTransitions ==
    [s \in RunStates |->
        CASE s = "PENDING" -> {"RUNNING", "CANCELLED"}
          [] s = "RUNNING" -> {"PAUSED", "COMPLETED", "FAILED", "CANCELLED"}
          [] s = "PAUSED"  -> {"RUNNING", "FAILED", "CANCELLED"}
          [] OTHER         -> {}]

NoClaim == [step |-> 0, token |-> 0]
Claims == [step : Steps, token : Nat] \cup {NoClaim}

(* start_run: the run row is created PENDING and moved to RUNNING in the same  *)
(* transaction, together with one row per step of the version.                 *)
Init ==
    /\ run = "RUNNING"
    /\ step = [s \in Steps |-> IF Deps[s] = {} THEN "READY" ELSE "PENDING"]
    /\ attempt = [s \in Steps |-> 0]
    /\ owner = [s \in Steps |-> NoWorker]
    /\ token = [s \in Steps |-> 0]
    /\ pc = [w \in Workers |-> "idle"]
    /\ claim = [w \in Workers |-> NoClaim]
    /\ retryable = [w \in Workers |-> FALSE]
    /\ unselected = [w \in Workers |-> {}]
    /\ effect = [s \in Steps |-> "none"]
    /\ output = [s \in Steps |-> {}]
    /\ events = {"started"}

(* _advance(run_row) on the step states st, the run row being in state r: it   *)
(* does nothing unless r is RUNNING.                                           *)
AdvanceRun(r, st) ==
    IF r # "RUNNING" THEN step' = st /\ run' = r
    ELSE \E after \in AdvanceCandidates(Steps, st) :
            /\ Advanced(Steps, Deps, Mode, st, after)
            /\ step' = after
            /\ run' = IF \A s \in Steps : after[s] \in Resolved THEN "COMPLETED" ELSE r

Ready == {s \in Steps : step[s] = "READY"}

(* claim_next: under the run lock, the READY step with the least key becomes   *)
(* RUNNING for w with a fresh claim token.  All steps of a run are created in  *)
(* one transaction, so the ORDER BY created_at, step_key is by key.            *)
ClaimNext(w) ==
    /\ pc[w] = "idle" /\ run = "RUNNING"
    /\ \E s \in Ready :
        /\ \A r \in Ready : s <= r
        /\ step' = [step EXCEPT ![s] = "RUNNING"]
        /\ attempt' = [attempt EXCEPT ![s] = @ + 1]
        /\ owner' = [owner EXCEPT ![s] = w]
        /\ token' = [token EXCEPT ![s] = attempt[s] + 1]
        /\ claim' = [claim EXCEPT ![w] = [step |-> s, token |-> attempt[s] + 1]]
    /\ pc' = [pc EXCEPT ![w] = "claimed"]
    /\ UNCHANGED <<run, retryable, unselected, effect, output, events>>

Calls(s) == Kind[s] \in {"TOOL", "AGENT"}

(* _execute returns: a tool or agent call succeeded, a condition selected a    *)
(* branch, a no-op did nothing.                                                *)
Execute(w) ==
    LET s == claim[w].step IN
    /\ pc[w] = "claimed"
    /\ pc' = [pc EXCEPT ![w] = "finishing"]
    /\ effect' = [effect EXCEPT ![s] = IF Calls(s) THEN "succeeded" ELSE @]
    /\ \E branch \in IF Kind[s] = "CONDITION" THEN {Then[s], Else[s]} ELSE {{}} :
            unselected' = [unselected EXCEPT ![w] = branch]
    /\ UNCHANGED <<durable, claim, retryable, output, events>>

(* _execute raises an NxsError; whether it may be retried is up to its class   *)
(* and the step's retryable_codes.                                             *)
ExecuteFails(w) ==
    LET s == claim[w].step IN
    /\ pc[w] = "claimed" /\ Kind[s] # "NOOP"
    /\ pc' = [pc EXCEPT ![w] = "failing"]
    /\ \E b \in BOOLEAN : retryable' = [retryable EXCEPT ![w] = b]
    /\ effect' = [effect EXCEPT ![s] = IF Calls(s) /\ @ = "none" THEN "begun" ELSE @]
    /\ UNCHANGED <<durable, claim, unselected, output, events>>

\* The predicate every terminal write of a claim is guarded with.
Authorized(w) ==
    LET s == claim[w].step IN
    /\ run \in {"RUNNING", "PAUSED"}
    /\ step[s] = "RUNNING" /\ owner[s] = w /\ token[s] = claim[w].token

(* finish_step and finish_condition: the step is COMPLETED, the branch that    *)
(* was not selected is SKIPPED, and the run is advanced.                       *)
FinishWrites(w) ==
    LET s == claim[w].step
        st == [t \in Steps |->
                IF t = s THEN "COMPLETED"
                ELSE IF t \in unselected[w] /\ step[t] \in {"PENDING", "READY"} THEN "SKIPPED"
                ELSE step[t]]
    IN  AdvanceRun(run, st)

(* The finishing transaction of execute_next.  The commit may be acknowledged  *)
(* (the worker is done) or its connection lost after it took effect (the       *)
(* worker sees DependencyUnavailableError and goes on to fail the step).       *)
Finish(w) ==
    LET s == claim[w].step IN
    /\ pc[w] = "finishing" /\ Authorized(w)
    /\ FinishWrites(w)
    /\ output' = [output EXCEPT ![s] = unselected[w]]
    /\ events' = events \cup (IF run' = "COMPLETED" THEN {"completed"} ELSE {})
    /\ \/ /\ pc' = [pc EXCEPT ![w] = "idle"]
          /\ claim' = [claim EXCEPT ![w] = NoClaim]
          /\ UNCHANGED retryable
       \/ /\ pc' = [pc EXCEPT ![w] = "failing"]
          /\ \E b \in BOOLEAN : retryable' = [retryable EXCEPT ![w] = b]
          /\ UNCHANGED claim
    /\ unselected' = [unselected EXCEPT ![w] = {}]
    /\ UNCHANGED <<attempt, owner, token, effect>>

(* The finishing transaction rolls back: it is fenced, or the database is      *)
(* unavailable.  Both errors are NxsErrors, so the worker reports a failure.   *)
FinishRaises(w) ==
    /\ pc[w] = "finishing"
    /\ pc' = [pc EXCEPT ![w] = "failing"]
    /\ \E b \in IF Authorized(w) THEN BOOLEAN ELSE {FALSE} :
            retryable' = [retryable EXCEPT ![w] = b]
    /\ unselected' = [unselected EXCEPT ![w] = {}]
    /\ UNCHANGED <<durable, claim, effect, output, events>>

\* A bug: a step that is to be retried keeps the token of the failed claim.
Bug_FailKeepsToken(w) ==
    LET s == claim[w].step
        again == retryable[w] /\ attempt[s] < MaxAttempts[s]
    IN  /\ step' = [step EXCEPT ![s] = IF again THEN "READY" ELSE "FAILED"]
        /\ run' = IF again THEN run ELSE "FAILED"
        /\ events' = events \cup (IF again THEN {} ELSE {"failed"})
        /\ UNCHANGED <<owner, token>>

(* fail_step: the step is made READY again while attempts are left, otherwise  *)
(* it is FAILED and so is the run.  Its siblings are left as they are.         *)
FailWrites(w) ==
    LET s == claim[w].step
        again == retryable[w] /\ attempt[s] < MaxAttempts[s]
    IN  /\ step' = [step EXCEPT ![s] = IF again THEN "READY" ELSE "FAILED"]
        /\ owner' = [owner EXCEPT ![s] = IF again THEN NoWorker ELSE @]
        /\ token' = [token EXCEPT ![s] = IF again THEN 0 ELSE @]
        /\ run' = IF again THEN run ELSE "FAILED"
        /\ events' = events \cup (IF again THEN {} ELSE {"failed"})

\* The worker returns to its caller and keeps nothing.
Leaves(w) ==
    /\ pc' = [pc EXCEPT ![w] = "idle"]
    /\ claim' = [claim EXCEPT ![w] = NoClaim]
    /\ retryable' = [retryable EXCEPT ![w] = FALSE]
    /\ unselected' = [unselected EXCEPT ![w] = {}]

\* The failing transaction of execute_next; fenced, it changes nothing.
Fail(w) ==
    /\ pc[w] = "failing"
    /\ \/ Authorized(w) /\ FailWrites(w)
       \/ ~Authorized(w) /\ UNCHANGED <<step, owner, token, run, events>>
    /\ Leaves(w)
    /\ UNCHANGED <<attempt, effect, output>>

(* A worker disappears: it crashes, is cancelled, is fenced by the placement   *)
(* of its cell, meets an exception that is not an NxsError, or its failing     *)
(* transaction rolls back.  The step stays RUNNING; nothing reclaims it.       *)
Abandon(w) ==
    /\ pc[w] # "idle"
    /\ Leaves(w)
    /\ UNCHANGED <<durable, effect, output, events>>

-----------------------------------------------------------------------------
\* require_workflow_transition
Allowed(target) == target \in WorkflowTransitions[run]

\* pause_run
Pause ==
    /\ Allowed("PAUSED") /\ run' = "PAUSED"
    /\ events' = events \cup {"paused"}
    /\ UNCHANGED <<step, attempt, owner, token, local, effect, output>>

\* A bug: the run is set RUNNING again without looking at its steps.
Bug_ResumeNoAdvance ==
    /\ Allowed("RUNNING") /\ run' = "RUNNING"
    /\ events' = events \cup {"resumed"}
    /\ UNCHANGED <<step, attempt, owner, token, local, effect, output>>

\* resume_run: what finished while the run was PAUSED is advanced now.
Resume ==
    /\ Allowed("RUNNING")
    /\ AdvanceRun("RUNNING", step)
    /\ events' = events \cup {"resumed"}
    /\ UNCHANGED <<attempt, owner, token, local, effect, output>>

\* cancel_run: unclaimed steps are cancelled, a RUNNING one is left RUNNING.
Cancel ==
    /\ Allowed("CANCELLED") /\ run' = "CANCELLED"
    /\ step' = [s \in Steps |-> IF step[s] \in {"PENDING", "READY"} THEN "CANCELLED" ELSE step[s]]
    /\ events' = events \cup {"cancelled"}
    /\ UNCHANGED <<attempt, owner, token, local, effect, output>>

Worker(w) ==
    \/ ClaimNext(w) \/ Execute(w) \/ ExecuteFails(w)
    \/ Finish(w) \/ FinishRaises(w) \/ Fail(w) \/ Abandon(w)

Next == (\E w \in Workers : Worker(w)) \/ Pause \/ Resume \/ Cancel

Spec == Init /\ [][Next]_vars

-----------------------------------------------------------------------------
\* The types of the rows and of what the workers hold.
TypeOK ==
    /\ run \in RunStates
    /\ step \in [Steps -> StepStates]
    /\ attempt \in [Steps -> Nat]
    /\ owner \in [Steps -> Workers \cup {NoWorker}]
    /\ token \in [Steps -> Nat]
    /\ pc \in [Workers -> {"idle", "claimed", "finishing", "failing"}]
    /\ claim \in [Workers -> Claims]
    /\ \A w \in Workers : pc[w] # "idle" => claim[w] # NoClaim
    /\ retryable \in [Workers -> BOOLEAN]
    /\ unselected \in [Workers -> SUBSET Steps]
    /\ effect \in [Steps -> {"none", "begun", "succeeded"}]
    /\ output \in [Steps -> SUBSET Steps]
    /\ events \subseteq {"started", "paused", "resumed", "completed", "failed", "cancelled"}

(* INV-WF-013: a step that was ever released to a worker has all dependencies  *)
(* resolved, all of them COMPLETED in mode ALL and at least one in mode ANY,   *)
(* however finishes, branch skips, pauses and cancellations interleave.        *)
DependenciesRespected ==
    \A s \in Steps : step[s] \in {"READY", "RUNNING", "COMPLETED", "FAILED"} =>
        /\ \A d \in Deps[s] : step[d] \in Resolved
        /\ Satisfied(Deps[s], Mode[s], step)

(* The branch a condition did not select never runs, not even when the step    *)
(* joins other branches in mode ANY or the condition finished while PAUSED.    *)
UnselectedBranchSkipped ==
    \A c \in Steps : \A t \in output[c] : step[t] = "SKIPPED"

(* A step is skipped for a reason: a condition did not select it, or its       *)
(* dependencies are all resolved and do not satisfy its mode.                  *)
SkipJustified ==
    \A s \in Steps : step[s] = "SKIPPED" =>
        \/ \E c \in Steps : s \in output[c]
        \/ /\ \A d \in Deps[s] : step[d] \in Resolved
           /\ ~Satisfied(Deps[s], Mode[s], step)

(* A RUNNING run is never stuck by the engine itself: some step is claimable   *)
(* or claimed.  It fails if a finish, a skip or a resume forgets to decide a   *)
(* PENDING step, or if the last one does not complete the run.                 *)
NoStall == run = "RUNNING" => \E s \in Steps : step[s] \in {"READY", "RUNNING"}

(* The verdict on the run agrees with its steps: COMPLETED only once every     *)
(* step is resolved, FAILED exactly when a step failed for good.               *)
VerdictMatchesSteps ==
    /\ run = "COMPLETED" => \A s \in Steps : step[s] \in Resolved
    /\ run = "FAILED" <=> \E s \in Steps : step[s] = "FAILED"

(* INV-WF-005: no two workers are inside the execution of one step, so no      *)
(* tool or agent call of a step is made by two of them at once.                *)
OneWorkerPerStep ==
    \A v, w \in Workers :
        v # w /\ pc[v] # "idle" /\ pc[w] # "idle" => claim[v].step # claim[w].step

\* INV-WF-010: retries never exceed the ceiling persisted with the step.
AttemptsBounded == \A s \in Steps : attempt[s] <= MaxAttempts[s]

(* INV-WF-004 and INV-WF-009: a terminal run absorbs every later commit of a   *)
(* worker or caller (no claim, completion, failure, resume), and a terminal    *)
(* step keeps its state whatever happens to the run.                           *)
TerminalAbsorbs ==
    [][/\ run \in WorkflowTerminal => UNCHANGED durable
       /\ \A s \in Steps : step[s] \in StepTerminal => step'[s] = step[s]]_vars

(* While a run is PAUSED nothing is claimed, and no step becomes READY but a   *)
(* running one that is to be retried: completion does not unlock successors.   *)
PauseHolds ==
    [][run = "PAUSED" /\ run' = "PAUSED" =>
        \A s \in Steps : step'[s] # step[s] /\ step'[s] \in {"READY", "RUNNING"} =>
            step[s] = "RUNNING"]_vars

(* The step rows seen as claimable work, and the promise they keep: every      *)
(* commit of a worker or of a caller is a step FencedClaim allows.             *)
PhaseOf(st) ==
    IF st = "PENDING" THEN "closed" ELSE IF st = "READY" THEN "open"
    ELSE IF st = "RUNNING" THEN "held" ELSE "done"

Ledger == INSTANCE FencedClaim WITH
    Items <- Steps, phase <- [s \in Steps |-> PhaseOf(step[s])],
    holder <- token, issued <- attempt

(* The workflow engine implements the fenced claim of FencedClaim: a RUNNING   *)
(* step leaves that state only by the terminal write of its claim's holder.    *)
StepsAreFencedClaims == Ledger!Spec

-----------------------------------------------------------------------------
(* What the documents say and the code does not keep.                          *)

(* The run events of the design are the record of the run's life: a run that   *)
(* is COMPLETED has published workflow.run.completed.                          *)
(* The code does not keep it (README, Divergences).                            *)
CompletionAnnounced == run = "COMPLETED" => "completed" \in events

(* "Can a stale worker execute after cancel?  It cannot begin a new effect:    *)
(* every dispatch checks durable run state and current token."                 *)
(* The code does not keep it (README, Divergences).                            *)
NoEffectBegunAfterCancel ==
    [][\A s \in Steps : effect[s] = "none" /\ effect'[s] # "none" => run # "CANCELLED"]_vars

(* "If ... an external outcome is ambiguous, the step remains durably RUNNING  *)
(* ... P14 does not blindly redispatch": a step whose call succeeded is not    *)
(* failed, nor made READY again, because its completion could not be stored.   *)
(* The code does not keep it (README, Divergences).                            *)
SuccessfulEffectKept ==
    \A s \in Steps : effect[s] = "succeeded" => step[s] \notin {"READY", "FAILED"}

(* A run follows its definition: no step is worked before its dependencies, a  *)
(* branch that was not selected is skipped and no other, a step has one worker *)
(* and its attempts, the run's outcome is the one its steps add up to and then *)
(* stays, and a pause holds.                                                   *)
RunFollowsDefinition ==
    /\ [](/\ TypeOK /\ DependenciesRespected /\ UnselectedBranchSkipped /\ SkipJustified
          /\ VerdictMatchesSteps /\ OneWorkerPerStep /\ AttemptsBounded)
    /\ TerminalAbsorbs /\ PauseHolds
=============================================================================
