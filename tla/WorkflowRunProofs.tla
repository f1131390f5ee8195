-------------------------- MODULE WorkflowRunProofs --------------------------
(* The safety properties of WorkflowRun for every graph, retry policy and set  *)
(* of workers.  The inductive invariant is IInv below; the facts about         *)
(* _advance that the argument needs are the lemmas before it.                  *)
EXTENDS WorkflowRun, TLAPS

\* The states of a step that was released to workers.
Active == {"READY", "RUNNING", "COMPLETED", "FAILED"}

\* A worker inside execute_next owns the row of the step it claimed.
OwnerHolds == \A w \in Workers : pc[w] # "idle" => owner[claim[w].step] = w

\* A row nobody has claimed, or whose last claim was given back, has no owner.
UnclaimedFree ==
    \A s \in Steps : step[s] \in {"PENDING", "READY"} =>
        owner[s] = NoWorker /\ attempt[s] < MaxAttempts[s]

OutputOnlyWhenCompleted == \A s \in Steps : output[s] # {} => step[s] = "COMPLETED"

UnselectedIsBranch ==
    \A w \in Workers : pc[w] = "finishing" =>
        unselected[w] \subseteq Then[claim[w].step] \cup Else[claim[w].step]

CancelledOnlyWithRun == run # "CANCELLED" => \A s \in Steps : step[s] # "CANCELLED"

\* The inductive invariant.
IInv ==
    /\ TypeOK
    /\ OwnerHolds
    /\ UnclaimedFree
    /\ AttemptsBounded
    /\ OutputOnlyWhenCompleted
    /\ UnselectedIsBranch
    /\ CancelledOnlyWithRun
    /\ DependenciesRespected
    /\ UnselectedBranchSkipped
    /\ SkipJustified
    /\ NoStall
    /\ VerdictMatchesSteps

-----------------------------------------------------------------------------
(* Whether a step's dependencies satisfy its mode depends on their states only *)
(* (the pure function resolve_pending_step).                                   *)
LEMMA SatisfiedDependsOnDeps ==
    ASSUME NEW deps, NEW mode, NEW st1, NEW st2, \A d \in deps : st1[d] = st2[d]
    PROVE  Satisfied(deps, mode, st1) <=> Satisfied(deps, mode, st2)
  BY DEF Satisfied

(* What _advance may leave is a function from steps to step states.            *)
LEMMA CandidatesType ==
    ASSUME NEW st \in [Steps -> StepStates], NEW after \in AdvanceCandidates(Steps, st)
    PROVE  after \in [Steps -> StepStates]
  <1> DEFINE open == {s \in Steps : st[s] = "PENDING"}
  <1>1. PICK f \in [open -> {"PENDING", "READY", "SKIPPED"}] :
            after = [s \in Steps |-> IF s \in open THEN f[s] ELSE st[s]]
    BY DEF AdvanceCandidates
  <1> QED BY <1>1 DEF StepStates

(* On an acyclic graph, as long as some step is neither COMPLETED nor SKIPPED  *)
(* and none failed, what _advance leaves has a step that is READY or RUNNING.  *)
LEMMA AdvancedProgress ==
    ASSUME NEW st \in [Steps -> StepStates], NEW after \in [Steps -> StepStates],
           Advanced(Steps, Deps, Mode, st, after),
           \A s \in Steps : st[s] \notin {"FAILED", "CANCELLED"},
           ~ \A s \in Steps : after[s] \in Resolved
    PROVE  \E s \in Steps : after[s] \in {"READY", "RUNNING"}
  <1> DEFINE T == {s \in Steps : after[s] \notin Resolved}
  <1>1. T \in SUBSET Steps /\ T # {}
    OBVIOUS
  <1>2. PICK s \in T : Deps[s] \cap T = {}
    BY <1>1, GraphAssumption, Zenon DEF Acyclic
  <1>3. \A d \in Deps[s] : after[d] \in Resolved
    BY <1>2, GraphAssumption
  <1>4. after[s] \notin Resolved /\ s \in Steps
    BY <1>2
  <1>5. CASE st[s] = "PENDING"
    <2>1. after[s] = ResolvePendingStep(Deps[s], Mode[s], after)
      BY <1>4, <1>5 DEF Advanced
    <2>2. after[s] \in {"READY", "SKIPPED"}
      BY <2>1, <1>3 DEF ResolvePendingStep
    <2> QED BY <2>2, <1>4 DEF Resolved
  <1>6. CASE st[s] # "PENDING"
    <2>1. after[s] = st[s]
      BY <1>4, <1>6 DEF Advanced
    <2> QED BY <2>1, <1>4, <1>6 DEF Resolved, StepStates
  <1> QED BY <1>5, <1>6

(* One call of _advance: it leaves every decided step alone, decides PENDING   *)
(* steps by their dependencies' new states, completes the run only when every  *)
(* step is resolved, and leaves a RUNNING run with something to do.            *)
LEMMA AdvanceRunEffect ==
    ASSUME NEW st \in [Steps -> StepStates], NEW r \in RunStates, AdvanceRun(r, st)
    PROVE  /\ step' \in [Steps -> StepStates]
           /\ \A s \in Steps : st[s] # "PENDING" => step'[s] = st[s]
           /\ \A s \in Steps : st[s] = "PENDING" => step'[s] \in {"PENDING", "READY", "SKIPPED"}
           /\ \A s \in Steps : st[s] = "PENDING" /\ step'[s] # "PENDING" =>
                    /\ \A d \in Deps[s] : step'[d] \in Resolved
                    /\ step'[s] = "READY" <=> Satisfied(Deps[s], Mode[s], step')
           /\ \/ run' = r
              \/ r = "RUNNING" /\ run' = "COMPLETED" /\ \A s \in Steps : step'[s] \in Resolved
           /\ run' = "RUNNING" /\ (\A s \in Steps : st[s] \notin {"FAILED", "CANCELLED"}) =>
                    \E s \in Steps : step'[s] \in {"READY", "RUNNING"}
  <1>1. CASE r # "RUNNING"
    BY <1>1 DEF AdvanceRun
  <1>2. CASE r = "RUNNING"
    <2>1. PICK after \in AdvanceCandidates(Steps, st) :
              /\ Advanced(Steps, Deps, Mode, st, after)
              /\ step' = after
              /\ run' = IF \A s \in Steps : after[s] \in Resolved THEN "COMPLETED" ELSE r
      BY <1>2 DEF AdvanceRun
    <2>2. after \in [Steps -> StepStates]
      BY <2>1, CandidatesType
    <2>3. ASSUME NEW s \in Steps, st[s] = "PENDING"
          PROVE  /\ after[s] \in {"PENDING", "READY", "SKIPPED"}
                 /\ after[s] # "PENDING" =>
                        /\ \A d \in Deps[s] : after[d] \in Resolved
                        /\ after[s] = "READY" <=> Satisfied(Deps[s], Mode[s], after)
      <3>1. after[s] = ResolvePendingStep(Deps[s], Mode[s], after)
        BY <2>1, <2>3 DEF Advanced
      <3> QED BY <3>1 DEF ResolvePendingStep
    <2>4. \A s \in Steps : st[s] # "PENDING" => after[s] = st[s]
      BY <2>1 DEF Advanced
    <2>5. (\A s \in Steps : st[s] \notin {"FAILED", "CANCELLED"}) /\ run' = "RUNNING" =>
              \E s \in Steps : after[s] \in {"READY", "RUNNING"}
      BY <2>1, <2>2, AdvancedProgress
    <2> QED BY <1>2, <2>1, <2>2, <2>3, <2>4, <2>5
  <1> QED BY <1>1, <1>2

(* A released step stays justified when steps that are decided keep their      *)
(* state and every newly released one is justified by the new states.          *)
LEMMA DependenciesKept ==
    ASSUME TypeOK, DependenciesRespected,
           \A s \in Steps : step[s] \in Resolved => step'[s] = step[s],
           \A s \in Steps : step'[s] \in Active =>
                \/ step[s] \in Active
                \/ /\ \A d \in Deps[s] : step'[d] \in Resolved
                   /\ Satisfied(Deps[s], Mode[s], step')
    PROVE  DependenciesRespected'
  <1> SUFFICES ASSUME NEW s \in Steps, step'[s] \in Active
               PROVE  /\ \A d \in Deps[s] : step'[d] \in Resolved
                      /\ Satisfied(Deps[s], Mode[s], step')
    BY DEF DependenciesRespected, Active
  <1>1. CASE step[s] \in Active
    <2>1. \A d \in Deps[s] : step[d] \in Resolved /\ step'[d] = step[d]
      BY <1>1, GraphAssumption DEF DependenciesRespected, Active
    <2>2. Satisfied(Deps[s], Mode[s], step)
      BY <1>1 DEF DependenciesRespected, Active
    <2> QED BY <2>1, <2>2, SatisfiedDependsOnDeps
  <1> QED BY <1>1

(* The same for the steps that were skipped.                                   *)
LEMMA SkipKept ==
    ASSUME TypeOK, SkipJustified,
           \A s \in Steps : step[s] \in Resolved => step'[s] = step[s],
           \A s, c \in Steps : s \in output[c] => s \in output'[c],
           \A s \in Steps : step'[s] = "SKIPPED" =>
                \/ step[s] = "SKIPPED"
                \/ \E c \in Steps : s \in output'[c]
                \/ /\ \A d \in Deps[s] : step'[d] \in Resolved
                   /\ ~Satisfied(Deps[s], Mode[s], step')
    PROVE  SkipJustified'
  <1> SUFFICES ASSUME NEW s \in Steps, step'[s] = "SKIPPED"
               PROVE  \/ \E c \in Steps : s \in output'[c]
                      \/ /\ \A d \in Deps[s] : step'[d] \in Resolved
                         /\ ~Satisfied(Deps[s], Mode[s], step')
    BY DEF SkipJustified
  <1>1. CASE step[s] = "SKIPPED"
    <2>1. CASE \E c \in Steps : s \in output[c]
      BY <2>1
    <2>2. CASE /\ \A d \in Deps[s] : step[d] \in Resolved
               /\ ~Satisfied(Deps[s], Mode[s], step)
      <3>1. \A d \in Deps[s] : step'[d] = step[d]
        BY <2>2, GraphAssumption
      <3> QED BY <2>2, <3>1, SatisfiedDependsOnDeps
    <2> QED BY <1>1, <2>1, <2>2 DEF SkipJustified
  <1> QED BY <1>1

-----------------------------------------------------------------------------
(* The rows start_run creates satisfy the invariant: a valid graph has a step  *)
(* without dependencies, so the new run is not stuck.                          *)
LEMMA InitIInv == Init => IInv
  <1> SUFFICES ASSUME Init PROVE IInv
    OBVIOUS
  <1>1. \A s \in Steps : step[s] = IF Deps[s] = {} THEN "READY" ELSE "PENDING"
    BY DEF Init
  <1>2. TypeOK
    BY GraphAssumption DEF Init, TypeOK, RunStates, StepStates, Claims
  <1>3. OwnerHolds /\ UnselectedIsBranch
    BY DEF Init, OwnerHolds, UnselectedIsBranch
  <1>4. UnclaimedFree /\ AttemptsBounded
    BY GraphAssumption DEF Init, UnclaimedFree, AttemptsBounded
  <1>5. OutputOnlyWhenCompleted /\ UnselectedBranchSkipped
    BY DEF Init, OutputOnlyWhenCompleted, UnselectedBranchSkipped
  <1>6. DependenciesRespected /\ SkipJustified /\ CancelledOnlyWithRun
    BY <1>1 DEF DependenciesRespected, SkipJustified, CancelledOnlyWithRun, Satisfied
  <1>7. NoStall
    <2>1. PICK s \in Steps : Deps[s] \cap Steps = {}
      BY GraphAssumption DEF Acyclic
    <2>2. Deps[s] = {}
      BY <2>1, GraphAssumption
    <2> QED BY <2>2, <1>1 DEF NoStall
  <1>8. VerdictMatchesSteps
    BY <1>1 DEF Init, VerdictMatchesSteps
  <1> QED BY <1>2, <1>3, <1>4, <1>5, <1>6, <1>7, <1>8 DEF IInv

(* Steps that touch neither the run row nor the step rows nor the outputs.     *)
LEMMA RowsUntouched ==
    ASSUME IInv, UNCHANGED <<durable, output>>, TypeOK', OwnerHolds', UnselectedIsBranch'
    PROVE  IInv'
  <1> USE DEF durable
  <1>1. UnclaimedFree' /\ AttemptsBounded' /\ OutputOnlyWhenCompleted' /\ CancelledOnlyWithRun'
    BY DEF IInv, UnclaimedFree, AttemptsBounded, OutputOnlyWhenCompleted, CancelledOnlyWithRun
  <1>2. DependenciesRespected' /\ UnselectedBranchSkipped' /\ SkipJustified'
    BY DEF IInv, DependenciesRespected, UnselectedBranchSkipped, SkipJustified
  <1>3. NoStall' /\ VerdictMatchesSteps'
    BY DEF IInv, NoStall, VerdictMatchesSteps
  <1> QED BY <1>1, <1>2, <1>3 DEF IInv

(* A worker that is running has a step of the graph in its hands.              *)
LEMMA ClaimedStep ==
    ASSUME TypeOK, NEW w \in Workers, pc[w] # "idle"
    PROVE  claim[w].step \in Steps /\ claim[w].token \in Nat
  BY DEF TypeOK, Claims

\* claim_next preserves the invariant.
LEMMA ClaimNextStep ==
    ASSUME IInv, NEW w \in Workers, ClaimNext(w)
    PROVE  IInv'
  <1>1. PICK s \in Steps :
            /\ step[s] = "READY"
            /\ step' = [step EXCEPT ![s] = "RUNNING"]
            /\ attempt' = [attempt EXCEPT ![s] = @ + 1]
            /\ owner' = [owner EXCEPT ![s] = w]
            /\ token' = [token EXCEPT ![s] = attempt[s] + 1]
            /\ claim' = [claim EXCEPT ![w] = [step |-> s, token |-> attempt[s] + 1]]
    BY Zenon DEF ClaimNext, Ready
  <1>2. /\ run = "RUNNING" /\ pc[w] = "idle" /\ pc' = [pc EXCEPT ![w] = "claimed"]
        /\ UNCHANGED <<run, retryable, unselected, effect, output, events>>
    BY DEF ClaimNext
  <1>3. TypeOK
    BY DEF IInv
  <1>4. /\ step' \in [Steps -> StepStates] /\ attempt' \in [Steps -> Nat]
        /\ owner' \in [Steps -> Workers \cup {NoWorker}] /\ token' \in [Steps -> Nat]
        /\ claim' \in [Workers -> Claims] /\ claim'[w] # NoClaim
        /\ claim'[w].step = s
    BY <1>1, <1>3 DEF TypeOK, StepStates, Claims, NoClaim
  <1>5. TypeOK'
    BY <1>1, <1>2, <1>3, <1>4 DEF TypeOK
  <1>6. \A v \in Workers : pc[v] # "idle" => claim[v].step # s
    BY <1>1, WorkerAssumption DEF IInv, OwnerHolds, UnclaimedFree
  <1>7. OwnerHolds'
    BY <1>1, <1>2, <1>3, <1>4, <1>6, ClaimedStep DEF IInv, OwnerHolds, TypeOK
  <1>8. UnclaimedFree' /\ AttemptsBounded'
    BY <1>1, <1>3, GraphAssumption DEF IInv, UnclaimedFree, AttemptsBounded, TypeOK
  <1>9. OutputOnlyWhenCompleted' /\ CancelledOnlyWithRun' /\ UnselectedBranchSkipped'
    BY <1>1, <1>2, <1>3
    DEF IInv, OutputOnlyWhenCompleted, CancelledOnlyWithRun, UnselectedBranchSkipped, TypeOK
  <1>10. UnselectedIsBranch'
    BY <1>1, <1>2, <1>3 DEF IInv, UnselectedIsBranch, TypeOK
  <1>11. \A x \in Steps : /\ step[x] \in Resolved => step'[x] = step[x]
                          /\ step'[x] \in Active => step[x] \in Active
                          /\ step'[x] = "SKIPPED" => step[x] = "SKIPPED"
    BY <1>1, <1>3 DEF TypeOK, Resolved, Active
  <1>12. DependenciesRespected'
    BY <1>3, <1>11, DependenciesKept DEF IInv
  <1>13. SkipJustified'
    BY <1>2, <1>3, <1>11, SkipKept DEF IInv
  <1>14. NoStall' /\ VerdictMatchesSteps'
    BY <1>1, <1>2, <1>3 DEF IInv, NoStall, VerdictMatchesSteps, TypeOK
  <1> QED
    BY <1>5, <1>7, <1>8, <1>9, <1>10, <1>12, <1>13, <1>14 DEF IInv

\* _execute preserves the invariant, whether it returns or raises.
LEMMA ExecuteStep ==
    ASSUME IInv, NEW w \in Workers, Execute(w) \/ ExecuteFails(w) \/ FinishRaises(w) \/ Abandon(w)
    PROVE  IInv'
  <1>1. TypeOK
    BY DEF IInv
  <1>2. pc[w] # "idle" /\ claim[w].step \in Steps
    BY <1>1, ClaimedStep, Zenon DEF Execute, ExecuteFails, FinishRaises, Abandon
  <1>3. CASE Execute(w)
    <2>1. PICK branch \in SUBSET Steps :
              /\ unselected' = [unselected EXCEPT ![w] = branch]
              /\ branch \subseteq Then[claim[w].step] \cup Else[claim[w].step]
      BY <1>2, <1>3, GraphAssumption, Zenon DEF Execute
    <2>2. TypeOK'
      BY <1>1, <1>2, <1>3, <2>1 DEF Execute, TypeOK, durable
    <2>3. /\ UNCHANGED <<claim, owner>> /\ pc[w] = "claimed"
          /\ \A v \in Workers \ {w} : pc'[v] = pc[v] /\ unselected'[v] = unselected[v]
          /\ unselected'[w] = branch
      BY <1>1, <1>3, <2>1 DEF Execute, TypeOK, durable
    <2>4. OwnerHolds'
      BY <1>2, <2>3 DEF IInv, OwnerHolds
    <2>5. UnselectedIsBranch'
      BY <2>1, <2>3 DEF IInv, UnselectedIsBranch
    <2> QED BY <1>3, <2>2, <2>4, <2>5, RowsUntouched DEF Execute
  <1>4. CASE ExecuteFails(w)
    <2>1. TypeOK'
      BY <1>1, <1>2, <1>4 DEF ExecuteFails, TypeOK, durable
    <2>2. OwnerHolds' /\ UnselectedIsBranch'
      BY <1>1, <1>4 DEF ExecuteFails, IInv, OwnerHolds, UnselectedIsBranch, TypeOK, durable
    <2> QED BY <1>4, <2>1, <2>2, RowsUntouched DEF ExecuteFails
  <1>5. CASE FinishRaises(w)
    <2>1. TypeOK'
      BY <1>1, <1>2, <1>5, Zenon DEF FinishRaises, TypeOK, durable
    <2>2. OwnerHolds' /\ UnselectedIsBranch'
      BY <1>1, <1>5 DEF FinishRaises, IInv, OwnerHolds, UnselectedIsBranch, TypeOK, durable
    <2> QED BY <1>5, <2>1, <2>2, RowsUntouched DEF FinishRaises
  <1>6. CASE Abandon(w)
    <2>1. TypeOK'
      BY <1>1, <1>6 DEF Abandon, Leaves, TypeOK, durable, Claims
    <2>2. OwnerHolds' /\ UnselectedIsBranch'
      BY <1>1, <1>6 DEF Abandon, Leaves, IInv, OwnerHolds, UnselectedIsBranch, TypeOK, durable
    <2> QED BY <1>6, <2>1, <2>2, RowsUntouched DEF Abandon
  <1> QED BY <1>3, <1>4, <1>5, <1>6

(* finish_step and finish_condition preserve the invariant.                    *)
LEMMA FinishStep ==
    ASSUME IInv, NEW w \in Workers, Finish(w)
    PROVE  IInv'
  <1> DEFINE s == claim[w].step
             st == [t \in Steps |->
                     IF t = s THEN "COMPLETED"
                     ELSE IF t \in unselected[w] /\ step[t] \in {"PENDING", "READY"} THEN "SKIPPED"
                     ELSE step[t]]
  <1>1. /\ TypeOK /\ s \in Steps /\ pc[w] = "finishing"
        /\ run \in {"RUNNING", "PAUSED"} /\ step[s] = "RUNNING" /\ owner[s] = w
    BY ClaimedStep DEF IInv, Finish, Authorized
  <1>2. /\ AdvanceRun(run, st)
        /\ output' = [output EXCEPT ![s] = unselected[w]]
        /\ UNCHANGED <<attempt, owner, token, effect>>
        /\ unselected' = [unselected EXCEPT ![w] = {}]
    BY DEF Finish, FinishWrites
  <1>3. st \in [Steps -> StepStates]
    BY <1>1 DEF TypeOK, StepStates
  <1> HIDE DEF s, st
  <1>4. run \in RunStates
    BY <1>1 DEF RunStates
  <1>5. /\ step' \in [Steps -> StepStates]
        /\ \A x \in Steps : st[x] # "PENDING" => step'[x] = st[x]
        /\ \A x \in Steps : st[x] = "PENDING" => step'[x] \in {"PENDING", "READY", "SKIPPED"}
        /\ \A x \in Steps : st[x] = "PENDING" /\ step'[x] # "PENDING" =>
                 /\ \A d \in Deps[x] : step'[d] \in Resolved
                 /\ step'[x] = "READY" <=> Satisfied(Deps[x], Mode[x], step')
        /\ \/ run' = run
           \/ run = "RUNNING" /\ run' = "COMPLETED" /\ \A x \in Steps : step'[x] \in Resolved
        /\ run' = "RUNNING" /\ (\A x \in Steps : st[x] \notin {"FAILED", "CANCELLED"}) =>
                 \E x \in Steps : step'[x] \in {"READY", "RUNNING"}
    BY <1>2, <1>3, <1>4, AdvanceRunEffect
  <1>6. \A x \in Steps : step[x] \notin {"FAILED", "CANCELLED"}
    BY <1>1 DEF IInv, VerdictMatchesSteps, CancelledOnlyWithRun
  <1>7. \A x \in Steps : /\ x = s => st[x] = "COMPLETED"
                         /\ x # s => st[x] = step[x] \/ st[x] = "SKIPPED"
                         /\ st[x] \notin {"FAILED", "CANCELLED"}
    BY <1>6 DEF st
  \* the unselected branch is PENDING or SKIPPED before, SKIPPED after
  <1>8. \A x \in unselected[w] : x \in Steps /\ st[x] = "SKIPPED"
    <2> SUFFICES ASSUME NEW x \in unselected[w]
                 PROVE  x \in Steps /\ st[x] = "SKIPPED"
      OBVIOUS
    <2>1. x \in Then[s] \cup Else[s]
      BY <1>1 DEF IInv, UnselectedIsBranch, s
    <2>2. x \in Steps /\ s \in Deps[x] /\ x # s
      BY <1>1, <2>1, GraphAssumption DEF BranchesOk, StepSpecOk
    <2>3. step[x] \notin Active
      BY <1>1, <2>2 DEF IInv, DependenciesRespected, Active, Resolved
    <2>4. step[x] \in {"PENDING", "SKIPPED"}
      BY <1>1, <1>6, <2>2, <2>3 DEF TypeOK, StepStates, Active
    <2> QED BY <2>2, <2>4 DEF st
  <1>9. \A x \in Steps : st[x] = "SKIPPED" => step[x] = "SKIPPED" \/ x \in unselected[w]
    BY DEF st
  <1>10. \A x \in Steps : step[x] \in Resolved => st[x] = step[x] /\ step'[x] = step[x]
    <2> SUFFICES ASSUME NEW x \in Steps, step[x] \in Resolved
                 PROVE  st[x] = step[x] /\ step'[x] = step[x]
      OBVIOUS
    <2>1. x # s
      BY <1>1 DEF Resolved
    <2>2. st[x] = step[x]
      BY <2>1 DEF st, Resolved
    <2> QED BY <1>5, <2>2 DEF Resolved
  <1>11. TypeOK'
    <2>1. output' \in [Steps -> SUBSET Steps] /\ unselected' \in [Workers -> SUBSET Steps]
      BY <1>1, <1>2 DEF TypeOK
    <2>2. run' \in RunStates
      BY <1>4, <1>5 DEF RunStates
    <2>3. events' \subseteq {"started", "paused", "resumed", "completed", "failed", "cancelled"}
      BY <1>1 DEF Finish, TypeOK
    <2>4. /\ pc' \in [Workers -> {"idle", "claimed", "finishing", "failing"}]
          /\ claim' \in [Workers -> Claims]
          /\ retryable' \in [Workers -> BOOLEAN]
          /\ \A v \in Workers : pc'[v] # "idle" => claim'[v] # NoClaim
      <3>1. CASE pc' = [pc EXCEPT ![w] = "idle"] /\ claim' = [claim EXCEPT ![w] = NoClaim]
                 /\ UNCHANGED retryable
        BY <1>1, <3>1 DEF TypeOK, Claims
      <3>2. CASE pc' = [pc EXCEPT ![w] = "failing"] /\ UNCHANGED claim
                 /\ \E b \in BOOLEAN : retryable' = [retryable EXCEPT ![w] = b]
        BY <1>1, <3>2 DEF TypeOK
      <3> QED BY <3>1, <3>2 DEF Finish
    <2> QED BY <1>1, <1>2, <1>5, <2>1, <2>2, <2>3, <2>4 DEF TypeOK
  <1>12. OwnerHolds' /\ UnselectedIsBranch'
    <2>1. /\ \A v \in Workers \ {w} : /\ pc'[v] = pc[v] /\ claim'[v] = claim[v]
                                       /\ unselected'[v] = unselected[v]
          /\ pc'[w] \in {"idle", "failing"} /\ (pc'[w] = "failing" => claim' = claim)
      BY <1>1, <1>2 DEF Finish, TypeOK
    <2>2. OwnerHolds'
      BY <1>1, <1>2, <2>1 DEF IInv, OwnerHolds
    <2>3. UnselectedIsBranch'
      BY <2>1 DEF IInv, UnselectedIsBranch
    <2> QED BY <2>2, <2>3
  <1>13. UnclaimedFree' /\ AttemptsBounded'
    <2>1. \A x \in Steps : step'[x] \in {"PENDING", "READY"} => step[x] \in {"PENDING", "READY"}
      BY <1>5, <1>7
    <2> QED BY <1>2, <2>1 DEF IInv, UnclaimedFree, AttemptsBounded
  <1>14. output[s] = {}
    BY <1>1 DEF IInv, OutputOnlyWhenCompleted
  <1>15. OutputOnlyWhenCompleted'
    <2> SUFFICES ASSUME NEW x \in Steps, output'[x] # {} PROVE step'[x] = "COMPLETED"
      BY DEF OutputOnlyWhenCompleted
    <2>1. CASE x = s
      BY <1>5, <1>7, <2>1
    <2>2. CASE x # s
      <3>1. output[x] # {}
        BY <1>1, <1>2, <2>2 DEF TypeOK
      <3>2. step[x] = "COMPLETED"
        BY <3>1 DEF IInv, OutputOnlyWhenCompleted
      <3> QED BY <1>10, <3>2 DEF Resolved
    <2> QED BY <2>1, <2>2
  <1>16. UnselectedBranchSkipped'
    <2> SUFFICES ASSUME NEW c \in Steps, NEW x \in output'[c]
                 PROVE  step'[x] = "SKIPPED"
      BY DEF UnselectedBranchSkipped
    <2>1. CASE c = s
      <3>1. x \in unselected[w]
        BY <1>1, <1>2, <2>1 DEF TypeOK
      <3> QED BY <3>1, <1>5, <1>8
    <2>2. CASE c # s
      <3>1. x \in Steps /\ step[x] = "SKIPPED"
        BY <1>1, <1>2, <2>2 DEF TypeOK, IInv, UnselectedBranchSkipped
      <3> QED BY <3>1, <1>10 DEF Resolved
    <2> QED BY <2>1, <2>2
  <1>17. DependenciesRespected'
    <2>1. \A x \in Steps : step'[x] \in Active =>
                \/ step[x] \in Active
                \/ /\ \A d \in Deps[x] : step'[d] \in Resolved
                   /\ Satisfied(Deps[x], Mode[x], step')
      BY <1>1, <1>5, <1>7 DEF Active
    <2> QED BY <1>1, <1>10, <2>1, DependenciesKept DEF IInv
  <1>18. SkipJustified'
    <2>1. \A x, c \in Steps : x \in output[c] => x \in output'[c]
      BY <1>1, <1>2, <1>14 DEF TypeOK
    <2>2. \A x \in Steps : x \in unselected[w] => x \in output'[s]
      BY <1>1, <1>2 DEF TypeOK
    <2>3. \A x \in Steps : step'[x] = "SKIPPED" =>
                \/ step[x] = "SKIPPED"
                \/ \E c \in Steps : x \in output'[c]
                \/ /\ \A d \in Deps[x] : step'[d] \in Resolved
                   /\ ~Satisfied(Deps[x], Mode[x], step')
      BY <1>1, <1>5, <1>9, <2>2
    <2> QED BY <1>1, <1>10, <2>1, <2>3, SkipKept DEF IInv
  <1>19. \A x \in Steps : step'[x] \notin {"FAILED", "CANCELLED"}
    BY <1>5, <1>7
  <1>20. NoStall' /\ VerdictMatchesSteps' /\ CancelledOnlyWithRun'
    BY <1>1, <1>5, <1>7, <1>19 DEF NoStall, VerdictMatchesSteps, CancelledOnlyWithRun
  <1> QED
    BY <1>11, <1>12, <1>13, <1>15, <1>16, <1>17, <1>18, <1>20 DEF IInv

\* fail_step preserves the invariant: what it releases, it also gives up.
LEMMA FailStep ==
    ASSUME IInv, NEW w \in Workers, Fail(w)
    PROVE  IInv'
  <1> DEFINE s == claim[w].step
  <1>1. TypeOK /\ s \in Steps /\ pc[w] = "failing"
    BY ClaimedStep DEF IInv, Fail
  <1>2. CASE ~Authorized(w)
    <2>1. UNCHANGED <<durable, output, events, effect>> /\ Leaves(w)
      BY <1>2 DEF Fail, durable
    <2>2. TypeOK'
      BY <1>1, <2>1 DEF Leaves, TypeOK, durable, Claims
    <2>3. OwnerHolds' /\ UnselectedIsBranch'
      BY <1>1, <2>1 DEF Leaves, IInv, OwnerHolds, UnselectedIsBranch, TypeOK, durable
    <2> QED BY <2>1, <2>2, <2>3, RowsUntouched
  <1>3. CASE Authorized(w)
    <2> DEFINE again == retryable[w] /\ attempt[s] < MaxAttempts[s]
    <2>1. /\ run \in {"RUNNING", "PAUSED"} /\ step[s] = "RUNNING" /\ owner[s] = w
          /\ step' = [step EXCEPT ![s] = IF again THEN "READY" ELSE "FAILED"]
          /\ owner' = [owner EXCEPT ![s] = IF again THEN NoWorker ELSE @]
          /\ token' = [token EXCEPT ![s] = IF again THEN 0 ELSE @]
          /\ run' = IF again THEN run ELSE "FAILED"
          /\ events' = events \cup (IF again THEN {} ELSE {"failed"})
          /\ Leaves(w) /\ UNCHANGED <<attempt, effect, output>>
      BY <1>3 DEF Fail, FailWrites, Authorized
    <2>2. again => attempt[s] < MaxAttempts[s]
      OBVIOUS
    <2> HIDE DEF s, again
    <2>3. TypeOK'
      BY <1>1, <2>1 DEF Leaves, TypeOK, Claims, RunStates, StepStates
    <2>4. OwnerHolds' /\ UnselectedIsBranch'
      <3>1. \A v \in Workers : v # w /\ pc[v] # "idle" => claim[v].step # s
        BY <2>1 DEF IInv, OwnerHolds
      <3> QED BY <1>1, <2>1, <3>1, ClaimedStep
              DEF Leaves, IInv, OwnerHolds, UnselectedIsBranch, TypeOK
    <2>5. UnclaimedFree' /\ AttemptsBounded'
      BY <1>1, <2>1, <2>2 DEF IInv, UnclaimedFree, AttemptsBounded, TypeOK
    <2>6. OutputOnlyWhenCompleted' /\ CancelledOnlyWithRun' /\ UnselectedBranchSkipped'
      BY <1>1, <2>1
      DEF IInv, OutputOnlyWhenCompleted, CancelledOnlyWithRun, UnselectedBranchSkipped, TypeOK
    <2>7. \A x \in Steps : /\ step[x] \in Resolved => step'[x] = step[x]
                           /\ step'[x] \in Active => step[x] \in Active
                           /\ step'[x] = "SKIPPED" => step[x] = "SKIPPED"
      BY <1>1, <2>1 DEF TypeOK, Resolved, Active
    <2>8. DependenciesRespected' /\ SkipJustified'
      BY <1>1, <2>1, <2>7, DependenciesKept, SkipKept DEF IInv
    <2>9. NoStall' /\ VerdictMatchesSteps'
      BY <1>1, <2>1 DEF IInv, NoStall, VerdictMatchesSteps, TypeOK
    <2> QED BY <2>3, <2>4, <2>5, <2>6, <2>8, <2>9 DEF IInv
  <1> QED BY <1>2, <1>3

\* pause_run preserves the invariant.
LEMMA PauseStep == ASSUME IInv, Pause PROVE IInv'
  <1>1. /\ run = "RUNNING" /\ run' = "PAUSED" /\ events' = events \cup {"paused"}
        /\ UNCHANGED <<step, attempt, owner, token, pc, claim, retryable, unselected,
                       effect, output>>
    BY DEF Pause, Allowed, WorkflowTransitions, IInv, TypeOK, RunStates, local
  <1>2. TypeOK' /\ OwnerHolds' /\ UnselectedIsBranch'
    BY <1>1 DEF IInv, TypeOK, RunStates, OwnerHolds, UnselectedIsBranch
  <1>3. UnclaimedFree' /\ AttemptsBounded' /\ OutputOnlyWhenCompleted'
    BY <1>1 DEF IInv, UnclaimedFree, AttemptsBounded, OutputOnlyWhenCompleted
  <1>4. DependenciesRespected' /\ UnselectedBranchSkipped' /\ SkipJustified'
    BY <1>1 DEF IInv, DependenciesRespected, UnselectedBranchSkipped, SkipJustified
  <1>5. NoStall' /\ VerdictMatchesSteps' /\ CancelledOnlyWithRun'
    BY <1>1 DEF IInv, NoStall, VerdictMatchesSteps, CancelledOnlyWithRun
  <1> QED BY <1>2, <1>3, <1>4, <1>5 DEF IInv

\* resume_run preserves the invariant: it advances what finished meanwhile.
LEMMA ResumeStep == ASSUME IInv, Resume PROVE IInv'
  <1>1. /\ run \in {"PENDING", "PAUSED"} /\ AdvanceRun("RUNNING", step)
        /\ events' = events \cup {"resumed"}
        /\ UNCHANGED <<attempt, owner, token, pc, claim, retryable, unselected, effect, output>>
    BY DEF Resume, Allowed, WorkflowTransitions, IInv, TypeOK, RunStates, local
  <1>2. TypeOK /\ "RUNNING" \in RunStates
    BY DEF IInv, RunStates
  <1>3. step \in [Steps -> StepStates]
    BY <1>2 DEF TypeOK
  <1>4. /\ step' \in [Steps -> StepStates]
        /\ \A x \in Steps : step[x] # "PENDING" => step'[x] = step[x]
        /\ \A x \in Steps : step[x] = "PENDING" => step'[x] \in {"PENDING", "READY", "SKIPPED"}
        /\ \A x \in Steps : step[x] = "PENDING" /\ step'[x] # "PENDING" =>
                 /\ \A d \in Deps[x] : step'[d] \in Resolved
                 /\ step'[x] = "READY" <=> Satisfied(Deps[x], Mode[x], step')
        /\ run' \in {"RUNNING", "COMPLETED"}
        /\ run' = "COMPLETED" => \A x \in Steps : step'[x] \in Resolved
        /\ run' = "RUNNING" /\ (\A x \in Steps : step[x] \notin {"FAILED", "CANCELLED"}) =>
                 \E x \in Steps : step'[x] \in {"READY", "RUNNING"}
    BY <1>1, <1>2, <1>3, AdvanceRunEffect
  <1>5. \A x \in Steps : step[x] \notin {"FAILED", "CANCELLED"}
                         /\ step'[x] \notin {"FAILED", "CANCELLED"}
    BY <1>1, <1>4 DEF IInv, VerdictMatchesSteps, CancelledOnlyWithRun
  <1>6. TypeOK' /\ OwnerHolds' /\ UnselectedIsBranch'
    BY <1>1, <1>2, <1>4, Zenon DEF IInv, TypeOK, RunStates, OwnerHolds, UnselectedIsBranch
  <1>7. UnclaimedFree' /\ AttemptsBounded'
    BY <1>1, <1>4 DEF IInv, UnclaimedFree, AttemptsBounded
  <1>8. OutputOnlyWhenCompleted' /\ UnselectedBranchSkipped'
    <2>1. \A x \in Steps : step[x] \in {"COMPLETED", "SKIPPED"} => step'[x] = step[x]
      BY <1>4
    <2>2. OutputOnlyWhenCompleted'
      BY <1>1, <2>1 DEF IInv, OutputOnlyWhenCompleted
    <2>3. \A c \in Steps : output[c] \subseteq Steps
      BY <1>2 DEF TypeOK
    <2>4. UnselectedBranchSkipped'
      BY <1>1, <2>1, <2>3 DEF IInv, UnselectedBranchSkipped
    <2> QED BY <2>2, <2>4
  <1>9. \A x \in Steps : step[x] \in Resolved => step'[x] = step[x]
    BY <1>4 DEF Resolved
  <1>10. DependenciesRespected'
    BY <1>2, <1>4, <1>9, DependenciesKept DEF IInv, Active
  <1>11. SkipJustified'
    BY <1>1, <1>2, <1>4, <1>9, SkipKept DEF IInv
  <1>12. NoStall' /\ VerdictMatchesSteps' /\ CancelledOnlyWithRun'
    BY <1>4, <1>5 DEF NoStall, VerdictMatchesSteps, CancelledOnlyWithRun
  <1> QED BY <1>6, <1>7, <1>8, <1>10, <1>11, <1>12 DEF IInv

\* cancel_run preserves the invariant.
LEMMA CancelStep == ASSUME IInv, Cancel PROVE IInv'
  <1>1. /\ run \in {"PENDING", "RUNNING", "PAUSED"} /\ run' = "CANCELLED"
        /\ events' = events \cup {"cancelled"}
        /\ step' = [s \in Steps |->
                      IF step[s] \in {"PENDING", "READY"} THEN "CANCELLED" ELSE step[s]]
        /\ UNCHANGED <<attempt, owner, token, pc, claim, retryable, unselected, effect, output>>
    BY DEF Cancel, Allowed, WorkflowTransitions, IInv, TypeOK, RunStates, local
  <1>2. TypeOK
    BY DEF IInv
  <1>3. TypeOK' /\ OwnerHolds' /\ UnselectedIsBranch'
    BY <1>1 DEF IInv, TypeOK, RunStates, StepStates, OwnerHolds, UnselectedIsBranch
  <1>4. UnclaimedFree' /\ AttemptsBounded'
    BY <1>1, Zenon DEF IInv, UnclaimedFree, AttemptsBounded
  <1>5. OutputOnlyWhenCompleted' /\ UnselectedBranchSkipped'
    BY <1>1, <1>2 DEF IInv, OutputOnlyWhenCompleted, UnselectedBranchSkipped, TypeOK
  <1>6. \A x \in Steps : /\ step[x] \in Resolved => step'[x] = step[x]
                         /\ step'[x] \in Active => step[x] \in Active
                         /\ step'[x] = "SKIPPED" => step[x] = "SKIPPED"
    BY <1>1 DEF Resolved, Active
  <1>7. DependenciesRespected' /\ SkipJustified'
    BY <1>1, <1>2, <1>6, DependenciesKept, SkipKept DEF IInv
  <1>8. NoStall' /\ VerdictMatchesSteps' /\ CancelledOnlyWithRun'
    BY <1>1 DEF IInv, NoStall, VerdictMatchesSteps, CancelledOnlyWithRun
  <1> QED BY <1>3, <1>4, <1>5, <1>7, <1>8 DEF IInv

\* Every step of the engine preserves the invariant.
LEMMA NextIInv == IInv /\ [Next]_vars => IInv'
  <1> SUFFICES ASSUME IInv, [Next]_vars PROVE IInv'
    OBVIOUS
  <1>1. CASE UNCHANGED vars
    <2>1. UNCHANGED <<durable, output>>
      BY <1>1 DEF vars, durable
    <2>2. TypeOK' /\ OwnerHolds' /\ UnselectedIsBranch'
      BY <1>1 DEF IInv, TypeOK, OwnerHolds, UnselectedIsBranch, vars
    <2> QED BY <2>1, <2>2, RowsUntouched
  <1>2. CASE \E w \in Workers : Worker(w)
    <2> PICK w \in Workers : Worker(w)
      BY <1>2
    <2> QED BY ClaimNextStep, ExecuteStep, FinishStep, FailStep DEF Worker
  <1>3. CASE Pause \/ Resume \/ Cancel
    BY <1>3, PauseStep, ResumeStep, CancelStep
  <1> QED BY <1>1, <1>2, <1>3 DEF Next

\* The invariant holds of every run of every published workflow.
THEOREM Invariance == Spec => []IInv
  BY InitIInv, NextIInv, PTL DEF Spec

\* The rows and the claims of the workers keep their types.
THEOREM TypeCorrect == Spec => []TypeOK
  <1>1. IInv => TypeOK
    BY DEF IInv
  <1> QED BY <1>1, Invariance, PTL

(* A step is only ever released with its dependencies resolved and satisfied,  *)
(* for every acyclic graph and every interleaving of workers and controls.     *)
THEOREM DependenciesAlwaysRespected == Spec => []DependenciesRespected
  <1>1. IInv => DependenciesRespected
    BY DEF IInv
  <1> QED BY <1>1, Invariance, PTL

(* A branch that finish_condition did not select never runs, and a step that   *)
(* is skipped is skipped for one of the two reasons the engine has.            *)
THEOREM SkipsAreRight == Spec => [](UnselectedBranchSkipped /\ SkipJustified)
  <1>1. IInv => UnselectedBranchSkipped /\ SkipJustified
    BY DEF IInv
  <1> QED BY <1>1, Invariance, PTL

(* A RUNNING run always has a step to claim or one that was claimed: _advance  *)
(* leaves nothing undecided, whatever the graph.                               *)
THEOREM NeverStalls == Spec => []NoStall
  <1>1. IInv => NoStall
    BY DEF IInv
  <1> QED BY <1>1, Invariance, PTL

\* The state of the run agrees with the states of its steps.
THEOREM VerdictIsRight == Spec => []VerdictMatchesSteps
  <1>1. IInv => VerdictMatchesSteps
    BY DEF IInv
  <1> QED BY <1>1, Invariance, PTL

(* Two workers never execute one step at the same time: the owner written at   *)
(* the claim stays until the owner itself has let go.                          *)
THEOREM MutualExclusion == Spec => []OneWorkerPerStep
  <1>1. IInv => OneWorkerPerStep
    BY DEF IInv, OwnerHolds, OneWorkerPerStep
  <1> QED BY <1>1, Invariance, PTL

\* A step is claimed at most max_attempts times.
THEOREM RetriesBounded == Spec => []AttemptsBounded
  <1>1. IInv => AttemptsBounded
    BY DEF IInv
  <1> QED BY <1>1, Invariance, PTL

-----------------------------------------------------------------------------
(* What one step does to the row of one step run, for every action: the cases  *)
(* the action properties and the refinement are read off from.                 *)
LEMMA FinishRows ==
    ASSUME IInv, NEW w \in Workers, Finish(w)
    PROVE  /\ claim[w].step \in Steps
           /\ step[claim[w].step] = "RUNNING" /\ step'[claim[w].step] = "COMPLETED"
           /\ run \in {"RUNNING", "PAUSED"}
           /\ \A x \in Steps \ {claim[w].step} :
                \/ step'[x] = step[x]
                \/ step[x] = "PENDING" /\ step'[x] = "READY" /\ run = "RUNNING"
                \/ step[x] \in {"PENDING", "READY"} /\ step'[x] = "SKIPPED"
           /\ UNCHANGED <<attempt, owner, token>>
  <1> DEFINE s == claim[w].step
             st == [t \in Steps |->
                     IF t = s THEN "COMPLETED"
                     ELSE IF t \in unselected[w] /\ step[t] \in {"PENDING", "READY"} THEN "SKIPPED"
                     ELSE step[t]]
  <1>1. /\ TypeOK /\ s \in Steps /\ run \in {"RUNNING", "PAUSED"} /\ step[s] = "RUNNING"
        /\ AdvanceRun(run, st) /\ UNCHANGED <<attempt, owner, token>>
    BY ClaimedStep DEF IInv, Finish, Authorized, FinishWrites
  <1>2. st \in [Steps -> StepStates] /\ run \in RunStates
    BY <1>1 DEF TypeOK, StepStates, RunStates
  <1>3. /\ st[s] = "COMPLETED"
        /\ \A x \in Steps \ {s} :
              st[x] = step[x] \/ (step[x] \in {"PENDING", "READY"} /\ st[x] = "SKIPPED")
    BY <1>1
  <1> HIDE DEF s, st
  <1>4. run # "RUNNING" => step' = st
    BY <1>1 DEF AdvanceRun
  <1>5. \A x \in Steps :
            /\ st[x] # "PENDING" => step'[x] = st[x]
            /\ st[x] = "PENDING" => step'[x] \in {"PENDING", "READY", "SKIPPED"}
    BY <1>1, <1>2, AdvanceRunEffect
  <1>6. step'[s] = "COMPLETED"
    BY <1>1, <1>3, <1>5
  <1>7. \A x \in Steps \ {s} :
                \/ step'[x] = step[x]
                \/ step[x] = "PENDING" /\ step'[x] = "READY" /\ run = "RUNNING"
                \/ step[x] \in {"PENDING", "READY"} /\ step'[x] = "SKIPPED"
    BY <1>1, <1>3, <1>4, <1>5
  <1> QED BY <1>1, <1>6, <1>7 DEF s

\* The same for resume_run.
LEMMA ResumeRows ==
    ASSUME IInv, Resume
    PROVE  /\ run \in {"PENDING", "PAUSED"} /\ run' \in {"RUNNING", "COMPLETED"}
           /\ \A x \in Steps :
                \/ step'[x] = step[x]
                \/ step[x] = "PENDING" /\ step'[x] \in {"READY", "SKIPPED"}
           /\ UNCHANGED <<attempt, owner, token>>
  <1>1. /\ run \in {"PENDING", "PAUSED"} /\ AdvanceRun("RUNNING", step)
        /\ UNCHANGED <<attempt, owner, token>>
    BY DEF Resume, Allowed, WorkflowTransitions, IInv, TypeOK, RunStates
  <1>2. step \in [Steps -> StepStates] /\ "RUNNING" \in RunStates
    BY DEF IInv, TypeOK, RunStates
  <1>3. /\ run' \in {"RUNNING", "COMPLETED"}
        /\ \A x \in Steps :
              /\ step[x] # "PENDING" => step'[x] = step[x]
              /\ step[x] = "PENDING" => step'[x] \in {"PENDING", "READY", "SKIPPED"}
    BY <1>1, <1>2, AdvanceRunEffect
  <1> QED BY <1>1, <1>3

(* What a commit does to the step rows.  Either the row of one step is moved   *)
(* by a worker (claimed, given back, settled) ...                              *)
WorkerMoves(s) ==
    \/ /\ run = "RUNNING" /\ step[s] = "READY" /\ step'[s] = "RUNNING"
       /\ attempt'[s] = attempt[s] + 1 /\ token'[s] = attempt[s] + 1
    \/ /\ step[s] = "RUNNING" /\ step'[s] = "READY"
       /\ attempt'[s] = attempt[s] /\ token'[s] = 0
    \/ /\ step[s] = "RUNNING" /\ step'[s] \in {"COMPLETED", "FAILED"}
       /\ attempt'[s] = attempt[s] /\ token'[s] = token[s]

\* ... beside which _advance and the branch skip move unclaimed rows ...
AdvanceMoves(x) ==
    /\ attempt'[x] = attempt[x] /\ token'[x] = token[x]
    /\ \/ step'[x] = step[x]
       \/ step[x] = "PENDING" /\ step'[x] = "READY" /\ run = "RUNNING"
       \/ step[x] \in {"PENDING", "READY"} /\ step'[x] = "SKIPPED"

\* ... or a caller moves unclaimed rows only.
ControlMoves(x) ==
    /\ attempt'[x] = attempt[x] /\ token'[x] = token[x]
    /\ \/ step'[x] = step[x]
       \/ step[x] = "PENDING" /\ step'[x] \in {"READY", "SKIPPED"}
       \/ step[x] \in {"PENDING", "READY"} /\ step'[x] = "CANCELLED"

RowMove ==
    \/ UNCHANGED durable
    \/ /\ run \notin WorkflowTerminal
       /\ \E s \in Steps : WorkerMoves(s) /\ \A x \in Steps \ {s} : AdvanceMoves(x)
    \/ /\ run \notin WorkflowTerminal /\ (run = "PAUSED" => run' # "PAUSED")
       /\ \A x \in Steps : ControlMoves(x)

\* Every step of the engine is one of these.
LEMMA RowMoves == ASSUME IInv, [Next]_vars PROVE RowMove
  <1> USE DEF WorkflowTerminal
  <1>1. TypeOK
    BY DEF IInv
  <1>2. CASE UNCHANGED vars
    BY <1>2 DEF vars, RowMove, durable
  <1>3. ASSUME NEW w \in Workers, ClaimNext(w) PROVE RowMove
    <2>1. PICK s \in Steps :
            /\ step[s] = "READY"
            /\ step' = [step EXCEPT ![s] = "RUNNING"]
            /\ attempt' = [attempt EXCEPT ![s] = @ + 1]
            /\ token' = [token EXCEPT ![s] = attempt[s] + 1]
      BY <1>3, Zenon DEF ClaimNext, Ready
    <2>2. run = "RUNNING"
      BY <1>3 DEF ClaimNext
    <2>3. WorkerMoves(s)
      BY <1>1, <2>1, <2>2 DEF TypeOK, WorkerMoves
    <2>4. \A x \in Steps \ {s} : AdvanceMoves(x)
      BY <1>1, <2>1 DEF TypeOK, AdvanceMoves
    <2> QED BY <2>2, <2>3, <2>4 DEF RowMove
  <1>4. ASSUME NEW w \in Workers, Execute(w) \/ ExecuteFails(w) \/ FinishRaises(w) \/ Abandon(w)
        PROVE  RowMove
    BY <1>4, Zenon DEF Execute, ExecuteFails, FinishRaises, Abandon, RowMove
  <1>5. ASSUME NEW w \in Workers, Finish(w) PROVE RowMove
    <2> DEFINE s == claim[w].step
    <2>1. s \in Steps /\ run \notin WorkflowTerminal
      BY Zenon, <1>5, FinishRows
    <2>2. WorkerMoves(s)
      BY <1>5, FinishRows DEF WorkerMoves
    <2>3. \A x \in Steps \ {s} : AdvanceMoves(x)
      BY <1>5, FinishRows DEF AdvanceMoves
    <2> QED BY <2>1, <2>2, <2>3 DEF RowMove
  <1>6. ASSUME NEW w \in Workers, Fail(w) PROVE RowMove
    <2> DEFINE s == claim[w].step
    <2>1. s \in Steps
      BY <1>1, <1>6, ClaimedStep DEF Fail
    <2>2. CASE ~Authorized(w)
      BY <1>6, <2>2 DEF Fail, RowMove, durable
    <2>3. CASE Authorized(w)
      <3>1. run \notin WorkflowTerminal /\ step[s] = "RUNNING" /\ FailWrites(w)
            /\ UNCHANGED attempt
        BY <1>6, <2>3 DEF Fail, Authorized
      <3>2. WorkerMoves(s)
        BY <1>1, <2>1, <3>1 DEF FailWrites, WorkerMoves, TypeOK
      <3>3. \A x \in Steps \ {s} : AdvanceMoves(x)
        BY <1>1, <2>1, <3>1 DEF FailWrites, AdvanceMoves, TypeOK
      <3> QED BY <2>1, <3>1, <3>2, <3>3 DEF RowMove
    <2> QED BY <2>2, <2>3
  <1>7. CASE Pause
    BY <1>1, <1>7
    DEF Pause, Allowed, WorkflowTransitions, TypeOK, RunStates, RowMove, ControlMoves
  <1>8. CASE Resume
    BY <1>8, ResumeRows, Zenon DEF RowMove, ControlMoves
  <1>9. CASE Cancel
    BY <1>1, <1>9
    DEF Cancel, Allowed, WorkflowTransitions, TypeOK, RunStates, RowMove, ControlMoves
  <1> QED
    BY <1>2, <1>3, <1>4, <1>5, <1>6, <1>7, <1>8, <1>9 DEF Next, Worker

(* A terminal run absorbs every later commit, and a terminal step keeps its    *)
(* state: the fence of finish_step and fail_step and the transition table.     *)
THEOREM TerminalIsFinal == Spec => TerminalAbsorbs
  <1>1. IInv /\ [Next]_vars =>
          [/\ run \in WorkflowTerminal => UNCHANGED durable
           /\ \A s \in Steps : step[s] \in StepTerminal => step'[s] = step[s]]_vars
    <2> SUFFICES ASSUME IInv, [Next]_vars
                 PROVE  /\ run \in WorkflowTerminal => UNCHANGED durable
                        /\ \A s \in Steps : step[s] \in StepTerminal => step'[s] = step[s]
      OBVIOUS
    <2>1. RowMove
      BY RowMoves
    <2> QED BY <2>1
            DEF RowMove, WorkerMoves, AdvanceMoves, ControlMoves, durable, StepTerminal
  <1> QED BY <1>1, Invariance, PTL DEF Spec, TerminalAbsorbs

\* While a run is PAUSED nothing is claimed and completion unlocks nothing.
THEOREM PauseIsHeld == Spec => PauseHolds
  <1>1. IInv /\ [Next]_vars =>
          [run = "PAUSED" /\ run' = "PAUSED" =>
            \A s \in Steps : step'[s] # step[s] /\ step'[s] \in {"READY", "RUNNING"} =>
                step[s] = "RUNNING"]_vars
    <2> SUFFICES ASSUME IInv, [Next]_vars, run = "PAUSED", run' = "PAUSED", NEW s \in Steps,
                        step'[s] # step[s], step'[s] \in {"READY", "RUNNING"}
                 PROVE  step[s] = "RUNNING"
      OBVIOUS
    <2>1. RowMove
      BY RowMoves
    <2> QED BY <2>1 DEF RowMove, WorkerMoves, AdvanceMoves, ControlMoves, durable
  <1> QED BY <1>1, Invariance, PTL DEF Spec, PauseHolds

-----------------------------------------------------------------------------
(* The step rows implement FencedClaim: a row is taken out of RUNNING only by  *)
(* the write of the claim that holds it, for every graph and every set of      *)
(* workers.                                                                    *)
THEOREM Refinement == Spec => StepsAreFencedClaims
  <1> USE DEF PhaseOf
  <1>1. Init => Ledger!Init
    BY Zenon DEF Init, Ledger!Init
  <1>2. IInv /\ [Next]_vars => [Ledger!Next]_(Ledger!vars)
    <2> SUFFICES ASSUME IInv, [Next]_vars PROVE [Ledger!Next]_(Ledger!vars)
      OBVIOUS
    <2>1. RowMove
      BY RowMoves
    <2>2. CASE UNCHANGED durable
      BY <2>2 DEF durable, Ledger!vars
    <2>3. CASE \E s \in Steps : WorkerMoves(s) /\ \A x \in Steps \ {s} : AdvanceMoves(x)
      <3>1. PICK s \in Steps : WorkerMoves(s) /\ \A x \in Steps \ {s} : AdvanceMoves(x)
        BY <2>3
      <3>2. Ledger!Claimed(s) \/ Ledger!Released(s) \/ Ledger!Settled(s)
        BY <3>1 DEF WorkerMoves, Ledger!Claimed, Ledger!Released, Ledger!Settled
      <3>3. ASSUME NEW x \in Steps \ {s} PROVE Ledger!Aside(x)
        BY Zenon, <3>1
        DEF AdvanceMoves, Ledger!Aside, Ledger!Same, Ledger!Opened, Ledger!Withdrawn
      <3> QED BY <3>2, <3>3 DEF Ledger!Next, Ledger!HolderMoves
    <2>4. CASE \A x \in Steps : ControlMoves(x)
      <3>1. ASSUME NEW x \in Steps PROVE Ledger!Aside(x)
        BY Zenon, <2>4
        DEF ControlMoves, Ledger!Aside, Ledger!Same, Ledger!Opened, Ledger!Withdrawn
      <3> QED BY <3>1 DEF Ledger!Next
    <2> QED BY <2>1, <2>2, <2>3, <2>4 DEF RowMove
  <1> QED BY <1>1, <1>2, Invariance, PTL DEF Spec, StepsAreFencedClaims, Ledger!Spec

(* All of it together: the run follows its definition (claim, finish, retry,   *)
(* advance and the controls of workflows/service.py), whatever the graph, the  *)
(* retry policy and the number of workers.                                     *)
THEOREM FollowsDefinition == Spec => RunFollowsDefinition
  BY TypeCorrect, DependenciesAlwaysRespected, SkipsAreRight, VerdictIsRight, MutualExclusion,
     RetriesBounded, TerminalIsFinal, PauseIsHeld, PTL DEF RunFollowsDefinition
=============================================================================
