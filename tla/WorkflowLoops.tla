---------------------------- MODULE WorkflowLoops ----------------------------
(* The two loops of the workflow engine, iteration by iteration, on every      *)
(* graph over a set of steps: the topological sort that accepts a graph        *)
(* (validate_workflow_graph) and the fixed point that releases and skips steps *)
(* (_advance).  WorkflowGraph says what they compute, and WorkflowRun and its  *)
(* proofs use those definitions.                                               *)
EXTENDS WorkflowGraph, Sequences, FiniteSetsExt

CONSTANT Keys   \* the step keys, in the order the code sorts them in

ASSUME KeysAssumption == Keys \subseteq Nat /\ IsFiniteSet(Keys) /\ Keys # {}

VARIABLES
    deps, mode,     \* the graph
    phase,          \* "sort", then "cycle" or "sorted", "advance", "done"
    indegree, ready, ordered,   \* of validate_workflow_graph
    before,         \* the step states _advance starts from
    states,         \* and has made of them
    todo,           \* rows the for loop has not come to
    changed         \* the flag of the while loop

graph == <<deps, mode>>
sorting == <<indegree, ready, ordered>>
advancing == <<before, states, todo, changed>>
loopVars == <<graph, phase, sorting, advancing>>

Unstarted == [k \in Keys |-> "PENDING"]

\* depends_on holds no key twice.
InDegree(d) == [k \in Keys |-> Cardinality(d[k])]

LoopInit ==
    /\ deps \in [Keys -> SUBSET Keys] /\ \A k \in Keys : k \notin deps[k]
    /\ mode = [k \in Keys |-> "ALL"]
    /\ phase = "sort"
    /\ indegree = InDegree(deps) /\ ready = {k \in Keys : deps[k] = {}} /\ ordered = <<>>
    /\ before = Unstarted /\ states = Unstarted /\ todo = Keys /\ changed = FALSE

Children(key) == {c \in Keys : key \in deps[c]}

\* One iteration of the sort; ready is kept sorted, so pop(0) takes the least key.
PopReady ==
    LET key == Min(ready)
        left == [c \in Keys |-> IF c \in Children(key) THEN indegree[c] - 1 ELSE indegree[c]] IN
    /\ phase = "sort" /\ ready # {}
    /\ ordered' = Append(ordered, key)
    /\ indegree' = left
    /\ ready' = (ready \ {key}) \cup {c \in Children(key) : left[c] = 0}
    /\ UNCHANGED <<graph, phase, advancing>>

SortEnds ==
    /\ phase = "sort" /\ ready = {}
    /\ phase' = IF Len(ordered) = Cardinality(Keys) THEN "sorted" ELSE "cycle"
    /\ UNCHANGED <<graph, sorting, advancing>>

\* The step states a run can be in: who has begun had its dependencies.
Reachable(st) ==
    \A k \in Keys : st[k] \in {"READY", "RUNNING", "COMPLETED"} =>
        ResolvePendingStep(deps[k], mode'[k], st) = "READY"

\* _advance is called for a run of the accepted graph in any of its states.
AdvanceBegins ==
    /\ phase = "sorted"
    /\ mode' \in [Keys -> {"ALL", "ANY"}]
    /\ \A k \in Keys : mode'[k] = "ANY" => Cardinality(deps[k]) >= 2
    /\ before' \in [Keys -> {"PENDING", "RUNNING", "COMPLETED", "SKIPPED"}] /\ Reachable(before')
    /\ states' = before' /\ todo' = Keys /\ changed' = FALSE
    /\ phase' = "advance"
    /\ UNCHANGED <<deps, sorting>>

Bug_VisitRow ==
    LET key == Min(todo)
        target == ResolvePendingStep(deps[key], mode[key], states) IN
    /\ phase = "advance" /\ todo # {}
    /\ todo' = todo \ {key}
    /\ states' = [states EXCEPT ![key] = IF @ = "PENDING" THEN target ELSE @]
    /\ changed' = (changed \/ states[key] = "PENDING")
    /\ UNCHANGED <<graph, phase, sorting, before>>

\* The for loop comes to its next row, in the order of the keys.
VisitRow ==
    LET key == Min(todo)
        target == ResolvePendingStep(deps[key], mode[key], states) IN
    /\ phase = "advance" /\ todo # {}
    /\ todo' = todo \ {key}
    /\ states' = [states EXCEPT ![key] = IF @ = "PENDING" THEN target ELSE @]
    /\ changed' = (changed \/ states' # states)
    /\ UNCHANGED <<graph, phase, sorting, before>>

Bug_PassEnds ==
    /\ phase = "advance" /\ todo = {}
    /\ phase' = "done"
    /\ UNCHANGED <<graph, sorting, before, states, todo, changed>>

\* The while loop goes round again, or ends.
PassEnds ==
    /\ phase = "advance" /\ todo = {}
    /\ IF changed THEN todo' = Keys /\ changed' = FALSE /\ UNCHANGED phase
                  ELSE phase' = "done" /\ UNCHANGED <<todo, changed>>
    /\ UNCHANGED <<graph, sorting, before, states>>

LoopNext == PopReady \/ SortEnds \/ AdvanceBegins \/ VisitRow \/ PassEnds

\* A loop that has another iteration to do goes on: nothing interrupts it.
LoopSpec == LoopInit /\ [][LoopNext]_loopVars /\ WF_loopVars(LoopNext)

-----------------------------------------------------------------------------

(* The sort rejects exactly the graphs with a cycle, and the order it returns  *)
(* for the others has every step once, behind all of its dependencies.         *)
SortIsRight ==
    /\ phase = "cycle" => ~Acyclic(Keys, deps)
    /\ phase \notin {"sort", "cycle"} =>
        /\ Acyclic(Keys, deps)
        /\ \A k \in Keys : \E i \in DOMAIN ordered :
            ordered[i] = k /\ \A d \in deps[k] : \E j \in 1..(i - 1) : ordered[j] = d

(* When _advance is done its result is the one function that Advanced          *)
(* describes: several passes in key order settle every step, whichever way the *)
(* keys run against the dependencies.                                          *)
AdvanceIsRight ==
    phase = "done" =>
        {st \in AdvanceCandidates(Keys, before) : Advanced(Keys, deps, mode, before, st)} = {states}

\* Both loops end.
LoopsEnd == <>(phase \in {"cycle", "done"})

(* Both loops compute what they are for: the sort an order, _advance the one   *)
(* settled state.                                                              *)
LoopsAreRight == SortIsRight /\ AdvanceIsRight
=============================================================================
