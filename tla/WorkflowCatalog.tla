---------------------------- MODULE WorkflowCatalog ----------------------------
(***************************************************************************)
(* Workflow definitions, published versions and the start of runs          *)
(* (workflows/service.py over domain/workflows/repository.py).             *)
(*                                                                         *)
(* A definition holds an editable draft; publish validates the draft in    *)
(* one transaction, looks up the tools and agents it names, and freezes it *)
(* in a second one; start_run reads a version, then looks for its key and  *)
(* inserts the run with its steps.  Anything may happen in between.  A     *)
(* draft is a graph that validate_workflow_graph accepts (WorkflowLoops    *)
(* checks that loop); names, step configurations and events are left out.  *)
(***************************************************************************)
EXTENDS Naturals, Sequences, FiniteSets, SequencesExt, Common

CONSTANTS Definitions,    \* definition ids, each with its own workflow_key
          Drafts,         \* step graphs
          DraftDeps,      \* draft -> step key -> depends_on
          Editors,        \* clients that read a definition and edit it
          Publishers,     \* concurrent calls of publish
          Starters,       \* concurrent calls of start_run
          RunKeys,        \* idempotency keys
          Inputs,
          MaxRevision, MaxVersions, MaxRuns   \* bounds

VARIABLES definitions,  \* definition -> its row
          versions,     \* published versions, in order of publication
          wfRuns,       \* runs, in order of creation
          editor,       \* client -> the definition as it was read
          publisher,    \* call -> the draft it has validated
          starter       \* call -> its request, and the run it was answered with

catalogVars == <<definitions, versions, wfRuns, editor, publisher, starter>>

StepKeys(d) == DOMAIN DraftDeps[d]
DefinitionRow == [status: {"DRAFT", "ACTIVE", "ARCHIVED"}, revision: 1..MaxRevision, draft: Drafts]
NoDefinition == [status |-> None, revision |-> 0, draft |-> None]
NewDefinition(draft) == [status |-> "DRAFT", revision |-> 1, draft |-> draft]

\* The steps of a version, in the topological order of the validated draft.
StepRow == [key: UNION {StepKeys(d) : d \in Drafts}, depends: SUBSET UNION {StepKeys(d) : d \in Drafts}]
Ordered(d, order) ==
  /\ ToSet(order) = StepKeys(d) /\ IsInjective(order)
  /\ \A i \in DOMAIN order : DraftDeps[d][order[i]] \subseteq {order[j] : j \in 1..(i - 1)}
TopologicalOrder(d) ==
  CHOOSE order \in [1..Cardinality(StepKeys(d)) -> StepKeys(d)] : Ordered(d, order)
VersionSteps(d, order) == [i \in DOMAIN order |-> [key |-> order[i], depends |-> DraftDeps[d][order[i]]]]
VersionRow == [definition: Definitions, number: 1..MaxVersions, steps: Seq(StepRow)]

RunRow == [definition: Definitions, version: 1..MaxVersions, key: RunKeys \cup {None}, input: Inputs,
           state: {"PENDING", "RUNNING", "PAUSED", "COMPLETED", "FAILED", "CANCELLED"}]
StepRunRow == [key: UNION {StepKeys(d) : d \in Drafts}, state: {"PENDING", "READY"}]

IdleEditor == [definition |-> None, revision |-> 0, draft |-> None]
IdlePublisher == [definition |-> None, draft |-> None]
IdleStarter == [pc |-> "idle", version |-> 0, key |-> None, input |-> None, steps |-> <<>>, run |-> 0]

CatalogInit ==
  /\ definitions = [d \in Definitions |-> NoDefinition]
  /\ versions = <<>> /\ wfRuns = <<>>
  /\ editor = [e \in Editors |-> IdleEditor]
  /\ publisher = [p \in Publishers |-> IdlePublisher]
  /\ starter = [s \in Starters |-> IdleStarter]

-----------------------------------------------------------------------------
(* Definitions *)

CreateDefinition(d, draft) ==
  /\ definitions[d] = NoDefinition
  /\ definitions' = [definitions EXCEPT ![d] = NewDefinition(draft)]
  /\ UNCHANGED <<versions, wfRuns, editor, publisher, starter>>

ReadDefinition(e, d) ==
  /\ definitions[d] # NoDefinition
  /\ editor' = [editor EXCEPT ![e] = [definition |-> d, revision |-> definitions[d].revision,
                                      draft |-> definitions[d].draft]]
  /\ UNCHANGED <<definitions, versions, wfRuns, publisher, starter>>

\* The repository's update: the given columns, and always the next revision.
Edited(d, draft) ==
  [definitions EXCEPT ![d].draft = draft, ![d].revision = @ + 1]

\* update_definition, under the row lock: refused unless the caller has seen the
\* current revision.  Only the name changes when draft is the present one.
UpdateDefinition(e, draft) ==
  LET d == editor[e].definition IN
  /\ editor[e] # IdleEditor
  /\ definitions[d].status # "ARCHIVED"
  /\ editor[e].revision = definitions[d].revision
  /\ definitions[d].revision < MaxRevision
  /\ definitions' = Edited(d, draft)
  /\ editor' = [editor EXCEPT ![e] = IdleEditor]
  /\ UNCHANGED <<versions, wfRuns, publisher, starter>>

-----------------------------------------------------------------------------
(* Publication *)

PublishValidate(p, d) ==
  /\ publisher[p] = IdlePublisher /\ definitions[d] # NoDefinition
  /\ publisher' = [publisher EXCEPT ![p] = [definition |-> d, draft |-> definitions[d].draft]]
  /\ UNCHANGED <<definitions, versions, wfRuns, editor, starter>>

\* A tool or an agent the draft names does not exist.
PublishRefused(p) ==
  /\ publisher[p] # IdlePublisher
  /\ publisher' = [publisher EXCEPT ![p] = IdlePublisher]
  /\ UNCHANGED <<definitions, versions, wfRuns, editor, starter>>

VersionsOf(d) == {v \in DOMAIN versions : versions[v].definition = d}

\* The next number, the steps in the order validated, and the definition ACTIVE.
PublishWrites(d, order) ==
  /\ versions' = Append(versions, [definition |-> d, number |-> Cardinality(VersionsOf(d)) + 1,
                                   steps |-> VersionSteps(definitions[d].draft, order)])
  /\ definitions' = [definitions EXCEPT ![d].status = "ACTIVE"]

Bug_Publish(p) ==
  LET d == publisher[p].definition IN
  /\ publisher[p] # IdlePublisher
  /\ Len(versions) < MaxVersions
  /\ PublishWrites(d, TopologicalOrder(publisher[p].draft))
  /\ publisher' = [publisher EXCEPT ![p] = IdlePublisher]
  /\ UNCHANGED <<wfRuns, editor, starter>>
\* The second transaction of publish: the draft must be the one validated.
Publish(p) ==
  LET d == publisher[p].definition IN
  /\ publisher[p] # IdlePublisher
  /\ \/ /\ definitions[d].draft = publisher[p].draft
        /\ Len(versions) < MaxVersions
        /\ PublishWrites(d, TopologicalOrder(publisher[p].draft))
     \/ /\ definitions[d].draft # publisher[p].draft
        /\ UNCHANGED <<definitions, versions>>
  /\ publisher' = [publisher EXCEPT ![p] = IdlePublisher]
  /\ UNCHANGED <<wfRuns, editor, starter>>

-----------------------------------------------------------------------------
(* The start of a run *)

\* get_version, in a transaction of its own.
BeginStart(s, v, key, input) ==
  /\ starter[s].pc \in {"idle", "done"}
  /\ v \in DOMAIN versions
  /\ starter' = [starter EXCEPT ![s] =
       [pc |-> "looking", version |-> v, key |-> key, input |-> input,
        steps |-> versions[v].steps, run |-> 0]]
  /\ UNCHANGED <<definitions, versions, wfRuns, editor, publisher>>

RunsWithKey(v, key) == {r \in DOMAIN wfRuns : key # None /\ wfRuns[r].version = v /\ wfRuns[r].key = key}

\* The run found is the answer to the same request, and a conflict to another.
AnswerWith(s, r) ==
  starter' = [starter EXCEPT ![s] =
    IF wfRuns[r].input = @.input THEN [@ EXCEPT !.pc = "done", !.run = r] ELSE IdleStarter]

LookForRun(s) ==
  LET found == RunsWithKey(starter[s].version, starter[s].key) IN
  /\ starter[s].pc = "looking"
  /\ \/ /\ found = {}
        /\ starter' = [starter EXCEPT ![s].pc = "inserting"]
     \/ \E r \in found : AnswerWith(s, r)
  /\ UNCHANGED <<definitions, versions, wfRuns, editor, publisher>>

FirstState(row) == [key |-> row.key, state |-> IF row.depends = {} THEN "READY" ELSE "PENDING"]
InitialSteps(steps) == {FirstState(steps[i]) : i \in DOMAIN steps}

\* The insert; when another call has inserted the key first, the unique
\* constraint fails it and the row of the winner is read.
InsertRun(s) ==
  LET won == RunsWithKey(starter[s].version, starter[s].key)
      v == starter[s].version IN
  /\ starter[s].pc = "inserting"
  /\ \/ /\ won = {} /\ Len(wfRuns) < MaxRuns
        /\ wfRuns' = Append(wfRuns,
             [definition |-> versions[v].definition, version |-> v, key |-> starter[s].key,
              input |-> starter[s].input, state |-> "RUNNING", steps |-> InitialSteps(starter[s].steps)])
        /\ starter' = [starter EXCEPT ![s] = [@ EXCEPT !.pc = "done", !.run = Len(wfRuns) + 1]]
     \/ /\ UNCHANGED wfRuns
        /\ \E r \in won : AnswerWith(s, r)
  /\ UNCHANGED <<definitions, versions, editor, publisher>>

CatalogNext ==
  \/ \E d \in Definitions, draft \in Drafts : CreateDefinition(d, draft)
  \/ \E e \in Editors :
       \/ \E d \in Definitions : ReadDefinition(e, d)
       \/ \E draft \in Drafts : UpdateDefinition(e, draft)
  \/ \E p \in Publishers :
       \/ \E d \in Definitions : PublishValidate(p, d)
       \/ PublishRefused(p) \/ Publish(p)
  \/ \E s \in Starters :
       \/ \E v \in 1..MaxVersions, key \in RunKeys \cup {None}, input \in Inputs :
            BeginStart(s, v, key, input)
       \/ LookForRun(s) \/ InsertRun(s)

CatalogSpec == CatalogInit /\ [][CatalogNext]_catalogVars

-----------------------------------------------------------------------------

CatalogTypeOK ==
  /\ definitions \in [Definitions -> DefinitionRow \cup {NoDefinition}]
  /\ \A v \in DOMAIN versions :
       /\ [definition |-> versions[v].definition, number |-> versions[v].number, steps |-> <<>>] \in VersionRow
       /\ ToSet(versions[v].steps) \subseteq StepRow
  /\ \A r \in DOMAIN wfRuns :
       /\ [f \in {"definition", "version", "key", "input", "state"} |-> wfRuns[r][f]] \in RunRow
       /\ wfRuns[r].steps \subseteq StepRunRow

\* A definition is ACTIVE once it has a version, and only then.
ActiveIsPublished ==
  \A d \in Definitions : definitions[d].status = "ACTIVE" <=> VersionsOf(d) # {}

\* The versions of a definition are numbered from one without a gap.
VersionsAreNumbered ==
  \A v \in DOMAIN versions :
    versions[v].number = Cardinality({w \in VersionsOf(versions[v].definition) : w <= v})

\* A step of a version comes after the steps it depends on, and no key twice.
StepsAreOrdered ==
  \A v \in DOMAIN versions : \A i, j \in DOMAIN versions[v].steps :
    /\ versions[v].steps[i].key = versions[v].steps[j].key => i = j
    /\ versions[v].steps[i].key \in versions[v].steps[j].depends => i < j

\* One run for a version and a key, of the definition the version belongs to.
RunIsUnique ==
  \A r \in DOMAIN wfRuns :
    /\ wfRuns[r].version \in DOMAIN versions
    /\ wfRuns[r].definition = versions[wfRuns[r].version].definition
    /\ RunsWithKey(wfRuns[r].version, wfRuns[r].key) \subseteq {r}

\* A run has one row for every step of its version and no other.
StepRunsRefer ==
  \A r \in DOMAIN wfRuns : wfRuns[r].steps = InitialSteps(versions[wfRuns[r].version].steps)

\* start_run answers every call with the one run of its key, begun for the same
\* version and input.
AnswersMatch ==
  \A s \in Starters : starter[s].pc = "done" =>
    LET r == wfRuns[starter[s].run] IN
    r.version = starter[s].version /\ r.key = starter[s].key /\ r.input = starter[s].input

\* Versions and runs are never changed or taken back.
VersionsImmutable == IsPrefix(versions, versions') /\ IsPrefix(wfRuns, wfRuns')

\* What is published is the draft as it stands, and a draft someone validated.
PublishedAsValidated ==
  Len(versions') > Len(versions) =>
    \E p \in Publishers :
      LET d == publisher[p].definition IN
      /\ publisher[p] # IdlePublisher
      /\ versions'[Len(versions')].definition = d
      /\ \E draft \in {definitions[d].draft} \cap {publisher[p].draft} :
           versions'[Len(versions')].steps = VersionSteps(draft, TopologicalOrder(draft))

\* An edit replaces the draft its author has seen, never someone else's.
NoLostEdit ==
  \A d \in Definitions :
    definitions[d] # NoDefinition /\ definitions'[d].draft # definitions[d].draft =>
      \E e \in Editors : editor[e].definition = d /\ editor[e].draft = definitions[d].draft

\* Runs are pinned to what was validated: publication, editing and starting
\* interleave freely, and still a version is the draft that was validated, edits
\* are not lost, and one key starts one run with exactly the version's steps.
CatalogHolds ==
  /\ [](/\ CatalogTypeOK /\ ActiveIsPublished /\ VersionsAreNumbered /\ StepsAreOrdered
        /\ RunIsUnique /\ StepRunsRefer /\ AnswersMatch)
  /\ [][VersionsImmutable /\ PublishedAsValidated /\ NoLostEdit]_catalogVars
================================================================================
