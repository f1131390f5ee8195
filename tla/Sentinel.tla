------------------------------ MODULE Sentinel ------------------------------
(***************************************************************************)
(* The platform's Sentinel: signals become incidents, incidents get        *)
(* findings and action proposals, proposals are approved by operators and  *)
(* executed at most once (sentinel/{service,execution,control,signals,     *)
(* runbooks,policy}.py and the triggers of the two sentinel migrations).   *)
(*                                                                         *)
(* One correlation key: every observation is of the same subject.  Every   *)
(* transaction that takes the incident or the control row FOR UPDATE is    *)
(* one action; ingest is two, because its first statements hold no lock on *)
(* the incident they will join.  received_at is the start of the           *)
(* transaction, so receipts may be applied out of that order.              *)
(* Leases and expiry times pass in actions of their own.  An operator's    *)
(* platform grant is an answer that may be no at any request; a request    *)
(* that is refused changes nothing and is left out.                        *)
(***************************************************************************)
EXTENDS Naturals, Sequences, FiniteSets, Common

CONSTANTS Observations,      \* the observation identities, each ingested once
          Conditions,        \* the conditions a probe reports
          Books,             \* 1..n, the revisions of one runbook key
          Risk,              \* the risk of each revision
          Approvers,         \* the operators that decide on proposals
          SentinelRunners,   \* processes running execute()
          MaxIncidents,      \* incident rows
          MaxProposals,      \* max_proposals_per_incident, and proposal rows
          MaxActive,         \* max_active_executions
          MaxFindings,       \* max_findings_per_incident
          MaxPolicy,         \* bound on the control revision
          MaxMoves,          \* bound on the operators' transitions
          MaxClaims,         \* bound on the claims of one execution
          MaxRunnerFaults    \* bound on runners that die or lose their grant

VARIABLES incidents,   \* the incident rows
          receipts,    \* the committed signal receipts, in commit order
          ingests,     \* observation -> the open ingest transaction
          started,     \* number of ingest transactions begun: the clock of received_at
          findings,    \* incident -> number of its findings
          books,       \* the registered runbook revisions
          controlState,\* sentinel_control_state
          proposals,   \* the proposal rows
          approvals,   \* proposal -> approver -> decision
          runs,        \* proposal -> its execution row
          runner,      \* the processes
          effects,     \* proposal -> external effects
          moves, runnerFaults

signalVars == <<incidents, receipts, ingests, started, findings>>
ruleVars == <<books, controlState>>
actionVars == <<proposals, approvals, runs, runner, effects, runnerFaults>>
sentinelVars == <<signalVars, ruleVars, actionVars, moves>>

Incidents == 1..MaxIncidents
Proposals == 1..MaxProposals

IncidentOrder == <<"OPEN", "TRIAGED", "MITIGATION_PROPOSED", "MITIGATING",
                   "MONITORING", "RESOLVED", "CLOSED">>
IncidentRow == [state: {IncidentOrder[n] : n \in 1..7}, revision: Nat,
                summary: Conditions, severity: {"INFO", "WARNING"},
                source: {None, "TRUSTED_RECOVERY", "AUTHORIZED_OPERATOR"}]
ReceiptRow == [observation: Observations, condition: Conditions,
               received: Nat, incident: Incidents]
ProposalRow == [incident: Incidents, revision: Nat, book: Books, policy: Nat,
                state: {"PROPOSED", "EXECUTING", "SUCCEEDED", "FAILED", "AMBIGUOUS"},
                expired: BOOLEAN]
ApprovalDecisions == {None, "APPROVED", "LAPSED", "REJECTED"}
RunRow == [state: {None, "CLAIMED", "DISPATCHED", "COMPLETED", "AMBIGUOUS"},
           generation: Nat, lapsed: BOOLEAN]
NoRun == [state |-> None, generation |-> 0, lapsed |-> FALSE]
ControlRow == [revision: Nat, enabled: BOOLEAN]
IdleRunner == [pc |-> "idle", proposal |-> 0, generation |-> 0, outcome |-> None]
NoIngest == [open |-> FALSE, condition |-> None, received |-> 0, seen |-> 0]

SentinelInit ==
  /\ incidents = <<>> /\ receipts = <<>> /\ started = 0
  /\ ingests = [o \in Observations |-> NoIngest]
  /\ findings = [i \in Incidents |-> 0]
  /\ books = {}
  /\ controlState = [revision |-> 1, enabled |-> FALSE]
  /\ proposals = <<>>
  /\ approvals = [p \in Proposals |-> [a \in Approvers |-> None]]
  /\ runs = [p \in Proposals |-> NoRun]
  /\ runner = [x \in SentinelRunners |-> IdleRunner]
  /\ effects = [p \in Proposals |-> 0]
  /\ moves = 0 /\ runnerFaults = 0

-----------------------------------------------------------------------------
(* Signals and incidents *)

\* The probe's answer, or UNKNOWN when it fails; severity follows from it.
SeverityOf(condition) == IF condition = "HEALTHY" THEN "INFO" ELSE "WARNING"
Worse(a, b) == IF "WARNING" \in {a, b} THEN "WARNING" ELSE "INFO"

Closed == {"RESOLVED", "CLOSED"}
\* The partial unique index allows one incident that is not resolved.
ActiveIncidents == {i \in DOMAIN incidents : incidents[i].state \notin Closed}

RecordReceipt(o, condition, received, i) ==
  receipts' = Append(receipts, [observation |-> o, condition |-> condition,
                                received |-> received, incident |-> i])

\* Inserts the receipt; with no active incident the insert of a new one
\* succeeds and the transaction commits.
Ingest(o, condition) ==
  /\ ~ingests[o].open
  /\ \A n \in DOMAIN receipts : receipts[n].observation # o
  /\ started < Cardinality(Observations)
  /\ started' = started + 1
  /\ \/ /\ ActiveIncidents = {}
        /\ Len(incidents) < MaxIncidents
        /\ incidents' = Append(incidents, [state |-> "OPEN", revision |-> 1,
                                           summary |-> condition,
                                           severity |-> SeverityOf(condition),
                                           source |-> None])
        /\ RecordReceipt(o, condition, started, Len(incidents) + 1)
        /\ UNCHANGED ingests
     \/ \E i \in ActiveIncidents :
          /\ ingests' = [ingests EXCEPT ![o] = [open |-> TRUE, condition |-> condition,
                                                received |-> started, seen |-> i]]
          /\ UNCHANGED <<incidents, receipts>>
  /\ UNCHANGED <<findings, ruleVars, actionVars, moves>>

Observed(i, condition) ==
  [incidents EXCEPT ![i] = [@ EXCEPT !.revision = @ + 1, !.summary = condition,
                                     !.severity = Worse(@, SeverityOf(condition))]]

\* Joins the active incident under its row lock.  When the incident it ran into
\* was resolved meanwhile the whole transaction, receipt included, is rolled back.
Correlate(o) ==
  LET t == ingests[o] IN
  /\ t.open
  /\ ingests' = [ingests EXCEPT ![o] = NoIngest]
  /\ \/ \E i \in ActiveIncidents :
          /\ incidents' = Observed(i, t.condition)
          /\ RecordReceipt(o, t.condition, t.received, i)
     \/ /\ t.seen \notin ActiveIncidents
        /\ UNCHANGED <<incidents, receipts>>
  /\ UNCHANGED <<started, findings, ruleVars, actionVars, moves>>

ReceiptsOf(i) == {n \in DOMAIN receipts : receipts[n].incident = i}
\* The order of received_at, the start of the receiving transaction.
LatestReceived(i) ==
  CHOOSE n \in ReceiptsOf(i) : \A k \in ReceiptsOf(i) : receipts[k].received <= receipts[n].received

MoveIncident(i, state, source) ==
  incidents' = [incidents EXCEPT ![i].state = state, ![i].revision = @ + 1,
                                 ![i].source = IF source = None THEN @ ELSE source]

Bug_ResolveFromReceipt(i) ==
  /\ incidents[i].state = "MONITORING"
  /\ receipts[LatestReceived(i)].condition = "HEALTHY"
  /\ MoveIncident(i, "RESOLVED", "TRUSTED_RECOVERY")
  /\ UNCHANGED <<receipts, ingests, started, findings, ruleVars, actionVars, moves>>
\* resolve_from_receipt: the receipt named is healthy and the latest received,
\* and the signal applied last was healthy too.
ResolveFromReceipt(i) ==
  /\ incidents[i].state = "MONITORING"
  /\ incidents[i].summary = "HEALTHY"
  /\ receipts[LatestReceived(i)].condition = "HEALTHY"
  /\ MoveIncident(i, "RESOLVED", "TRUSTED_RECOVERY")
  /\ UNCHANGED <<receipts, ingests, started, findings, ruleVars, actionVars, moves>>

\* An operator moves an incident one state on, at the revision they have read.
TransitionIncident(i) ==
  /\ moves < MaxMoves /\ moves' = moves + 1
  /\ \E n \in 1..6 :
       /\ incidents[i].state = IncidentOrder[n]
       /\ MoveIncident(i, IncidentOrder[n + 1],
                       IF IncidentOrder[n + 1] = "RESOLVED" THEN "AUTHORIZED_OPERATOR" ELSE None)
  /\ UNCHANGED <<receipts, ingests, started, findings, ruleVars, actionVars>>

\* The evidence a finding cites is the incident's own; the revision is the count.
AddFinding(i) ==
  /\ ReceiptsOf(i) # {}
  /\ findings[i] < MaxFindings
  /\ findings' = [findings EXCEPT ![i] = @ + 1]
  /\ UNCHANGED <<incidents, receipts, ingests, started, ruleVars, actionVars, moves>>

-----------------------------------------------------------------------------
(* Runbooks, policy, proposals and approvals *)

RegisterRunbook(b) ==
  /\ b \notin books
  /\ books' = books \union {b}
  /\ UNCHANGED <<signalVars, controlState, actionVars, moves>>

\* Compare-and-set on the control revision.
SetMutableActions(enabled) ==
  /\ controlState.revision < MaxPolicy
  /\ controlState' = [revision |-> controlState.revision + 1, enabled |-> enabled]
  /\ UNCHANGED <<signalVars, books, actionVars, moves>>

\* _validate_proposal: the incident and the policy are at the revisions the
\* proposal names, the runbook is registered and not superseded.
Current(q) ==
  /\ q.book \in books
  /\ \A b \in books : b <= q.book
  /\ incidents[q.incident].revision = q.revision
  /\ incidents[q.incident].state \notin Closed
  /\ controlState.revision = q.policy
  /\ ~q.expired

Propose(i, b) ==
  LET q == [incident |-> i, revision |-> incidents[i].revision, book |-> b,
            policy |-> controlState.revision, state |-> "PROPOSED", expired |-> FALSE]
  IN /\ Current(q)
     /\ Len(proposals) < MaxProposals
     /\ proposals' = Append(proposals, q)
     /\ UNCHANGED <<signalVars, ruleVars, approvals, runs, runner, effects,
                    runnerFaults, moves>>

\* record_approval does not look at the state of the proposal, and one approver
\* decides once.
RecordApproval(p, a, decision) ==
  /\ Current(proposals[p])
  /\ approvals[p][a] = None
  /\ approvals' = [approvals EXCEPT ![p][a] = decision]
  /\ UNCHANGED <<signalVars, ruleVars, proposals, runs, runner, effects, runnerFaults, moves>>

ApprovalLapses(p, a) ==
  /\ approvals[p][a] = "APPROVED"
  /\ approvals' = [approvals EXCEPT ![p][a] = "LAPSED"]
  /\ UNCHANGED <<signalVars, ruleVars, proposals, runs, runner, effects, runnerFaults, moves>>

\* An approval never outlives its proposal.
ProposalExpires(p) ==
  /\ ~proposals[p].expired
  /\ proposals' = [proposals EXCEPT ![p].expired = TRUE]
  /\ approvals' = [approvals EXCEPT ![p] =
                     [a \in Approvers |-> IF @[a] = "APPROVED" THEN "LAPSED" ELSE @[a]]]
  /\ UNCHANGED <<signalVars, ruleVars, runs, runner, effects, runnerFaults, moves>>

Approved(p) == \E a \in Approvers : approvals[p][a] = "APPROVED"
Rejected(p) == \E a \in Approvers : approvals[p][a] = "REJECTED"

\* A diagnosis needs no approval; a reversible action needs one and the switch;
\* anything riskier is never run.
RiskAllowed(b, approved) ==
  \/ Risk[b] \in {"OBSERVE", "DIAGNOSTIC"}
  \/ Risk[b] = "REVERSIBLE" /\ approved /\ controlState.enabled

Authorized(p) ==
  Current(proposals[p]) /\ ~Rejected(p) /\ RiskAllowed(proposals[p].book, Approved(p))

-----------------------------------------------------------------------------
(* Execution *)

RunnerGoto(x, pc) == runner' = [runner EXCEPT ![x].pc = pc]
RunnerEnds(x) == runner' = [runner EXCEPT ![x] = IdleRunner]

ActiveRuns == {p \in Proposals : runs[p].state \in {"CLAIMED", "DISPATCHED"}}

\* A new execution within the budget, or the takeover of a claim whose lease
\* has passed; what was dispatched is never claimed again.
Claimable(p) ==
  \/ runs[p].state = None /\ Cardinality(ActiveRuns) < MaxActive
  \/ runs[p].state = "CLAIMED" /\ runs[p].lapsed

ClaimRun(x, p) ==
  /\ runner[x].pc = "idle"
  /\ proposals[p].state \in {"PROPOSED", "EXECUTING"}
  /\ Authorized(p)
  /\ Claimable(p)
  /\ runs[p].generation < MaxClaims
  /\ runs' = [runs EXCEPT ![p] = [state |-> "CLAIMED", generation |-> @.generation + 1,
                                  lapsed |-> FALSE]]
  /\ proposals' = [proposals EXCEPT ![p].state = "EXECUTING"]
  /\ runner' = [runner EXCEPT ![x] = [pc |-> "claimed", proposal |-> p,
                                      generation |-> runs[p].generation + 1, outcome |-> None]]
  /\ UNCHANGED <<signalVars, ruleVars, approvals, effects, runnerFaults, moves>>

Owned(x) == runs[runner[x].proposal].generation = runner[x].generation

Dispatchable(x) ==
  LET p == runner[x].proposal IN
  /\ proposals[p].state = "EXECUTING"
  /\ Owned(x)
  /\ runs[p].state = "CLAIMED" /\ ~runs[p].lapsed

Bug_PrepareDispatch(x) ==
  LET p == runner[x].proposal IN
  /\ runner[x].pc = "claimed"
  /\ \/ /\ Dispatchable(x)
        /\ runs' = [runs EXCEPT ![p].state = "DISPATCHED"]
        /\ RunnerGoto(x, "dispatching")
     \/ /\ ~Dispatchable(x)
        /\ RunnerGoto(x, "rejecting")
        /\ UNCHANGED runs
  /\ UNCHANGED <<signalVars, ruleVars, proposals, approvals, effects, runnerFaults, moves>>
\* Everything the claim was granted on is checked again under the locks.
PrepareDispatch(x) ==
  LET p == runner[x].proposal IN
  /\ runner[x].pc = "claimed"
  /\ \/ /\ Dispatchable(x) /\ Authorized(p)
        /\ runs' = [runs EXCEPT ![p].state = "DISPATCHED"]
        /\ RunnerGoto(x, "dispatching")
     \/ /\ ~(Dispatchable(x) /\ Authorized(p))
        /\ RunnerGoto(x, "rejecting")
        /\ UNCHANGED runs
  /\ UNCHANGED <<signalVars, ruleVars, proposals, approvals, effects, runnerFaults, moves>>

SettleRun(p, state, verdict) ==
  /\ runs' = [runs EXCEPT ![p].state = state]
  /\ proposals' = [proposals EXCEPT ![p].state = verdict]

\* reject_claim closes the claim it still owns, and is itself refused otherwise.
RejectClaim(x) ==
  LET p == runner[x].proposal IN
  /\ runner[x].pc = "rejecting"
  /\ \/ /\ Owned(x) /\ runs[p].state = "CLAIMED" /\ proposals[p].state = "EXECUTING"
        /\ SettleRun(p, "COMPLETED", "FAILED")
     \/ /\ ~(Owned(x) /\ runs[p].state = "CLAIMED" /\ proposals[p].state = "EXECUTING")
        /\ UNCHANGED <<runs, proposals>>
  /\ RunnerEnds(x)
  /\ UNCHANGED <<signalVars, ruleVars, approvals, effects, runnerFaults, moves>>

\* The adapter: applied; refused before any effect; or an error or the timeout,
\* with or without the effect.
ExecuteAdapter(x) ==
  LET p == runner[x].proposal IN
  /\ runner[x].pc = "dispatching"
  /\ \E happened \in BOOLEAN, outcome \in {"SUCCEEDED", "FAILED", "AMBIGUOUS"} :
       /\ outcome = "SUCCEEDED" => happened
       /\ outcome = "FAILED" => ~happened
       /\ effects' = [effects EXCEPT ![p] = IF happened THEN @ + 1 ELSE @]
       /\ runner' = [runner EXCEPT ![x].pc = "finishing", ![x].outcome = outcome]
  /\ UNCHANGED <<signalVars, ruleVars, proposals, approvals, runs, runnerFaults, moves>>

FinishRun(x) ==
  LET p == runner[x].proposal IN
  /\ runner[x].pc = "finishing"
  /\ \/ /\ Owned(x) /\ runs[p].state = "DISPATCHED"
        /\ SettleRun(p, IF runner[x].outcome = "AMBIGUOUS" THEN "AMBIGUOUS" ELSE "COMPLETED",
                     runner[x].outcome)
     \/ /\ ~(Owned(x) /\ runs[p].state = "DISPATCHED")
        /\ UNCHANGED <<runs, proposals>>
  /\ RunnerEnds(x)
  /\ UNCHANGED <<signalVars, ruleVars, approvals, effects, runnerFaults, moves>>

RunLapses(p) ==
  /\ p \in ActiveRuns /\ ~runs[p].lapsed
  /\ runs' = [runs EXCEPT ![p].lapsed = TRUE]
  /\ UNCHANGED <<signalVars, ruleVars, proposals, approvals, runner, effects,
                 runnerFaults, moves>>

\* Runs whose lease has passed: an undispatched one failed, of a dispatched one
\* nobody knows.
Cleanup(p) ==
  /\ p \in ActiveRuns /\ runs[p].lapsed
  /\ IF runs[p].state = "DISPATCHED"
     THEN SettleRun(p, "AMBIGUOUS", "AMBIGUOUS")
     ELSE SettleRun(p, "COMPLETED", "FAILED")
  /\ UNCHANGED <<signalVars, ruleVars, approvals, runner, effects, runnerFaults, moves>>

\* The process dies, the database is away, or the operator's grant is gone at
\* the second check of execute(): the row stays as it is.
LoseRunner(x) ==
  /\ runner[x].pc # "idle"
  /\ runnerFaults < MaxRunnerFaults /\ runnerFaults' = runnerFaults + 1
  /\ RunnerEnds(x)
  /\ UNCHANGED <<signalVars, ruleVars, proposals, approvals, runs, effects, moves>>

-----------------------------------------------------------------------------
SentinelNext ==
  \/ \E o \in Observations, condition \in Conditions : Ingest(o, condition)
  \/ \E o \in Observations : Correlate(o)
  \/ \E i \in DOMAIN incidents :
       ResolveFromReceipt(i) \/ TransitionIncident(i) \/ AddFinding(i)
  \/ \E b \in Books : RegisterRunbook(b)
  \/ \E enabled \in BOOLEAN : SetMutableActions(enabled)
  \/ \E i \in DOMAIN incidents, b \in Books : Propose(i, b)
  \/ \E p \in DOMAIN proposals : ProposalExpires(p) \/ RunLapses(p) \/ Cleanup(p)
  \/ \E p \in DOMAIN proposals, a \in Approvers :
       \/ ApprovalLapses(p, a)
       \/ \E decision \in {"APPROVED", "REJECTED"} : RecordApproval(p, a, decision)
  \/ \E x \in SentinelRunners, p \in DOMAIN proposals : ClaimRun(x, p)
  \/ \E x \in SentinelRunners :
       PrepareDispatch(x) \/ RejectClaim(x) \/ ExecuteAdapter(x) \/ FinishRun(x) \/ LoseRunner(x)

SentinelSpec == SentinelInit /\ [][SentinelNext]_sentinelVars

-----------------------------------------------------------------------------
(* Sentinel acts at most once per proposal, and a proposal that reads FAILED   *)
(* had no effect: lost runners, takeovers and the cleanup of expired leases    *)
(* never run an action again and never call an unknown outcome a failure       *)
(* (execution.py: "ambiguous effects never redispatch").                       *)
ActedOnce ==
  \A p \in DOMAIN proposals :
    /\ effects[p] <= 1
    /\ proposals[p].state = "FAILED" => effects[p] = 0

(* The effect is only ever begun while the proposal stands: its incident       *)
(* unchanged and open, the policy at the revision it was made under, nobody's  *)
(* rejection recorded and, for an action that changes something, an approval   *)
(* in force and the switch on; whatever happened between claim and dispatch.   *)
DispatchStands ==
  [][\A p \in DOMAIN proposals :
       (runs'[p].state = "DISPATCHED" /\ runs[p].state # "DISPATCHED") =>
         /\ ~Rejected(p) /\ ~proposals[p].expired
         /\ incidents[proposals[p].incident].revision = proposals[p].revision
         /\ controlState.revision = proposals[p].policy
         /\ Risk[proposals[p].book] = "REVERSIBLE" => Approved(p) /\ controlState.enabled
    ]_sentinelVars

(* A recovery nobody had to confirm (TRUSTED_RECOVERY) is one that both the    *)
(* signal received last and the signal applied last report, although signals   *)
(* are applied in another order than they are received.                        *)
TrustedRecovery ==
  [][\A i \in DOMAIN incidents :
       (incidents'[i].source = "TRUSTED_RECOVERY" /\ incidents[i].source = None) =>
         \E last \in ReceiptsOf(i) :
           /\ \A n \in ReceiptsOf(i) : n <= last
           /\ receipts[last].condition = "HEALTHY"
           /\ receipts[LatestReceived(i)].condition = "HEALTHY"
    ]_sentinelVars

SentinelTypeOK ==
  /\ incidents \in Seq(IncidentRow) /\ receipts \in Seq(ReceiptRow)
  /\ proposals \in Seq(ProposalRow) /\ controlState \in ControlRow
  /\ approvals \in [Proposals -> [Approvers -> ApprovalDecisions]]
  /\ runs \in [Proposals -> RunRow]

(* What the tables and their triggers demand of signals and incidents: one     *)
(* incident that is not resolved, a resolution with its source, one receipt    *)
(* per observation with the incident it was applied to, findings in bounds; an *)
(* incident moves one state and one revision at a time, and a receipt that is  *)
(* applied stays as it is.                                                     *)
OneActiveIncident == \A i, k \in ActiveIncidents : i = k
IncidentFits ==
  \A i \in DOMAIN incidents :
    incidents[i].revision > 0 /\ (incidents[i].state \in Closed => incidents[i].source # None)
ReceiptRefers ==
  /\ \A n \in DOMAIN receipts : receipts[n].incident \in DOMAIN incidents
  /\ \A n, k \in DOMAIN receipts : receipts[n].observation = receipts[k].observation => n = k
FindingRefers ==
  \A i \in Incidents : findings[i] > 0 => i \in DOMAIN incidents /\ findings[i] <= 100
IncidentTransition ==
  \A i \in DOMAIN incidents : incidents'[i] # incidents[i] =>
    /\ incidents'[i].revision = incidents[i].revision + 1
    /\ IF incidents'[i].state = incidents[i].state
       THEN incidents'[i].source = incidents[i].source
       ELSE \E n \in 1..6 : incidents[i].state = IncidentOrder[n]
                              /\ incidents'[i].state = IncidentOrder[n + 1]
ReceiptTransition == \A n \in DOMAIN receipts : receipts'[n] = receipts[n]

(* A recovery is trusted only when the signals report it, and the history of   *)
(* an incident stays whole.                                                    *)
RecoveryIsReported ==
  /\ TrustedRecovery
  /\ [](OneActiveIncident /\ IncidentFits /\ ReceiptRefers /\ FindingRefers)
  /\ [][IncidentTransition /\ ReceiptTransition]_sentinelVars

(* And of actions: a proposal names an incident, a registered runbook and a    *)
(* policy revision that existed; an approval and a run name a proposal; the    *)
(* policy moves by one revision; a decision once recorded is only ever         *)
(* outlived; a proposal and a run move along their edges.                      *)
ProposalRefers ==
  \A p \in DOMAIN proposals :
    /\ proposals[p].incident \in DOMAIN incidents /\ proposals[p].book \in books
    /\ proposals[p].policy \in 1..controlState.revision
    /\ proposals[p].revision \in 1..incidents[proposals[p].incident].revision
ApprovalRefers ==
  \A p \in Proposals, a \in Approvers : approvals[p][a] # None => p \in DOMAIN proposals
RunRefers ==
  \A p \in Proposals : runs[p] # NoRun =>
    /\ p \in DOMAIN proposals /\ proposals[p].state # "PROPOSED"
    /\ runs[p].generation > 0
ControlRevision ==
  controlState' # controlState => controlState'.revision = controlState.revision + 1
DecisionsKept ==
  /\ books \subseteq books'
  /\ \A p \in Proposals, a \in Approvers :
       approvals'[p][a] # approvals[p][a] =>
         approvals[p][a] = None \/ <<approvals[p][a], approvals'[p][a]>> = <<"APPROVED", "LAPSED">>
ProposalTransition ==
  \A p \in DOMAIN proposals : proposals'[p].state # proposals[p].state =>
    \/ proposals[p].state = "PROPOSED" /\ proposals'[p].state = "EXECUTING"
    \/ /\ proposals[p].state = "EXECUTING"
       /\ proposals'[p].state \in {"SUCCEEDED", "FAILED", "AMBIGUOUS"}
ExecutionFence ==
  \A p \in Proposals : runs[p] # NoRun /\ runs'[p] # runs[p] =>
    /\ runs[p].state \in {"CLAIMED", "DISPATCHED"}
    /\ runs'[p].generation # runs[p].generation =>
         /\ runs'[p].generation = runs[p].generation + 1
         /\ runs[p].state = "CLAIMED" /\ runs'[p].state = "CLAIMED" /\ runs[p].lapsed
    /\ runs'[p].state = "AMBIGUOUS" => runs[p].state = "DISPATCHED"

(* Sentinel acts at most once on a proposal, and only while it stands; and its *)
(* database never has to refuse what it writes.                                *)
ActsOnStandingProposals ==
  /\ [](SentinelTypeOK /\ ActedOnce /\ ProposalRefers /\ ApprovalRefers /\ RunRefers)
  /\ DispatchStands
  /\ [][ControlRevision /\ DecisionsKept /\ ProposalTransition /\ ExecutionFence]_sentinelVars
=============================================================================
