----------------------------- MODULE Compliance -----------------------------
(***************************************************************************)
(* Tenant compliance controls (nexus_ai/compliance/service.py): retention  *)
(* policies, legal holds, subject requests, plans, approvals and fenced    *)
(* executions over a customer profile.  Every operation first locks the    *)
(* Organization's control row, so every transaction is one step; what      *)
(* races is the order of the transactions, the lease and approval clocks,  *)
(* and executors that come back with a fence they held before.  A plan is  *)
(* named by its operation identity: the request it serves, or a retention  *)
(* key.  Requests refused without a write, for want of a capability among  *)
(* others, change nothing and are left out.                                *)
(***************************************************************************)
EXTENDS Integers, FiniteSets, Common

CONSTANTS Subjects,    \* customers
          Policies,    \* 1..n, the policy revisions
          Governing,   \* those with a rule for the customer profile
          Anonymizing, \* those whose rule anonymizes a profile that is due
          Holds,       \* hold ids
          Requests,    \* subject requests
          Retentions,  \* retention idempotency keys
          Executors,   \* owner ids
          MaxTakeovers \* bound on an execution's generation

VARIABLES epochs, policy, hold, request, plan, approval, execution, profile,
          touched

complianceVars ==
  <<epochs, policy, hold, request, plan, approval, execution, profile, touched>>

Operations == Requests \union Retentions

RequestEdges ==
  [RECEIVED |-> {"VERIFIED", "DENIED", "CANCELLED", "EXPIRED"},
   VERIFIED |-> {"PLANNED", "DENIED", "CANCELLED", "EXPIRED"},
   PLANNED |-> {"APPROVED", "DENIED", "CANCELLED", "EXPIRED"},
   APPROVED |-> {"EXECUTING", "DENIED", "CANCELLED", "EXPIRED"},
   EXECUTING |-> {"COMPLETED", "PARTIAL"}]

RequireTransition(current, target) ==
  current \in DOMAIN RequestEdges /\ target \in RequestEdges[current]

RequestAction == [ACCESS |-> "ACCESS", ERASURE |-> "ANONYMIZE", RESTRICTION |-> "RESTRICT"]

Destructive == {"DELETE", "ANONYMIZE", "RESTRICT"}

PolicyStates == {"none", "DRAFT", "ACTIVE", "RETIRED"}

\* covers: the hold names no resource class, or the customer profile.
HoldRow == [state: {"none", "ACTIVE", "RELEASED"}, subject: Subjects \union {None},
            covers: BOOLEAN]

RequestRow == [state: DOMAIN RequestEdges \union UNION {RequestEdges[s] : s \in DOMAIN RequestEdges},
               kind: DOMAIN RequestAction, subject: Subjects, verified: BOOLEAN]

NoRequest == [state |-> "none", kind |-> None, subject |-> None, verified |-> FALSE]

PlanRow == [policy: Policies, policyEpoch: Nat, holdEpoch: Nat, version: Nat,
            action: {"ACCESS", "ANONYMIZE", "RESTRICT"}, subject: Subjects]

NoPlan == [policy |-> 0, policyEpoch |-> 0, holdEpoch |-> 0, version |-> 0,
           action |-> None, subject |-> None]

ApprovalStates == {"none", "valid", "expired"}

ExecutionRow == [state: {"CLAIMED", "COMPLETED"}, owner: Executors,
                 generation: 1..MaxTakeovers, leased: BOOLEAN]

NoExecution == [state |-> "none", owner |-> None, generation |-> 0, leased |-> FALSE]

ProfileRow == [version: Nat, anonymized: BOOLEAN, suspended: BOOLEAN]

ComplianceInit ==
  /\ epochs = [policy |-> 0, hold |-> 0]
  /\ policy = [p \in Policies |-> "none"]
  /\ hold = [h \in Holds |-> [state |-> "none", subject |-> None, covers |-> FALSE]]
  /\ request = [r \in Requests |-> NoRequest]
  /\ plan = [o \in Operations |-> NoPlan]
  /\ approval = [o \in Operations |-> "none"]
  /\ execution = [o \in Operations |-> NoExecution]
  /\ profile = [s \in Subjects |-> [version |-> 1, anonymized |-> FALSE, suspended |-> FALSE]]
  /\ touched = {}

\* touched remembers the plans whose policy, holds or target changed after they
\* were made; no code reads it.
Planned == {o \in Operations : plan[o] # NoPlan}

Touch(plans) == touched' = touched \union plans

-----------------------------------------------------------------------------
(* Policies and holds. *)

Active == {p \in Policies : policy[p] = "ACTIVE"}

CreatePolicy(p) ==
  /\ policy[p] = "none"
  /\ \A q \in Policies : q < p => policy[q] # "none"
  /\ policy' = [policy EXCEPT ![p] = "DRAFT"]
  /\ UNCHANGED <<epochs, hold, request, plan, approval, execution, profile, touched>>

ActivatePolicy(p) ==
  /\ policy[p] = "DRAFT"
  /\ policy' = [q \in Policies |-> IF q = p THEN "ACTIVE"
                                   ELSE IF q \in Active THEN "RETIRED" ELSE policy[q]]
  /\ epochs' = [epochs EXCEPT !.policy = @ + 1]
  /\ Touch(Planned)
  /\ UNCHANGED <<hold, request, plan, approval, execution, profile>>

RetirePolicy(p) ==
  /\ policy[p] = "ACTIVE"
  /\ policy' = [policy EXCEPT ![p] = "RETIRED"]
  /\ epochs' = [epochs EXCEPT !.policy = @ + 1]
  /\ Touch(Planned)
  /\ UNCHANGED <<hold, request, plan, approval, execution, profile>>

CreateHold(h, s, covers) ==
  /\ hold[h].state = "none"
  /\ hold' = [hold EXCEPT ![h] = [state |-> "ACTIVE", subject |-> s, covers |-> covers]]
  /\ epochs' = [epochs EXCEPT !.hold = @ + 1]
  /\ Touch(Planned)
  /\ UNCHANGED <<policy, request, plan, approval, execution, profile>>

ReleaseHold(h) ==
  /\ hold[h].state = "ACTIVE"
  /\ hold' = [hold EXCEPT ![h].state = "RELEASED"]
  /\ epochs' = [epochs EXCEPT !.hold = @ + 1]
  /\ Touch(Planned)
  /\ UNCHANGED <<policy, request, plan, approval, execution, profile>>

HeldSubjects ==
  {hold[h].subject : h \in {g \in Holds : hold[g].state = "ACTIVE" /\ hold[g].covers}}

Bug_NotHeld(s, action) == TRUE

NotHeld(s, action) == action \in Destructive => s \notin HeldSubjects

-----------------------------------------------------------------------------
(* Subject requests and plans. *)

\* A key seen before answers with the stored request and writes nothing.
CreateRequest(r, s, kind) ==
  /\ request[r] = NoRequest
  /\ request' = [request EXCEPT ![r] =
       [state |-> "RECEIVED", kind |-> kind, subject |-> s, verified |-> FALSE]]
  /\ UNCHANGED <<epochs, policy, hold, plan, approval, execution, profile, touched>>

VerifyRequest(r) ==
  /\ RequireTransition(request[r].state, "VERIFIED")
  /\ request' = [request EXCEPT ![r].state = "VERIFIED", ![r].verified = TRUE]
  /\ UNCHANGED <<epochs, policy, hold, plan, approval, execution, profile, touched>>

EndRequest(r, target) ==
  /\ RequireTransition(request[r].state, target)
  /\ request' = [request EXCEPT ![r].state = target]
  /\ UNCHANGED <<epochs, policy, hold, plan, approval, execution, profile, touched>>

\* The operation identity is unique: an operation is planned once.
NewPlan(o, s, action) ==
  /\ plan[o] = NoPlan
  /\ NotHeld(s, action)
  /\ \E p \in Active \intersect Governing :
       plan' = [plan EXCEPT ![o] =
         [policy |-> p, policyEpoch |-> epochs.policy, holdEpoch |-> epochs.hold,
          version |-> profile[s].version, action |-> action, subject |-> s]]

PlanRequest(r) ==
  /\ RequireTransition(request[r].state, "PLANNED")
  /\ NewPlan(r, request[r].subject, RequestAction[request[r].kind])
  /\ request' = [request EXCEPT ![r].state = "PLANNED"]
  /\ UNCHANGED <<epochs, policy, hold, approval, execution, profile, touched>>

\* A profile that is due under a rule that anonymizes; a rule that retains, or a
\* profile not due yet, plans nothing.
EvaluateRetention(k, s) ==
  /\ Active \intersect Anonymizing # {}
  /\ NewPlan(k, s, "ANONYMIZE")
  /\ UNCHANGED <<epochs, policy, hold, request, approval, execution, profile, touched>>

-----------------------------------------------------------------------------
(* Approval and execution. *)

RequestAllows(o) ==
  o \in Requests =>
    request[o].state \in {"PLANNED", "APPROVED", "EXECUTING"} /\ request[o].verified

Revalidate(o) ==
  /\ plan[o] # NoPlan
  /\ plan[o].policy \in Active
  /\ plan[o].policyEpoch = epochs.policy
  /\ plan[o].holdEpoch = epochs.hold
  /\ RequestAllows(o)
  /\ NotHeld(plan[o].subject, plan[o].action)
  /\ plan[o].version = profile[plan[o].subject].version

MoveRequest(o, target) ==
  request' = IF o \in Requests THEN [request EXCEPT ![o].state = target] ELSE request

Approve(o) ==
  /\ Revalidate(o)
  /\ approval[o] = "none"
  /\ o \in Requests => RequireTransition(request[o].state, "APPROVED")
  /\ approval' = [approval EXCEPT ![o] = "valid"]
  /\ MoveRequest(o, "APPROVED")
  /\ UNCHANGED <<epochs, policy, hold, plan, execution, profile, touched>>

ApprovalExpires(o) ==
  /\ approval[o] = "valid"
  /\ approval' = [approval EXCEPT ![o] = "expired"]
  /\ UNCHANGED <<epochs, policy, hold, request, plan, execution, profile, touched>>

Claim(o, e) ==
  /\ execution[o].state = "none"
  /\ Revalidate(o)
  /\ approval[o] = "valid"
  /\ o \in Requests => RequireTransition(request[o].state, "EXECUTING")
  /\ execution' = [execution EXCEPT ![o] =
       [state |-> "CLAIMED", owner |-> e, generation |-> 1, leased |-> TRUE]]
  /\ MoveRequest(o, "EXECUTING")
  /\ UNCHANGED <<epochs, policy, hold, plan, approval, profile, touched>>

\* The trigger compliance_execution_fence asks for the same of an update.
TakeoverFence(row, e) == row.state = "CLAIMED" /\ ~row.leased /\ row.owner # e

TakeOver(o, e) ==
  /\ TakeoverFence(execution[o], e)
  /\ execution[o].generation < MaxTakeovers
  /\ Revalidate(o)
  /\ approval[o] = "valid"
  /\ execution' = [execution EXCEPT ![o] =
       [state |-> "CLAIMED", owner |-> e, generation |-> @.generation + 1, leased |-> TRUE]]
  /\ UNCHANGED <<epochs, policy, hold, request, plan, approval, profile, touched>>

LeaseLapses(o) ==
  /\ execution[o].leased
  /\ execution' = [execution EXCEPT ![o].leased = FALSE]
  /\ UNCHANGED <<epochs, policy, hold, request, plan, approval, profile, touched>>

Effect(row, action) ==
  CASE action = "ACCESS" -> row
    [] action = "ANONYMIZE" -> [row EXCEPT !.anonymized = TRUE, !.version = @ + 1]
    [] action = "RESTRICT" -> [row EXCEPT !.suspended = TRUE, !.version = @ + 1]

\* Deferred resource classes leave every request PARTIAL.
Execute(o, e, g) ==
  /\ execution[o].state = "CLAIMED"
  /\ execution[o].owner = e /\ execution[o].generation = g /\ execution[o].leased
  /\ Revalidate(o)
  /\ approval[o] = "valid"
  /\ LET s == plan[o].subject IN
       /\ profile' = [profile EXCEPT ![s] = Effect(@, plan[o].action)]
       /\ Touch({q \in Planned \ {o} : plan[q].subject = s /\ plan[o].action \in Destructive})
  /\ execution' = [execution EXCEPT ![o].state = "COMPLETED"]
  /\ MoveRequest(o, "PARTIAL")
  /\ UNCHANGED <<epochs, policy, hold, plan, approval>>

ComplianceNext ==
  \/ \E p \in Policies : CreatePolicy(p) \/ ActivatePolicy(p) \/ RetirePolicy(p)
  \/ \E h \in Holds, s \in Subjects, covers \in BOOLEAN : CreateHold(h, s, covers)
  \/ \E h \in Holds : ReleaseHold(h)
  \/ \E r \in Requests, s \in Subjects, k \in DOMAIN RequestAction : CreateRequest(r, s, k)
  \/ \E r \in Requests : VerifyRequest(r) \/ PlanRequest(r)
  \/ \E r \in Requests, t \in {"DENIED", "CANCELLED", "EXPIRED"} : EndRequest(r, t)
  \/ \E k \in Retentions, s \in Subjects : EvaluateRetention(k, s)
  \/ \E o \in Operations : Approve(o) \/ ApprovalExpires(o) \/ LeaseLapses(o)
  \/ \E o \in Operations, e \in Executors : Claim(o, e) \/ TakeOver(o, e)
  \/ \E o \in Operations, e \in Executors, g \in 1..MaxTakeovers : Execute(o, e, g)

ComplianceSpec == ComplianceInit /\ [][ComplianceNext]_complianceVars

-----------------------------------------------------------------------------
(* Properties. *)

\* A profile under an active legal hold is neither anonymized nor suspended, by
\* a request or by retention, whatever was planned and approved before the hold
\* ("Legal hold overrides erasure"; _holds, _revalidate, execute).
HeldIsUntouched ==
  [][\A s \in HeldSubjects : profile'[s] = profile[s]]_complianceVars

\* An execution completes only if no policy was activated or retired, no hold
\* made or released and the target not changed since its plan was made ("any
\* relevant change invalidates authorization").
PlansAreFresh ==
  [][\A o \in Operations :
       execution[o].state = "CLAIMED" /\ execution'[o].state = "COMPLETED"
         => o \notin touched]_complianceVars

ComplianceTypeOK ==
  /\ policy \in [Policies -> PolicyStates] /\ hold \in [Holds -> HoldRow]
  /\ request \in [Requests -> RequestRow \union {NoRequest}]
  /\ plan \in [Operations -> PlanRow \union {NoPlan}]
  /\ approval \in [Operations -> ApprovalStates]
  /\ execution \in [Operations -> ExecutionRow \union {NoExecution}]
  /\ profile \in [Subjects -> ProfileRow]

\* What the tables and their triggers demand: one active policy, revisions without
\* gaps; a hold and a plan that name what exists; nothing COMPLETED while resources
\* are deferred; an approval and an execution of a plan; plans and decisions that
\* never change; policies, requests and executions that move along their edges.
ControlFits == epochs.policy >= 0 /\ epochs.hold >= 0
OneActivePolicy ==
  /\ \A p, q \in Active : p = q
  /\ \A p \in Policies : policy[p] # "none" => \A q \in Policies : q < p => policy[q] # "none"
HoldRefers == \A h \in Holds : hold[h].state # "none" => hold[h].subject \in Subjects
RequestFits ==
  \A r \in Requests : request[r] # NoRequest =>
    /\ request[r].state # "COMPLETED"
    /\ request[r].state \in {"PLANNED", "APPROVED", "EXECUTING", "PARTIAL"} => request[r].verified
PlanRefers ==
  \A o \in Planned :
    /\ policy[plan[o].policy] # "none"
    /\ plan[o].version \in 1..profile[plan[o].subject].version
    /\ plan[o].policyEpoch \in 1..epochs.policy /\ plan[o].holdEpoch \in 0..epochs.hold
    /\ o \in Requests => request[o].subject = plan[o].subject
                          /\ RequestAction[request[o].kind] = plan[o].action
DecisionRefers == \A o \in Operations : approval[o] # "none" => o \in Planned
ExecutionRefers ==
  \A o \in Operations : execution[o] # NoExecution =>
    o \in Planned /\ approval[o] # "none" /\ execution[o].generation > 0
PolicyTransition ==
  \A p \in Policies : policy'[p] # policy[p] =>
    <<policy[p], policy'[p]>> \in {<<"none", "DRAFT">>, <<"DRAFT", "ACTIVE">>, <<"ACTIVE", "RETIRED">>}
DecisionsImmutable ==
  \A o \in Operations :
    /\ plan[o] # NoPlan => plan'[o] = plan[o]
    /\ approval[o] # "none" => approval'[o] # "none"
RequestTransition ==
  \A r \in Requests : request[r] # NoRequest =>
    /\ request'[r].subject = request[r].subject /\ request'[r].kind = request[r].kind
    /\ request'[r].state # request[r].state => RequireTransition(request[r].state, request'[r].state)
ClaimFence ==
  \A o \in Operations : execution[o] # NoExecution =>
    /\ execution[o].state = "COMPLETED" =>
         execution'[o].state = "COMPLETED" /\ execution'[o].owner = execution[o].owner
    /\ execution'[o].owner # execution[o].owner =>
         execution'[o].generation = execution[o].generation + 1 /\ ~execution[o].leased

\* Nothing is erased or restricted under a hold or from a plan that something
\* has overtaken, and the database never has to refuse what the service writes.
DisposalIsLawful ==
  /\ HeldIsUntouched /\ PlansAreFresh
  /\ [](ComplianceTypeOK /\ ControlFits /\ OneActivePolicy /\ HoldRefers /\ RequestFits
         /\ PlanRefers /\ DecisionRefers /\ ExecutionRefers)
  /\ [][PolicyTransition /\ DecisionsImmutable /\ RequestTransition /\ ClaimFence]_complianceVars
=============================================================================
