------------------------------ MODULE Campaign ------------------------------
(* One campaign (campaigns/service.py and domain/campaigns/repository.py): the *)
(* preparation of its audience, its runs and their release, the attempts of    *)
(* the recipients up to the send permit and the dispatch, pause, resume and    *)
(* cancellation.  Every action is one transaction, or one call of another      *)
(* subsystem between two transactions; whoever was told of a committed step    *)
(* may take the next one at any later time, also after a crash or a retry.     *)
(*                                                                             *)
(* An attempt is claimed once and never given away, so the claim's owner and   *)
(* token add nothing to its state.  The workflow engine and the messaging      *)
(* service are seen through their idempotency keys: one workflow run and one   *)
(* message per key.                                                            *)
EXTENDS Naturals, FiniteSets

CONSTANTS
    Members,        \* who the draft's audience may name, in the order of the list
    Fickle,         \* the members whose preferences change
    Runs,           \* idempotency keys of campaign runs
    ScheduledRun,   \* the key schedule_campaign derives
    Dispatchers,    \* concurrent calls of dispatch_send
    Materialize,    \* MATERIALIZATION_BATCH
    CancelBatch,    \* CANCELLATION_BATCH
    CampaignLimit,  \* throttle.campaign_limit
    PerMinute,      \* throttle.messages_per_minute
    MaxChanges      \* bound on the changes of preferences and on the quiet hours

ASSUME CampaignAssumption ==
    /\ ScheduledRun \in Runs /\ Members \subseteq Nat /\ IsFiniteSet(Members)
    /\ Fickle \subseteq Members
    /\ Materialize \in Nat \ {0} /\ CancelBatch \in Nat \ {0}
    /\ CampaignLimit \in Nat /\ PerMinute \in Nat /\ MaxChanges \in Nat

Attempts == Runs \X Members

VARIABLES
    campaign,     \* campaigns.state
    audience,     \* the members the draft names; frozen by the preparation
    snapshot,     \* state of the audience snapshot
    recipient,    \* state of the snapshot's rows
    run,          \* campaign_runs.state
    releaseWf,    \* the release workflow's run
    bound,        \* runs that know their release workflow run
    schedule,     \* the one-time schedule of the scheduled run
    materialized, \* runs with attempt_materialization_complete
    attempt,      \* state of the recipient attempts
    claimed,      \* attempts with an owner
    wf,           \* the recipient workflow's run
    permit,       \* the send permit
    sent,         \* attempts whose message the messaging service has
    dispatching,  \* what each call of dispatch_send is at
    count,        \* counters of each run
    reserved,     \* reservations of the current minute's throttle window
    consent,      \* members who may be contacted, by their preferences
    suppressed,   \* members on a suppression list
    quiet,        \* whether it is within the quiet hours
    changes,      \* preferences changed and quiet hours begun so far
    waiting       \* members whose next_eligible_at lies ahead

audienceVars == <<audience, snapshot, recipient>>
runVars == <<run, releaseWf, bound, schedule, materialized>>
attemptVars == <<attempt, claimed, wf, permit, count, reserved>>
policyVars == <<consent, suppressed, quiet, changes>>
campaignVars == <<campaign, audienceVars, runVars, attemptVars, sent, dispatching, policyVars, waiting>>

(* The states of the rows; "none" is a row that does not exist.                *)
SnapshotStates == {"none", "OPEN", "SEALED"}
RecipientStates == {"none", "ELIGIBLE", "DEFERRED", "SUPPRESSED", "CANCELLED"}
RunStates == {"none", "PENDING_RELEASE", "MATERIALIZING", "RUNNING", "PAUSED", "CANCELLING",
              "CANCELLED", "COMPLETED"}
AttemptStates == {"none", "PENDING", "CLAIMED", "WORKFLOW_RUNNING", "READY_TO_SEND",
                  "DISPATCH_AUTHORIZED", "DISPATCHED", "SUPPRESSED", "FAILED", "CANCELLED"}
PermitStates == {"none", "AUTHORIZED", "CONSUMED"}

\* The counters of a run, and what is reserved of its current minute.
RunCounters == [made : Nat, claimed : Nat, authorized : 0..CampaignLimit, dispatched : Nat, suppressed : Nat]
ThrottleWindow == 0..PerMinute

Workflow == {"none", "RUNNING", "COMPLETED", "FAILED"}
NoDispatch == [step |-> "idle"]

CampaignInit ==
    /\ campaign = "DRAFT" /\ audience = Members
    /\ snapshot = "none" /\ recipient = [m \in Members |-> "none"]
    /\ run = [r \in Runs |-> "none"] /\ releaseWf = [r \in Runs |-> "none"] /\ bound = {}
    /\ schedule = "none" /\ materialized = {}
    /\ attempt = [a \in Attempts |-> "none"] /\ claimed = {}
    /\ wf = [a \in Attempts |-> "none"] /\ permit = [a \in Attempts |-> "none"] /\ sent = {}
    /\ dispatching = [d \in Dispatchers |-> NoDispatch]
    /\ count = [r \in Runs |-> [made |-> 0, claimed |-> 0, authorized |-> 0, dispatched |-> 0, suppressed |-> 0]]
    /\ reserved = [r \in Runs |-> 0]
    /\ consent = Members /\ suppressed = {} /\ quiet = FALSE /\ waiting = {}
    /\ changes = 0

CampaignTransitions ==
    [DRAFT |-> {"PREPARING", "CANCELLING"}, PREPARING |-> {"READY", "DRAFT", "CANCELLING"},
     READY |-> {"SCHEDULED", "RUNNING", "CANCELLING"},
     SCHEDULED |-> {"RUNNING", "FAILED", "CANCELLING"},
     RUNNING |-> {"PAUSED", "COMPLETED", "FAILED", "CANCELLING"},
     PAUSED |-> {"RUNNING", "FAILED", "CANCELLING"},
     CANCELLING |-> {"CANCELLED"}, COMPLETED |-> {}, FAILED |-> {}, CANCELLED |-> {}]

\* require_campaign_transition, and the assignment of the new state
MoveCampaign(target) == target \in CampaignTransitions[campaign] /\ campaign' = target

-----------------------------------------------------------------------------
(* The policies a send depends on.                                             *)

\* What eligibility() finds for a member.
Eligibility(m) ==
    IF m \notin consent \/ m \in suppressed THEN "SUPPRESSED"
    ELSE IF quiet THEN "DEFERRED" ELSE "ELIGIBLE"

Change == changes < MaxChanges /\ changes' = changes + 1

SetPreference(m) ==
    /\ Change
    /\ consent' \in {consent \cup {m}, consent \ {m}}
    /\ UNCHANGED <<campaign, audienceVars, runVars, attemptVars, sent, dispatching, suppressed, quiet, waiting>>

AddSuppression(m) ==
    /\ Change
    /\ suppressed' = suppressed \cup {m}
    /\ UNCHANGED <<campaign, audienceVars, runVars, attemptVars, sent, dispatching, consent, quiet, waiting>>

\* The clock enters or leaves the quiet hours, at whose end every deferral ends.
QuietHours ==
    /\ quiet' = ~quiet
    /\ IF quiet THEN UNCHANGED changes ELSE Change
    /\ waiting' = IF quiet THEN {} ELSE waiting
    /\ UNCHANGED <<campaign, audienceVars, runVars, attemptVars, sent, dispatching, consent, suppressed>>

\* The clock enters another minute.
NextMinute ==
    /\ reserved' = [r \in Runs |-> 0]
    /\ UNCHANGED <<campaign, audienceVars, runVars, attempt, claimed, wf, permit, count, sent,
                   dispatching, policyVars, waiting>>

-----------------------------------------------------------------------------
(* Preparation.                                                                *)

UpdateCampaign ==
    /\ campaign = "DRAFT"
    /\ audience' \in SUBSET Members \ {{}}
    /\ UNCHANGED <<campaign, snapshot, recipient, runVars, attemptVars, sent, dispatching, policyVars, waiting>>

BeginPreparation ==
    /\ MoveCampaign("PREPARING")
    /\ snapshot' = "OPEN"
    /\ UNCHANGED <<audience, recipient, runVars, attemptVars, sent, dispatching, policyVars, waiting>>

(* members[cursor : cursor + limit] of a list that is sorted by member.        *)
Slice(ms, cursor, limit) ==
    {m \in ms : LET rank == Cardinality({k \in ms : k <= m}) IN cursor < rank /\ rank <= cursor + limit}

\* The next batch of the frozen audience.
MaterializeBatch ==
    /\ snapshot = "OPEN"
    /\ LET cursor == Cardinality({m \in audience : recipient[m] # "none"})
           batch == Slice(audience, cursor, Materialize) IN
        /\ recipient' = [m \in Members |-> IF m \in batch THEN Eligibility(m) ELSE recipient[m]]
        /\ waiting' = waiting \cup {m \in batch : Eligibility(m) = "DEFERRED"}
    /\ UNCHANGED <<campaign, audience, snapshot, runVars, attemptVars, sent, dispatching, policyVars>>

\* Only a snapshot whose cursor has reached the end of the audience is sealed.
SealPreparation ==
    /\ campaign = "PREPARING" /\ snapshot = "OPEN"
    /\ \A m \in audience : recipient[m] # "none"
    /\ snapshot' = "SEALED"
    /\ MoveCampaign("READY")
    /\ UNCHANGED <<audience, recipient, runVars, attemptVars, sent, dispatching, policyVars, waiting>>

-----------------------------------------------------------------------------
(* Runs and their release.                                                     *)

\* create_run: start_campaign's for any key, schedule_campaign's for its own.
CreateRun(r) ==
    /\ campaign \in {"READY", "SCHEDULED"} /\ snapshot = "SEALED" /\ run[r] = "none"
    /\ run' = [run EXCEPT ![r] = "PENDING_RELEASE"]
    /\ UNCHANGED <<campaign, audienceVars, releaseWf, bound, schedule, materialized, attemptVars,
                   sent, dispatching, policyVars, waiting>>

\* start_campaign calls the workflow engine; so does the scheduler, when it fires.
StartRelease(r) ==
    /\ run[r] # "none" /\ releaseWf[r] = "none"
    /\ r = ScheduledRun => schedule = "ACTIVE"
    /\ schedule' = IF r = ScheduledRun THEN "DISPATCHED" ELSE schedule
    /\ releaseWf' = [releaseWf EXCEPT ![r] = "RUNNING"]
    /\ UNCHANGED <<campaign, audienceVars, run, bound, materialized, attemptVars, sent, dispatching,
                   policyVars, waiting>>

SetReleaseRun(r) ==
    /\ r # ScheduledRun /\ releaseWf[r] # "none"
    /\ run[r] = "PENDING_RELEASE"
    /\ bound' = bound \cup {r}
    /\ UNCHANGED <<campaign, audienceVars, run, releaseWf, schedule, materialized, attemptVars,
                   sent, dispatching, policyVars, waiting>>

\* schedule_campaign creates its schedule,
CreateSchedule ==
    /\ run[ScheduledRun] # "none" /\ schedule = "none"
    /\ schedule' = "CREATED"
    /\ UNCHANGED <<campaign, audienceVars, run, releaseWf, bound, materialized, attemptVars, sent,
                   dispatching, policyVars, waiting>>

\* binds it to the run and marks the campaign SCHEDULED in one transaction,
BindSchedule ==
    /\ schedule # "none"
    /\ IF campaign = "SCHEDULED" THEN UNCHANGED campaign ELSE MoveCampaign("SCHEDULED")
    /\ schedule' = IF schedule = "CREATED" THEN "BOUND" ELSE schedule
    /\ UNCHANGED <<audienceVars, run, releaseWf, bound, materialized, attemptVars, sent,
                   dispatching, policyVars, waiting>>

\* and then activates it, whatever happened to the campaign meanwhile.
ActivateCampaignSchedule ==
    /\ schedule = "BOUND"
    /\ schedule' = "ACTIVE"
    /\ UNCHANGED <<campaign, audienceVars, run, releaseWf, bound, materialized, attemptVars, sent,
                   dispatching, policyVars, waiting>>

(* bridge_scheduled_release.  That the workflow has not failed is checked      *)
(* before the transaction and may no longer be so.                             *)
BridgeScheduledRelease ==
    /\ schedule = "DISPATCHED" /\ ScheduledRun \notin bound
    /\ run[ScheduledRun] = "PENDING_RELEASE" /\ campaign = "SCHEDULED"
    /\ bound' = bound \cup {ScheduledRun}
    /\ UNCHANGED <<campaign, audienceVars, run, releaseWf, schedule, materialized, attemptVars,
                   sent, dispatching, policyVars, waiting>>

\* The workflow engine ends a release or a recipient workflow.
ReleaseEnds(r) ==
    /\ releaseWf[r] = "RUNNING"
    /\ \E end \in {"COMPLETED", "FAILED"} : releaseWf' = [releaseWf EXCEPT ![r] = end]
    /\ UNCHANGED <<campaign, audienceVars, run, bound, schedule, materialized, attemptVars, sent,
                   dispatching, policyVars, waiting>>

Bug_BeginRunActivation(r) ==
    /\ r \in bound /\ releaseWf[r] = "COMPLETED"
    /\ run[r] = "PENDING_RELEASE"
    /\ campaign \in {"READY", "SCHEDULED", "RUNNING"}
    /\ campaign' = "RUNNING"
    /\ run' = [run EXCEPT ![r] = "MATERIALIZING"]
    /\ UNCHANGED <<audienceVars, releaseWf, bound, schedule, materialized, attemptVars, sent,
                   dispatching, policyVars, waiting>>

\* confirm_release, first transaction
BeginRunActivation(r) ==
    /\ r \in bound /\ releaseWf[r] = "COMPLETED"
    /\ run[r] = "PENDING_RELEASE"
    /\ campaign \in {"READY", "SCHEDULED"}
    /\ campaign' = "RUNNING"
    /\ run' = [run EXCEPT ![r] = "MATERIALIZING"]
    /\ UNCHANGED <<audienceVars, releaseWf, bound, schedule, materialized, attemptVars, sent,
                   dispatching, policyVars, waiting>>

(* confirm_release, second transaction, which looks at the run only: the       *)
(* campaign may have been paused since.  Recipients are paged by offset among  *)
(* those that are ELIGIBLE or DEFERRED at the time.                            *)
MaterializeAttemptBatch(r) ==
    /\ run[r] = "MATERIALIZING"
    /\ LET open == {m \in Members : recipient[m] \in {"ELIGIBLE", "DEFERRED"}}
           batch == Slice(open, count[r].made, Materialize)
           made == count[r].made + Cardinality(batch)
           done == made >= Cardinality(open) IN
        /\ attempt' = [a \in Attempts |-> IF a[1] = r /\ a[2] \in batch THEN "PENDING" ELSE attempt[a]]
        /\ count' = [count EXCEPT ![r].made = made]
        /\ materialized' = IF done THEN materialized \cup {r} ELSE materialized
        /\ run' = IF done THEN [run EXCEPT ![r] = "RUNNING"] ELSE run
    /\ UNCHANGED <<campaign, audienceVars, releaseWf, bound, schedule, claimed, wf, permit,
                   reserved, sent, dispatching, policyVars, waiting>>

-----------------------------------------------------------------------------
(* The attempts of a run, up to the permit.                                    *)

AttemptTerminal == {"DISPATCHED", "SUPPRESSED", "FAILED", "CANCELLED"}
Cancellable == {"PENDING", "CLAIMED", "WORKFLOW_RUNNING", "READY_TO_SEND"}

Bug_Executing(r) == run[r] = "RUNNING"

\* Both rows are locked and read by claim_recipient and by authorize_permit.
Executing(r) == run[r] = "RUNNING" /\ campaign = "RUNNING"

ClaimRecipient(r) ==
    /\ Executing(r)
    /\ \E m \in Members \ waiting :
        /\ attempt[<<r, m>>] = "PENDING"
        /\ attempt' = [attempt EXCEPT ![<<r, m>>] = "CLAIMED"]
        /\ claimed' = claimed \cup {<<r, m>>}
    /\ count' = [count EXCEPT ![r].claimed = @ + 1]
    /\ UNCHANGED <<campaign, audienceVars, runVars, wf, permit, reserved, sent, dispatching, policyVars, waiting>>

\* The owner of the claim calls the workflow engine, whatever became of the attempt,
StartRecipientWorkflow(a) ==
    /\ a \in claimed /\ wf[a] = "none"
    /\ wf' = [wf EXCEPT ![a] = "RUNNING"]
    /\ UNCHANGED <<campaign, audienceVars, runVars, attempt, claimed, permit, count, reserved, sent,
                   dispatching, policyVars, waiting>>

\* and records the run if the attempt is still as it was claimed.
MarkWorkflowStarted(a) ==
    /\ wf[a] # "none" /\ attempt[a] = "CLAIMED"
    /\ attempt' = [attempt EXCEPT ![a] = "WORKFLOW_RUNNING"]
    /\ UNCHANGED <<campaign, audienceVars, runVars, claimed, wf, permit, count, reserved, sent,
                   dispatching, policyVars, waiting>>

RecipientWorkflowEnds(a) ==
    /\ wf[a] = "RUNNING"
    /\ \E end \in {"COMPLETED", "FAILED"} : wf' = [wf EXCEPT ![a] = end]
    /\ UNCHANGED <<campaign, audienceVars, runVars, attempt, claimed, permit, count, reserved, sent,
                   dispatching, policyVars, waiting>>

ConfirmRecipientWorkflow(a) ==
    /\ attempt[a] = "WORKFLOW_RUNNING" /\ wf[a] = "COMPLETED"
    /\ attempt' = [attempt EXCEPT ![a] = "READY_TO_SEND"]
    /\ UNCHANGED <<campaign, audienceVars, runVars, claimed, wf, permit, count, reserved, sent,
                   dispatching, policyVars, waiting>>

\* _reserve_throttle
Throttled(r) == count[r].authorized >= CampaignLimit \/ reserved[r] >= PerMinute

\* authorize_permit, when the member may be contacted now
AuthorizePermit(a) ==
    /\ Executing(a[1]) /\ attempt[a] = "READY_TO_SEND"
    /\ Eligibility(a[2]) = "ELIGIBLE" /\ ~Throttled(a[1])
    /\ permit' = [permit EXCEPT ![a] = "AUTHORIZED"]
    /\ attempt' = [attempt EXCEPT ![a] = "DISPATCH_AUTHORIZED"]
    /\ count' = [count EXCEPT ![a[1]].authorized = @ + 1]
    /\ reserved' = [reserved EXCEPT ![a[1]] = @ + 1]
    /\ UNCHANGED <<campaign, audienceVars, runVars, claimed, wf, sent, dispatching, policyVars, waiting>>

\* authorize_permit, when the member may not: the denial is stored.
DenyPermit(a) ==
    LET denial == Eligibility(a[2]) IN
    /\ Executing(a[1]) /\ attempt[a] = "READY_TO_SEND"
    /\ denial # "ELIGIBLE"
    /\ recipient' = [recipient EXCEPT ![a[2]] = denial]
    /\ waiting' = IF denial = "DEFERRED" THEN waiting \cup {a[2]} ELSE waiting \ {a[2]}
    /\ IF denial = "DEFERRED" THEN UNCHANGED <<attempt, count>>
       ELSE /\ attempt' = [attempt EXCEPT ![a] = "SUPPRESSED"]
            /\ count' = [count EXCEPT ![a[1]].suppressed = @ + 1]
    /\ UNCHANGED <<campaign, audience, snapshot, runVars, claimed, wf, permit, reserved, sent,
                   dispatching, policyVars>>

-----------------------------------------------------------------------------
(* dispatch_send.                                                              *)

DispatchBegins(d) ==
    /\ dispatching[d] = NoDispatch
    /\ \E a \in Attempts :
        /\ permit[a] = "AUTHORIZED"
        /\ dispatching' = [dispatching EXCEPT ![d] = [step |-> "read", of |-> a]]
    /\ UNCHANGED <<campaign, audienceVars, runVars, attemptVars, sent, policyVars, waiting>>

\* The messaging service accepts the message or finds the one of this key.
MessageSent(d) ==
    /\ dispatching[d].step = "read"
    /\ sent' = sent \cup {dispatching[d].of}
    /\ dispatching' = [dispatching EXCEPT ![d].step = "sent"]
    /\ UNCHANGED <<campaign, audienceVars, runVars, attemptVars, policyVars, waiting>>

\* The messaging service refuses, a reply is lost, or the process dies.
DispatchEnds(d) ==
    /\ dispatching[d] # NoDispatch
    /\ dispatching' = [dispatching EXCEPT ![d] = NoDispatch]
    /\ UNCHANGED <<campaign, audienceVars, runVars, attemptVars, sent, policyVars, waiting>>

\* What consume_permit does to the run when its last attempt is settled.
CompleteRun(r) ==
    IF run[r] = "RUNNING" /\ \A m \in Members : attempt'[<<r, m>>] \in AttemptTerminal \cup {"none"}
    THEN /\ run' = [run EXCEPT ![r] = "COMPLETED"]
         /\ campaign' = IF campaign = "RUNNING" THEN "COMPLETED" ELSE campaign
    ELSE UNCHANGED <<run, campaign>>

Bug_ConsumePermit(d) ==
    LET a == dispatching[d].of IN
    /\ dispatching[d].step = "sent"
    /\ permit' = [permit EXCEPT ![a] = "CONSUMED"]
    /\ attempt' = [attempt EXCEPT ![a] = "DISPATCHED"]
    /\ count' = [count EXCEPT ![a[1]].dispatched = @ + 1]
    /\ dispatching' = [dispatching EXCEPT ![d] = NoDispatch]
    /\ CompleteRun(a[1])
    /\ UNCHANGED <<audienceVars, releaseWf, bound, schedule, materialized, claimed, wf, reserved,
                   sent, policyVars, waiting>>

\* A permit that was consumed with the same message is left alone: DispatchEnds.
ConsumePermit(d) ==
    LET a == dispatching[d].of IN
    /\ dispatching[d].step = "sent"
    /\ permit[a] = "AUTHORIZED" /\ attempt[a] = "DISPATCH_AUTHORIZED"
    /\ permit' = [permit EXCEPT ![a] = "CONSUMED"]
    /\ attempt' = [attempt EXCEPT ![a] = "DISPATCHED"]
    /\ count' = [count EXCEPT ![a[1]].dispatched = @ + 1]
    /\ dispatching' = [dispatching EXCEPT ![d] = NoDispatch]
    /\ CompleteRun(a[1])
    /\ UNCHANGED <<audienceVars, releaseWf, bound, schedule, materialized, claimed, wf, reserved,
                   sent, policyVars, waiting>>

-----------------------------------------------------------------------------
(* Pause, resume and cancellation.                                             *)

\* Every run in one of the states froms moves to the state to.
MoveRuns(froms, to) == run' = [r \in Runs |-> IF run[r] \in froms THEN to ELSE run[r]]

\* A run that is being materialized is not paused with its campaign.
PauseCampaign ==
    /\ MoveCampaign("PAUSED")
    /\ MoveRuns({"PENDING_RELEASE", "RUNNING"}, "PAUSED")
    /\ UNCHANGED <<audienceVars, releaseWf, bound, schedule, materialized, attemptVars, sent,
                   dispatching, policyVars, waiting>>

\* The transition table lets READY and SCHEDULED campaigns be resumed as well.
ResumeCampaign ==
    /\ MoveCampaign("RUNNING")
    /\ MoveRuns({"PAUSED"}, "RUNNING")
    /\ UNCHANGED <<audienceVars, releaseWf, bound, schedule, materialized, attemptVars, sent,
                   dispatching, policyVars, waiting>>

BeginCancellation ==
    /\ MoveCampaign("CANCELLING")
    /\ MoveRuns({"PENDING_RELEASE", "MATERIALIZING", "RUNNING", "PAUSED"}, "CANCELLING")
    /\ UNCHANGED <<audienceVars, releaseWf, bound, schedule, materialized, attemptVars, sent,
                   dispatching, policyVars, waiting>>

(* cancel_attempt_batch: attempts whose rows are locked are left for another   *)
(* batch; the campaign is CANCELLED with the last one.                         *)
CancelAttemptBatch ==
    LET open == {a \in Attempts : run[a[1]] = "CANCELLING" /\ attempt[a] \in Cancellable} IN
    /\ campaign = "CANCELLING"
    /\ \E batch \in SUBSET open :
        /\ Cardinality(batch) <= CancelBatch
        /\ attempt' = [a \in Attempts |-> IF a \in batch THEN "CANCELLED" ELSE attempt[a]]
        /\ recipient' = [m \in Members |->
              IF recipient[m] \in {"ELIGIBLE", "DEFERRED"} /\ (\E r \in Runs : <<r, m>> \in batch)
              THEN "CANCELLED" ELSE recipient[m]]
        /\ IF batch = open
           THEN campaign' = "CANCELLED" /\ MoveRuns({"CANCELLING"}, "CANCELLED")
           ELSE UNCHANGED <<campaign, run>>
    /\ UNCHANGED <<audience, snapshot, releaseWf, bound, schedule, materialized, claimed, wf, permit,
                   count, reserved, sent, dispatching, policyVars, waiting>>

-----------------------------------------------------------------------------

Policy ==
    \/ \E m \in Fickle : SetPreference(m) \/ AddSuppression(m)
    \/ QuietHours \/ NextMinute

Preparation == UpdateCampaign \/ BeginPreparation \/ MaterializeBatch \/ SealPreparation

Release ==
    \/ CreateSchedule \/ BindSchedule \/ ActivateCampaignSchedule \/ BridgeScheduledRelease
    \/ \E r \in Runs : \/ CreateRun(r) \/ StartRelease(r) \/ SetReleaseRun(r) \/ ReleaseEnds(r)
                       \/ BeginRunActivation(r) \/ MaterializeAttemptBatch(r)

Delivery ==
    \/ \E r \in Runs : ClaimRecipient(r)
    \/ \E a \in Attempts :
        \/ StartRecipientWorkflow(a) \/ MarkWorkflowStarted(a) \/ RecipientWorkflowEnds(a)
        \/ ConfirmRecipientWorkflow(a) \/ AuthorizePermit(a) \/ DenyPermit(a)
    \/ \E d \in Dispatchers :
        DispatchBegins(d) \/ MessageSent(d) \/ DispatchEnds(d) \/ ConsumePermit(d)

Life == PauseCampaign \/ ResumeCampaign \/ BeginCancellation \/ CancelAttemptBatch

CampaignNext == Policy \/ Preparation \/ Release \/ Delivery \/ Life

CampaignSpec == CampaignInit /\ [][CampaignNext]_campaignVars

-----------------------------------------------------------------------------
(* Properties.                                                                 *)

\* The rows, counters and calls have the values their columns and types allow.
CampaignTypeOK ==
    /\ campaign \in DOMAIN CampaignTransitions
    /\ audience \subseteq Members /\ snapshot \in SnapshotStates
    /\ recipient \in [Members -> RecipientStates]
    /\ run \in [Runs -> RunStates]
    /\ releaseWf \in [Runs -> Workflow] /\ bound \subseteq Runs /\ materialized \subseteq Runs
    /\ schedule \in {"none", "CREATED", "BOUND", "ACTIVE", "DISPATCHED"}
    /\ attempt \in [Attempts -> AttemptStates]
    /\ wf \in [Attempts -> Workflow] /\ claimed \subseteq Attempts /\ sent \subseteq Attempts
    /\ permit \in [Attempts -> PermitStates]
    /\ \A d \in Dispatchers : dispatching[d] = NoDispatch \/ dispatching[d].of \in Attempts
    /\ \A r \in Runs : reserved[r] \in ThrottleWindow /\ count[r] \in RunCounters
    /\ consent \subseteq Members /\ suppressed \subseteq Members /\ waiting \subseteq Members

(* The constraints of the tables: what a row refers to exists.                 *)
AudienceRefers == snapshot # "none" => audience # {}
RecipientRefers == \A m \in Members : recipient[m] # "none" => snapshot # "none" /\ m \in audience
RunRefers == \A r \in Runs : run[r] # "none" => snapshot = "SEALED"
ReleaseBinding == ScheduledRun \in bound => schedule # "none" /\ releaseWf[ScheduledRun] # "none"
AttemptRefers == \A a \in Attempts : attempt[a] # "none" => run[a[1]] # "none" /\ recipient[a[2]] # "none"
PermitRefers == \A a \in Attempts : permit[a] # "none" => attempt[a] # "none"

(* The database never has to refuse what the campaign service writes.          *)
RowsRefer ==
    /\ AudienceRefers /\ RecipientRefers /\ RunRefers /\ ReleaseBinding /\ AttemptRefers /\ PermitRefers

(* A member of the audience gets one message of the campaign at most, however  *)
(* many runs are created and whoever retries a dispatch.                       *)
OneMessagePerMember == \A a, b \in sent : a[2] = b[2] => a = b

(* A message is sent only for an attempt whose permit was given and whose      *)
(* workflow completed, in a run whose release workflow completed.              *)
SendWasAuthorized ==
    \A a \in sent : permit[a] # "none" /\ wf[a] = "COMPLETED" /\ releaseWf[a[1]] = "COMPLETED"

(* The counters of a run equal what its rows say, also when a dispatch was     *)
(* reported more than once.                                                    *)
CountersAgree ==
    \A r \in Runs :
        LET rows(P(_)) == Cardinality({a \in {r} \X Members : P(a)}) IN
        /\ count[r].made = rows(LAMBDA a : attempt[a] # "none")
        /\ count[r].claimed = rows(LAMBDA a : a \in claimed)
        /\ count[r].authorized = rows(LAMBDA a : permit[a] # "none")
        /\ count[r].dispatched = rows(LAMBDA a : permit[a] = "CONSUMED")
        /\ count[r].suppressed = rows(LAMBDA a : attempt[a] = "SUPPRESSED")

(* Every member of the frozen audience was evaluated, and whoever was found    *)
(* eligible or deferred has an attempt in the run that was materialized.       *)
NobodyForgotten ==
    /\ snapshot = "SEALED" => \A m \in audience : recipient[m] # "none"
    /\ \A r \in materialized : \A m \in Members :
        recipient[m] \in {"ELIGIBLE", "DEFERRED"} => attempt[<<r, m>>] # "none"

(* In a CANCELLED campaign no run goes on and no attempt is left that could    *)
(* still be given a permit.                                                    *)
CancelledIsQuiet ==
    campaign = "CANCELLED" =>
        /\ \A r \in Runs : run[r] \in {"none", "CANCELLED", "COMPLETED"}
        /\ \A a \in Attempts : attempt[a] \notin Cancellable

(* A COMPLETED run has no attempt that is still under way, and its campaign    *)
(* has completed, been paused or been stopped with it.                         *)
CompletedIsDone ==
    \A r \in Runs : run[r] = "COMPLETED" =>
        /\ r \in materialized
        /\ \A m \in Members : attempt[<<r, m>>] \in AttemptTerminal \cup {"none"}
        /\ campaign # "RUNNING"

(* A permit is given only to a member who may be contacted at that moment, by  *)
(* a campaign that is RUNNING at that moment: consent, suppression, quiet      *)
(* hours and the campaign's state are read again, not taken from the snapshot  *)
(* or from the claim.                                                          *)
PermitIsFresh ==
    [][\A a \in Attempts : permit[a] = "none" /\ permit'[a] # "none" =>
        /\ campaign = "RUNNING" /\ run[a[1]] = "RUNNING"
        /\ a[2] \in consent \ suppressed /\ ~quiet]_campaignVars

\* The triggers that keep an audience once it is sealed, and a recipient's identity.
SealedAudience == snapshot = "SEALED" => snapshot' = snapshot /\ audience' = audience
RecipientIdentity == \A m \in Members : recipient[m] # "none" => recipient'[m] # "none"

(* No step runs into the triggers that make a sealed audience and the identity *)
(* of its recipients immutable, and every permit is fresh.                     *)
StepsAreLawful == PermitIsFresh /\ [][SealedAudience /\ RecipientIdentity]_campaignVars

(* A run that is RUNNING was released: its release workflow completed.         *)
(* The code does not keep it (README, Divergences).                            *)
ReleasedBeforeRunning == \A r \in Runs : run[r] = "RUNNING" => releaseWf[r] = "COMPLETED"

(* A run whose attempts have all ended does not go on RUNNING.                 *)
(* The code does not keep it (README, Divergences).                            *)
RunningHasWork ==
    \A r \in Runs : run[r] = "RUNNING" /\ r \in materialized =>
        \E m \in Members : attempt[<<r, m>>] \notin AttemptTerminal \cup {"none"}

(* Every message is owed: a member gets at most one per run, after an          *)
(* authorization, and none once the cancellation has taken hold.               *)
SendsAreOwed == OneMessagePerMember /\ SendWasAuthorized /\ CancelledIsQuiet

(* The books balance: counters agree with the attempts, no member of the       *)
(* audience is forgotten, and a completed run has nothing left to do.          *)
BooksBalance == CampaignTypeOK /\ RowsRefer /\ CountersAgree /\ NobodyForgotten /\ CompletedIsDone
=============================================================================
