------------------------------ MODULE Scheduler ------------------------------
(* One schedule of the scheduler (scheduler/service.py and the repository of   *)
(* domain/scheduler): its life and edits, the materialisation of elapsed slots *)
(* under the misfire policies, and the workers that claim occurrences and      *)
(* start their workflow runs.  Every action is one transaction; the call of    *)
(* the workflow engine lies between two of them.                               *)
(*                                                                             *)
(* Time is counted in periods of the recurrence: slot n is due when the        *)
(* database clock reads n, and 0 stands for no slot.  How calendar rules turn  *)
(* into instants (scheduler/recurrence.py) is not part of this module, but     *)
(* for the slots whose local time does not exist.                              *)
EXTENDS Naturals, FiniteSets

CONSTANTS
    Workers,      \* processes that dispatch
    OneTime,      \* schedule_type: ONE_TIME or RECURRING
    Offers,       \* the terms that create and edit choose from
    Gaps,         \* slots that fall in a DST gap
    Batch,        \* the limit of a call of materialize_due
    Horizon,      \* bound: the last instant the clock shows
    MaxRevision,  \* bound: no edit and no pause from this revision on
    MaxFaults     \* bound: lost replies, crashes, steps back of the clock

Policies == {"SKIP", "FIRE_ONCE", "CATCH_UP_BOUNDED"}
NoFire == 0

\* What the validators of CreateScheduleRequest let through.
TermsOk(t) ==
    /\ t.policy \in Policies
    /\ t.start \in 1..Horizon /\ t.end \in Nat /\ t.start <= t.end
    /\ t.most \in Nat \ {0} /\ (t.policy # "CATCH_UP_BOUNDED" => t.most = 1)

ASSUME SchedulerAssumption ==
    /\ OneTime \in BOOLEAN
    /\ \A t \in Offers : TermsOk(t)
    /\ Batch \in Nat \ {0} /\ Horizon \in Nat /\ MaxRevision \in Nat \ {0} /\ MaxFaults \in Nat

\* An occurrence is identified by the schedule's revision and the local slot.
Keys == (1..(MaxRevision + 1)) \X (1..Horizon)

VARIABLES
    now,        \* the database clock
    state,      \* the schedule row
    revision,
    terms,      \* its policy, max_catch_up, start_at and end_at
    next,       \* next_fire_at
    occ,        \* state of the occurrences, "none" without a row
    token,      \* claim tokens drawn for each occurrence; the last is current
    accounted,  \* slots that a misfire summary covers
    runs,       \* workflow runs started under the occurrence's idempotency key
    pc, claim,  \* what each worker is at, and the claim it holds
    faults,
    origin      \* the revision since which the cursor has only advanced

schedule == <<state, revision, terms, next, origin>>
vars == <<now, schedule, occ, token, accounted, runs, pc, claim, faults>>

NoClaim == [key |-> <<0, 0>>, token |-> 0]
Claims == [key : Keys, token : Nat]

Init ==
    /\ now = 0
    /\ state = "DRAFT" /\ revision = 1 /\ terms \in Offers /\ next = NoFire /\ origin = 1
    /\ occ = [k \in Keys |-> "none"]
    /\ token = [k \in Keys |-> 0]
    /\ accounted = {}
    /\ runs = [k \in Keys |-> 0]
    /\ pc = [w \in Workers |-> "idle"]
    /\ claim = [w \in Workers |-> NoClaim]
    /\ faults = 0

Fault == faults < MaxFaults /\ faults' = faults + 1

-----------------------------------------------------------------------------
(* The life of the schedule.                                                   *)

ScheduleTransitions ==
    [DRAFT |-> {"ACTIVE", "CANCELLED"}, ACTIVE |-> {"PAUSED", "COMPLETED", "CANCELLED"},
     PAUSED |-> {"ACTIVE", "CANCELLED"}, COMPLETED |-> {}, CANCELLED |-> {}]

\* transition_schedule
Transition(target) ==
    /\ target \in ScheduleTransitions[state]
    /\ state' = target
    /\ revision' = revision + 1

Bug_UpdateKeepsCursor ==
    /\ state \in {"DRAFT", "PAUSED"} /\ revision < MaxRevision
    /\ terms' \in Offers
    /\ revision' = revision + 1
    /\ UNCHANGED <<now, state, next, origin, occ, token, accounted, runs, pc, claim, faults>>

\* A stale expected_revision is refused, and the caller reads again.
UpdateSchedule ==
    /\ state \in {"DRAFT", "PAUSED"} /\ revision < MaxRevision
    /\ terms' \in Offers
    /\ revision' = revision + 1
    /\ next' = NoFire
    /\ UNCHANGED <<now, state, origin, occ, token, accounted, runs, pc, claim, faults>>

ActivateSchedule ==
    /\ state = "DRAFT"
    /\ terms.start <= terms.end
    /\ next' = terms.start
    /\ Transition("ACTIVE")
    /\ origin' = revision'
    /\ UNCHANGED <<now, terms, occ, token, accounted, runs, pc, claim, faults>>

PauseSchedule ==
    /\ revision < MaxRevision
    /\ Transition("PAUSED")
    /\ UNCHANGED <<now, terms, next, origin, occ, token, accounted, runs, pc, claim, faults>>

\* The cursor is computed again only if there is none.
ResumeSchedule ==
    /\ state = "PAUSED"
    /\ next' = IF next = NoFire THEN terms.start ELSE next
    /\ Transition("ACTIVE")
    /\ origin' = IF next = NoFire THEN revision' ELSE origin
    /\ UNCHANGED <<now, terms, occ, token, accounted, runs, pc, claim, faults>>

\* The schedule and its PENDING occurrences are cancelled together.
CancelSchedule ==
    /\ Transition("CANCELLED")
    /\ occ' = [k \in Keys |-> IF occ[k] = "PENDING" THEN "CANCELLED" ELSE occ[k]]
    /\ UNCHANGED <<now, terms, next, origin, token, accounted, runs, pc, claim, faults>>

CancelOccurrence(k) ==
    /\ occ[k] = "PENDING"
    /\ occ' = [occ EXCEPT ![k] = "CANCELLED"]
    /\ UNCHANGED <<now, schedule, token, accounted, runs, pc, claim, faults>>

-----------------------------------------------------------------------------
(* Materialisation.                                                            *)

\* The slots that have elapsed at instant t.  A schedule without recurrence
\* has one slot.
ElapsedSlots(t) ==
    {s \in next..t : s <= terms.end /\ (OneTime => s = next)}

\* The slot after them: NoFire once the schedule is past its end.
NextFuture(t) ==
    IF next > t THEN next
    ELSE IF OneTime \/ t > terms.end THEN NoFire
    ELSE t + 1

First(S, n) == {s \in S : Cardinality({r \in S : r < s}) < n}
Last(S, n) == {s \in S : Cardinality({r \in S : r > s}) < n}

Bug_SelectNoCeiling(due) == IF terms.policy = "CATCH_UP_BOUNDED" THEN First(due, Batch) ELSE Last(due, 1)

\* The slots that get a row of their own.
Selected(due) ==
    IF terms.policy = "SKIP" THEN Last(due, Batch)
    ELSE IF terms.policy = "FIRE_ONCE" THEN Last(due, 1)
    ELSE First(First(due, terms.most), Batch)

SlotState(s) == IF terms.policy = "SKIP" \/ s \in Gaps THEN "SKIPPED" ELSE "PENDING"

\* add_occurrence; the key is unique, so an existing one fails the transaction.
AddOccurrences(S) ==
    /\ \A s \in S : occ[<<revision, s>>] = "none"
    /\ occ' = [k \in Keys |-> IF k[1] = revision /\ k[2] \in S THEN SlotState(k[2]) ELSE occ[k]]

RecordMisfireAccounting(S) == accounted' = accounted \cup S

\* A one-time schedule loses its cursor, a recurring one that is exhausted is
\* COMPLETED as well.
AdvanceCursor(t) ==
    /\ next' = IF OneTime THEN NoFire ELSE NextFuture(t)
    /\ IF ~OneTime /\ NextFuture(t) = NoFire
       THEN Transition("COMPLETED")
       ELSE UNCHANGED <<state, revision>>

(* The clock is read before the query that selects due schedules by a clock of *)
(* its own, and may have advanced in between (here by one).                    *)
MaterializeDue ==
    /\ state = "ACTIVE" /\ next # NoFire /\ next <= now
    /\ \E t \in {now} \cup (IF now > 0 THEN {now - 1} ELSE {}) :
         LET due == ElapsedSlots(t) IN
         /\ AddOccurrences(Selected(due))
         /\ RecordMisfireAccounting(due \ Selected(due))
         /\ AdvanceCursor(t)
    /\ UNCHANGED <<now, terms, origin, token, runs, pc, claim, faults>>

-----------------------------------------------------------------------------
(* Dispatch.                                                                   *)

Becomes(w, step) == pc' = [pc EXCEPT ![w] = step]
Idle(w) == Becomes(w, "idle") /\ claim' = [claim EXCEPT ![w] = NoClaim]

Due == {k \in Keys : occ[k] = "PENDING" /\ k[2] <= now}

Bug_ClaimAnew(w) ==
    /\ pc[w] = "idle" /\ state = "ACTIVE"
    /\ \E k \in {j \in Keys : occ[j] \in {"PENDING", "CLAIMED"} /\ j[2] <= now} :
         /\ occ' = [occ EXCEPT ![k] = "CLAIMED"]
         /\ token' = [token EXCEPT ![k] = @ + 1]
         /\ claim' = [claim EXCEPT ![w] = [key |-> k, token |-> token[k] + 1]]
    /\ Becomes(w, "claimed")
    /\ UNCHANGED <<now, schedule, accounted, runs, faults>>

\* claim_due takes the oldest occurrence whose row is not locked: any one.
ClaimDue(w) ==
    /\ pc[w] = "idle" /\ state = "ACTIVE"
    /\ \E k \in Due :
         /\ occ' = [occ EXCEPT ![k] = "CLAIMED"]
         /\ token' = [token EXCEPT ![k] = @ + 1]
         /\ claim' = [claim EXCEPT ![w] = [key |-> k, token |-> token[k] + 1]]
    /\ Becomes(w, "claimed")
    /\ UNCHANGED <<now, schedule, accounted, runs, faults>>

\* The comparison in the updates of begin, finish and fail_dispatch.
Authorized(w) == occ[claim[w].key] = "CLAIMED" /\ token[claim[w].key] = claim[w].token

BeginDispatch(w) ==
    /\ pc[w] = "claimed"
    /\ IF Authorized(w) THEN Becomes(w, "begun") /\ UNCHANGED claim ELSE Idle(w)
    /\ UNCHANGED <<now, schedule, occ, token, accounted, runs, faults>>

\* The key of the run is the occurrence's: a second call returns the first run.
StartsRun(w) == runs' = [runs EXCEPT ![claim[w].key] = IF @ = 0 THEN 1 ELSE @]

(* The call of the workflow engine: it answers, refuses, or commits the run    *)
(* and loses the connection, which reaches the caller as a refusal.            *)
StartRun(w) ==
    /\ pc[w] = "begun"
    /\ \/ StartsRun(w) /\ Becomes(w, "accepted") /\ UNCHANGED faults
       \/ UNCHANGED <<runs, faults>> /\ Becomes(w, "rejected")
       \/ Fault /\ StartsRun(w) /\ Becomes(w, "rejected")
    /\ UNCHANGED <<now, schedule, occ, token, accounted, claim>>

\* finish_dispatch and fail_dispatch complete a one-time schedule.
CompleteOneTime ==
    /\ IF OneTime /\ state = "ACTIVE" THEN Transition("COMPLETED") ELSE UNCHANGED <<state, revision>>
    /\ UNCHANGED <<terms, next, origin>>

\* The caller gets the answer, or loses it and dispatches the claim again.
Answered(w) ==
    \/ Idle(w) /\ UNCHANGED faults
    \/ Fault /\ Becomes(w, "claimed") /\ UNCHANGED claim

Settle(w, verdict) ==
    \/ /\ Authorized(w)
       /\ occ' = [occ EXCEPT ![claim[w].key] = verdict]
       /\ CompleteOneTime
       /\ Answered(w)
    \/ ~Authorized(w) /\ Idle(w) /\ UNCHANGED <<schedule, occ, faults>>

FinishDispatch(w) ==
    /\ pc[w] = "accepted" /\ Settle(w, "DISPATCHED")
    /\ UNCHANGED <<now, token, accounted, runs>>

FailDispatch(w) ==
    /\ pc[w] = "rejected" /\ Settle(w, "FAILED")
    /\ UNCHANGED <<now, token, accounted, runs>>

\* A transaction of dispatch_claim fails before it commits, or the process
\* dies: the claim is dispatched once more, or forgotten.
DispatchRaises(w) ==
    /\ Fault /\ pc[w] # "idle"
    /\ Idle(w) \/ (Becomes(w, "claimed") /\ UNCHANGED claim)
    /\ UNCHANGED <<now, schedule, occ, token, accounted, runs>>

-----------------------------------------------------------------------------
Tick ==
    /\ \/ now < Horizon /\ now' = now + 1 /\ UNCHANGED faults
       \/ Fault /\ now > 0 /\ now' = now - 1
    /\ UNCHANGED <<schedule, occ, token, accounted, runs, pc, claim>>

Control ==
    \/ UpdateSchedule \/ ActivateSchedule \/ PauseSchedule \/ ResumeSchedule \/ CancelSchedule
    \/ \E k \in Keys : CancelOccurrence(k)

Dispatch(w) ==
    \/ ClaimDue(w) \/ BeginDispatch(w) \/ StartRun(w)
    \/ FinishDispatch(w) \/ FailDispatch(w) \/ DispatchRaises(w)

Next == Control \/ MaterializeDue \/ Tick \/ \E w \in Workers : Dispatch(w)

Spec == Init /\ [][Next]_vars

-----------------------------------------------------------------------------
ScheduleStates == DOMAIN ScheduleTransitions
Open == {"PENDING", "CLAIMED"}
Terminal == {"DISPATCHED", "FAILED", "SKIPPED", "CANCELLED"}

(* The rows hold what their check constraints allow, a worker that is not idle *)
(* holds a claim of an occurrence that was claimed.                            *)
TypeOK ==
    /\ now \in 0..Horizon /\ faults \in 0..MaxFaults
    /\ state \in ScheduleStates /\ revision \in Nat \ {0} /\ origin \in Nat \ {0}
    /\ terms \in Offers /\ next \in 0..(Horizon + 1)
    /\ occ \in [Keys -> {"none"} \cup Open \cup Terminal]
    /\ token \in [Keys -> Nat] /\ runs \in [Keys -> Nat]
    /\ accounted \subseteq 1..Horizon
    /\ pc \in [Workers -> {"idle", "claimed", "begun", "accepted", "rejected"}]
    /\ claim \in [Workers -> Claims \cup {NoClaim}]
    /\ \A w \in Workers : (pc[w] = "idle") <=> (claim[w] = NoClaim)
    /\ \A w \in Workers : pc[w] # "idle" => claim[w].token \in 1..token[claim[w].key]

Materialized(s) == \E k \in Keys : k[2] = s /\ occ[k] # "none"
Represented(s) == s \in accounted \/ Materialized(s)

(* "next_fire_at never advances across an unaccounted elapsed range": whatever *)
(* the order of ticks, edits, pauses and materialisations, every slot of a     *)
(* recurring schedule before its cursor has a row or is in a misfire summary,  *)
(* and so has every slot of its window once materialize_due completed it.      *)
EverySlotAccounted ==
    ~OneTime =>
      /\ next # NoFire => \A s \in terms.start..(next - 1) : Represented(s)
      /\ state = "COMPLETED" => \A s \in terms.start..terms.end : Represented(s)

(* As long as the cursor only advances, a slot gets one occurrence, whatever   *)
(* the pauses and resumes that change the revision in its key.                 *)
OneOccurrencePerSlot ==
    \A j, k \in Keys :
        /\ j[1] >= origin /\ k[1] >= origin /\ j[2] = k[2]
        /\ occ[j] # "none" /\ occ[k] # "none"
        => j = k

(* add_occurrence never meets the unique key: materialize_due would fail on it *)
(* at every call and the schedule would fire no more.                          *)
KeysAreFree ==
    state = "ACTIVE" /\ next # NoFire =>
        \A k \in Keys : k[1] = revision /\ k[2] >= next => occ[k] = "none"

(* A run exists only for an occurrence that was claimed and is not withdrawn,  *)
(* there is one of it however often the claim was dispatched, and DISPATCHED   *)
(* means that there is one.                                                    *)
RunsAreOwned ==
    \A k \in Keys :
        /\ runs[k] <= 1
        /\ runs[k] = 1 => occ[k] \in {"CLAIMED", "DISPATCHED", "FAILED"}
        /\ occ[k] = "DISPATCHED" => runs[k] = 1

(* INV-SCHED-005: at most one worker may dispatch an occurrence.               *)
OneDispatcher ==
    \A v, w \in Workers :
        /\ pc[v] # "idle" /\ pc[w] # "idle" /\ claim[v].key = claim[w].key
        /\ Authorized(v) /\ Authorized(w)
        => v = w

(* Once cancel_schedule has committed, nothing of the schedule is left to      *)
(* claim, and no materialisation that raced it adds anything.                  *)
CancelledHasNoBacklog ==
    state = "CANCELLED" => \A k \in Keys : occ[k] # "PENDING"

(* INV-SCHED-007, misfire policy: one transaction makes at most max_catch_up   *)
(* slots dispatchable, however many have elapsed.                              *)
CatchUpBounded ==
    [][Cardinality({k \in Keys : occ[k] # "PENDING" /\ occ'[k] = "PENDING"}) <= terms.most]_vars

(* INV-SCHED-009: schedules that ended do not reactivate, occurrences that     *)
(* ended keep their verdict, and nobody but its claimant ends a CLAIMED one.   *)
TerminalAbsorbs ==
    [][/\ state \in {"COMPLETED", "CANCELLED"} => state' = state
       /\ \A k \in Keys :
            /\ occ[k] \in Terminal => occ'[k] = occ[k]
            /\ occ[k] = "CLAIMED" => occ'[k] \in {"CLAIMED", "DISPATCHED", "FAILED"}]_vars

Phase(s) ==
    IF s = "none" THEN "closed"
    ELSE IF s = "PENDING" THEN "open"
    ELSE IF s = "CLAIMED" THEN "held"
    ELSE "done"

Ledger == INSTANCE FencedClaim WITH
    Items <- Keys, phase <- [k \in Keys |-> Phase(occ[k])], holder <- token, issued <- token

(* The occurrences implement the fenced claim of FencedClaim: a CLAIMED row    *)
(* is drawn once and ends only by the write of the token that holds it.        *)
OccurrencesAreFencedClaims == Ledger!Spec

-----------------------------------------------------------------------------
(* What the documents say and the code does not keep.                          *)

(* The same for a one-time schedule: once it is ACTIVE without a cursor, its   *)
(* slot has been materialised.                                                 *)
(* The code does not keep it (README, Divergences).                            *)
OneTimeSlotAccounted ==
    OneTime /\ state = "ACTIVE" /\ next = NoFire => Represented(terms.start)

(* "ONE_TIME: exactly one future UTC occurrence."                              *)
(* The code does not keep it (README, Divergences).                            *)
OneTimeFiresOnce ==
    OneTime => \A j, k \in Keys : occ[j] # "none" /\ occ[k] # "none" => j = k

(* "Schedule edits create a new revision and recompute only future,            *)
(* non-materialized slots": a slot whose workflow was started is not made      *)
(* dispatchable again.                                                         *)
(* The code does not keep it (README, Divergences).                            *)
EditsKeepTheMaterialized ==
    [][\A j, k \in Keys :
         occ[j] = "DISPATCHED" /\ occ[k] = "none" /\ occ'[k] = "PENDING" => j[2] # k[2]]_vars

(* What the policies call a dispatchable occurrence can be claimed: the        *)
(* schedule it belongs to is not COMPLETED.                                    *)
(* The code does not keep it (README, Divergences).                            *)
PendingCanBeClaimed ==
    state = "COMPLETED" => \A k \in Keys : occ[k] # "PENDING"

(* "Exclusive end": no slot at or after end_at is materialised.                *)
(* The code does not keep it (README, Divergences).                            *)
EndIsExclusive ==
    [][\A k \in Keys : occ[k] = "none" /\ occ'[k] # "none" => k[2] < terms.end]_vars

(* "COMPLETED means a one-time schedule has reached a terminal occurrence."    *)
(* The code does not keep it (README, Divergences).                            *)
OneTimeEnds ==
    OneTime /\ (\E k \in Keys : occ[k] \in Terminal) => state # "ACTIVE"

(* "A claim that becomes ambiguous remains CLAIMED": an occurrence whose       *)
(* workflow was started is not reported as FAILED.                             *)
(* The code does not keep it (README, Divergences).                            *)
FailedHasNoRun == \A k \in Keys : occ[k] = "FAILED" => runs[k] = 0

(* Every slot is kept, once: none is passed over, none is materialised twice   *)
(* while the cursor advances, none meets a key in use, and a cancelled         *)
(* schedule leaves none behind.                                                *)
SlotsAreKept ==
    TypeOK /\ EverySlotAccounted /\ OneOccurrencePerSlot /\ KeysAreFree /\ CancelledHasNoBacklog

(* An occurrence is dispatched by the one worker that holds its claim, has one *)
(* run at most, and ends once: its rows are a ledger of fenced claims.         *)
DispatchIsFenced ==
    /\ [](RunsAreOwned /\ OneDispatcher)
    /\ TerminalAbsorbs
    /\ OccurrencesAreFencedClaims
=============================================================================
