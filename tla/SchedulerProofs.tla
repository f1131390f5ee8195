--------------------------- MODULE SchedulerProofs ---------------------------
(* Safety of the scheduler for all terms, horizons, batches, numbers of edits, *)
(* workers and faults.                                                         *)
EXTENDS Scheduler, TLAPS

\* A key is a revision and a slot.
LEMMA KeyParts ==
    /\ \A k \in Keys : k[1] \in 1..(MaxRevision + 1) /\ k[2] \in 1..Horizon /\ k = <<k[1], k[2]>>
    /\ \A r \in 1..(MaxRevision + 1), s \in 1..Horizon :
         <<r, s>> \in Keys /\ <<r, s>>[1] = r /\ <<r, s>>[2] = s
  BY SchedulerAssumption DEF Keys

\* What a worker that is not idle holds is the claim of a key.
LEMMA HeldClaim ==
    ASSUME TypeOK, NEW w \in Workers, pc[w] # "idle"
    PROVE  claim[w] \in Claims /\ claim[w].key \in Keys /\ claim[w].token \in Nat
  BY DEF TypeOK, Claims

LEMMA NoClaimIsNone == NoClaim \notin Claims
  <1> SUFFICES ASSUME NoClaim \in Claims PROVE FALSE
    OBVIOUS
  <1>1. <<0, 0>> \in Keys
    BY DEF NoClaim, Claims
  <1>2. <<0, 0>>[1] \in 1..(MaxRevision + 1)
    BY <1>1, KeyParts
  <1> QED BY <1>2, SchedulerAssumption

\* The rows of the schedule and of its occurrences are typed.
RowsOK ==
    /\ now \in 0..Horizon /\ faults \in 0..MaxFaults
    /\ state \in ScheduleStates /\ revision \in Nat \ {0} /\ origin \in Nat \ {0}
    /\ terms \in Offers /\ next \in 0..(Horizon + 1)
    /\ occ \in [Keys -> {"none"} \cup Open \cup Terminal]
    /\ token \in [Keys -> Nat] /\ runs \in [Keys -> Nat]
    /\ accounted \subseteq 1..Horizon

\* The workers' side of the type invariant.
WorkersOK ==
    /\ pc \in [Workers -> {"idle", "claimed", "begun", "accepted", "rejected"}]
    /\ claim \in [Workers -> Claims \cup {NoClaim}]
    /\ \A w \in Workers : (pc[w] = "idle") <=> (claim[w] = NoClaim)
    /\ \A w \in Workers : pc[w] # "idle" => claim[w].token \in 1..token[claim[w].key]

LEMMA TypeOKParts == TypeOK <=> RowsOK /\ WorkersOK
  BY DEF TypeOK, RowsOK, WorkersOK

\* The slots that are selected have elapsed.
LEMMA SelectedElapsed ==
    ASSUME RowsOK, NEW t \in 0..Horizon
    PROVE  /\ ElapsedSlots(t) \subseteq next..t
           /\ Selected(ElapsedSlots(t)) \subseteq ElapsedSlots(t)
           /\ NextFuture(t) \in 0..(Horizon + 1)
  <1>1. ElapsedSlots(t) \subseteq next..t
    BY DEF ElapsedSlots
  <1>2. \A S, n : First(S, n) \subseteq S /\ Last(S, n) \subseteq S
    BY DEF First, Last
  <1>4. Selected(ElapsedSlots(t)) \subseteq ElapsedSlots(t)
    <2>1. First(First(ElapsedSlots(t), terms.most), Batch) \subseteq First(ElapsedSlots(t), terms.most)
      BY <1>2
    <2>2. First(ElapsedSlots(t), terms.most) \subseteq ElapsedSlots(t)
      BY <1>2
    <2> QED BY <1>2, <2>1, <2>2 DEF Selected
  <1>5. NextFuture(t) \in 0..(Horizon + 1)
    BY SchedulerAssumption DEF NextFuture, RowsOK, NoFire
  <1> QED BY <1>1, <1>4, <1>5

-----------------------------------------------------------------------------
(* Types.                                                                      *)

\* What the steps of the schedule do to the workers: nothing.
Elsewhere == UNCHANGED <<token, pc, claim>>

LEMMA ControlTypes == ASSUME TypeOK, Control PROVE TypeOK'
  <1>1. RowsOK /\ WorkersOK
    BY TypeOKParts
  <1>2. Elsewhere
    BY DEF Control, UpdateSchedule, ActivateSchedule, PauseSchedule, ResumeSchedule,
           CancelSchedule, CancelOccurrence, Elsewhere
  <1>3. WorkersOK'
    BY <1>1, <1>2 DEF WorkersOK, Elsewhere
  <1>4. RowsOK'
    <2> USE <1>1, SchedulerAssumption
        DEF RowsOK, ScheduleStates, ScheduleTransitions, Transition, TermsOk
    <2>1. CASE UpdateSchedule
      BY <2>1 DEF UpdateSchedule, NoFire
    <2>2. CASE ActivateSchedule
      BY <2>2 DEF ActivateSchedule
    <2>3. CASE PauseSchedule
      BY <2>3 DEF PauseSchedule
    <2>4. CASE ResumeSchedule
      BY <2>4 DEF ResumeSchedule
    <2>5. CASE CancelSchedule
      BY <2>5 DEF CancelSchedule, Open, Terminal
    <2>6. ASSUME NEW k \in Keys, CancelOccurrence(k) PROVE RowsOK'
      BY <2>6 DEF CancelOccurrence, schedule, Open, Terminal
    <2> QED BY <2>1, <2>2, <2>3, <2>4, <2>5, <2>6 DEF Control
  <1> QED BY <1>3, <1>4 DEF TypeOK, RowsOK, WorkersOK

\* What materialize_due does, with the instant it read.
LEMMA MaterializeShape ==
    ASSUME TypeOK, MaterializeDue
    PROVE  \E t \in 0..Horizon :
             /\ t <= now
             /\ AddOccurrences(Selected(ElapsedSlots(t)))
             /\ RecordMisfireAccounting(ElapsedSlots(t) \ Selected(ElapsedSlots(t)))
             /\ AdvanceCursor(t)
  <1>1. PICK t \in {now} \cup (IF now > 0 THEN {now - 1} ELSE {}) :
             /\ AddOccurrences(Selected(ElapsedSlots(t)))
             /\ RecordMisfireAccounting(ElapsedSlots(t) \ Selected(ElapsedSlots(t)))
             /\ AdvanceCursor(t)
    BY DEF MaterializeDue
  <1>2. t \in 0..Horizon /\ t <= now
    BY SchedulerAssumption DEF TypeOK
  <1> QED BY <1>1, <1>2

LEMMA MaterializeTypes == ASSUME TypeOK, MaterializeDue PROVE TypeOK'
  <1>1. RowsOK /\ WorkersOK
    BY TypeOKParts
  <1>2. PICK t \in 0..Horizon :
             /\ AddOccurrences(Selected(ElapsedSlots(t)))
             /\ RecordMisfireAccounting(ElapsedSlots(t) \ Selected(ElapsedSlots(t)))
             /\ AdvanceCursor(t)
    BY MaterializeShape
  <1>3. /\ UNCHANGED <<now, terms, origin, token, runs, pc, claim, faults>>
        /\ next \in 1..Horizon
    BY <1>1, SchedulerAssumption DEF MaterializeDue, RowsOK, NoFire
  <1>4. WorkersOK'
    BY <1>1, <1>3 DEF WorkersOK
  <1>5. occ' \in [Keys -> {"none"} \cup Open \cup Terminal]
    BY <1>1, <1>2 DEF AddOccurrences, SlotState, RowsOK, Open, Terminal
  <1>6. accounted' \subseteq 1..Horizon
    <2>1. ElapsedSlots(t) \subseteq next..t
      BY <1>1, SelectedElapsed
    <2>2. next..t \subseteq 1..Horizon
      BY <1>3, SchedulerAssumption
    <2> QED BY <1>1, <1>2, <2>1, <2>2, Zenon DEF RecordMisfireAccounting, RowsOK
  <1>7. next' \in 0..(Horizon + 1)
    BY <1>1, <1>2, SelectedElapsed, SchedulerAssumption DEF AdvanceCursor, NoFire
  <1>8. state' \in ScheduleStates /\ revision' \in Nat \ {0}
    BY <1>1, <1>2 DEF AdvanceCursor, Transition, ScheduleStates, ScheduleTransitions, RowsOK
  <1>9. RowsOK'
    BY <1>1, <1>3, <1>5, <1>6, <1>7, <1>8 DEF RowsOK
  <1> QED BY <1>4, <1>9 DEF TypeOK, RowsOK, WorkersOK

\* Ending or restarting the dispatch of a claim keeps the workers' types.
LEMMA WorkerMoves ==
    ASSUME WorkersOK, UNCHANGED token, NEW w \in Workers,
           \/ Idle(w)
           \/ /\ pc[w] # "idle" /\ UNCHANGED claim
              /\ \E step \in {"claimed", "begun", "accepted", "rejected"} : Becomes(w, step)
    PROVE  WorkersOK'
  <1>1. CASE Idle(w)
    <2>1. \A v \in Workers \ {w} : pc'[v] = pc[v] /\ claim'[v] = claim[v]
      BY <1>1 DEF WorkersOK, Idle, Becomes
    <2>2. pc'[w] = "idle" /\ claim'[w] = NoClaim
      BY <1>1 DEF WorkersOK, Idle, Becomes
    <2>3. /\ pc' \in [Workers -> {"idle", "claimed", "begun", "accepted", "rejected"}]
          /\ claim' \in [Workers -> Claims \cup {NoClaim}]
      BY <1>1 DEF WorkersOK, Idle, Becomes
    <2> QED BY <2>1, <2>2, <2>3 DEF WorkersOK
  <1>2. CASE /\ pc[w] # "idle" /\ UNCHANGED claim
             /\ \E step \in {"claimed", "begun", "accepted", "rejected"} : Becomes(w, step)
    BY <1>2 DEF WorkersOK, Becomes
  <1> QED BY <1>1, <1>2

LEMMA DispatchTypes == ASSUME TypeOK, NEW w \in Workers, Dispatch(w) PROVE TypeOK'
  <1>1. RowsOK /\ WorkersOK
    BY TypeOKParts
  <1> SUFFICES RowsOK' /\ WorkersOK'
    BY DEF TypeOK, RowsOK, WorkersOK
  <1>2. pc[w] # "idle" => claim[w].key \in Keys
    BY HeldClaim
  <1>3. CASE ClaimDue(w)
    <2>1. PICK k \in Keys :
            /\ occ' = [occ EXCEPT ![k] = "CLAIMED"]
            /\ token' = [token EXCEPT ![k] = @ + 1]
            /\ claim' = [claim EXCEPT ![w] = [key |-> k, token |-> token[k] + 1]]
      BY <1>3, Zenon DEF ClaimDue, Due
    <2>2. RowsOK'
      BY <1>1, <1>3, <2>1 DEF ClaimDue, RowsOK, schedule, Open, Terminal
    <2>3. /\ [key |-> k, token |-> token[k] + 1] \in Claims
          /\ [key |-> k, token |-> token[k] + 1] # NoClaim
      BY <1>1, NoClaimIsNone DEF Claims, RowsOK
    <2>4. pc' = [pc EXCEPT ![w] = "claimed"]
      BY <1>3 DEF ClaimDue, Becomes
    <2>5. /\ pc' \in [Workers -> {"idle", "claimed", "begun", "accepted", "rejected"}]
          /\ claim' \in [Workers -> Claims \cup {NoClaim}]
      BY <1>1, <2>1, <2>3, <2>4 DEF WorkersOK
    <2>6. \A v \in Workers : (pc'[v] = "idle") <=> (claim'[v] = NoClaim)
      BY <1>1, <2>1, <2>3, <2>4 DEF WorkersOK
    <2>7. ASSUME NEW v \in Workers, pc'[v] # "idle"
          PROVE  claim'[v].token \in 1..token'[claim'[v].key]
      <3>1. CASE v = w
        BY <1>1, <2>1, <3>1 DEF WorkersOK, RowsOK
      <3>2. CASE v # w
        <4>1. pc[v] # "idle" /\ claim'[v] = claim[v]
          BY <1>1, <2>1, <2>4, <2>7, <3>2 DEF WorkersOK
        <4>2. claim[v].key \in Keys /\ claim[v].token \in 1..token[claim[v].key]
          BY <1>1, <4>1, HeldClaim DEF WorkersOK
        <4> QED BY <1>1, <2>1, <4>1, <4>2 DEF RowsOK
      <3> QED BY <3>1, <3>2
    <2>8. WorkersOK'
      BY <2>5, <2>6, <2>7 DEF WorkersOK
    <2> QED BY <2>2, <2>8
  <1>4. CASE BeginDispatch(w)
    <2>1. RowsOK' /\ UNCHANGED token
      BY <1>1, <1>4 DEF BeginDispatch, RowsOK, schedule
    <2> QED BY <1>1, <1>4, <2>1, WorkerMoves DEF BeginDispatch
  <1>5. CASE StartRun(w)
    <2>1. RowsOK' /\ UNCHANGED token
      BY <1>1, <1>2, <1>5, SchedulerAssumption DEF StartRun, StartsRun, Fault, RowsOK, schedule
    <2> QED BY <1>1, <1>5, <2>1, WorkerMoves DEF StartRun
  <1>6. CASE FinishDispatch(w) \/ FailDispatch(w)
    <2>1. pc[w] # "idle" /\ UNCHANGED <<now, token, accounted, runs>>
      BY <1>6 DEF FinishDispatch, FailDispatch
    <2>2. PICK verdict \in {"DISPATCHED", "FAILED"} : Settle(w, verdict)
      BY <1>6 DEF FinishDispatch, FailDispatch
    <2>3. RowsOK'
      BY <1>1, <1>2, <2>1, <2>2, SchedulerAssumption
      DEF Settle, Answered, CompleteOneTime, Transition, Fault, RowsOK, schedule, Open, Terminal,
          ScheduleStates, ScheduleTransitions
    <2> QED BY <1>1, <2>1, <2>2, <2>3, WorkerMoves DEF Settle, Answered
  <1>7. CASE DispatchRaises(w)
    <2>1. RowsOK' /\ UNCHANGED token
      BY <1>1, <1>7, SchedulerAssumption DEF DispatchRaises, Fault, RowsOK, schedule
    <2> QED BY <1>1, <1>7, <2>1, WorkerMoves DEF DispatchRaises
  <1> QED BY <1>3, <1>4, <1>5, <1>6, <1>7 DEF Dispatch

\* Every step keeps the types.
LEMMA NextTypeOK == ASSUME TypeOK, [Next]_vars PROVE TypeOK'
  <1>1. CASE Tick
    BY <1>1, SchedulerAssumption DEF Tick, Fault, schedule, TypeOK
  <1>2. CASE UNCHANGED vars
    BY <1>2 DEF vars, schedule, TypeOK
  <1> QED BY <1>1, <1>2, ControlTypes, MaterializeTypes, DispatchTypes DEF Next

-----------------------------------------------------------------------------
(* The cursor.                                                                 *)

\* Revisions stay within the keys while the schedule can still fire.
RevisionBound ==
    /\ origin <= revision
    /\ state \in {"DRAFT", "PAUSED"} => revision <= MaxRevision
    /\ state = "ACTIVE" => revision <= MaxRevision + 1

\* No occurrence has a revision the schedule has not reached.
KeysPast == \A k \in Keys : occ[k] # "none" => k[1] <= revision

\* What was materialised since the cursor was set lies before the cursor.
BehindCursor ==
    next # NoFire => \A k \in Keys : k[1] >= origin /\ occ[k] # "none" => k[2] < next

\* The inductive invariant of the schedule's side.
CInv ==
    /\ TypeOK /\ RevisionBound /\ KeysPast /\ BehindCursor
    /\ EverySlotAccounted /\ OneOccurrencePerSlot /\ CancelledHasNoBacklog

\* A step that neither adds nor removes a row, and makes none claimable.
SameRows ==
    /\ accounted' = accounted
    /\ \A k \in Keys : /\ (occ'[k] = "none") <=> (occ[k] = "none")
                       /\ occ'[k] = "PENDING" => occ[k] = "PENDING"

\* Only materialize_due adds occurrences and misfire summaries.
LEMMA OnlyMaterializeAdds ==
    ASSUME TypeOK, Control \/ Tick \/ (\E w \in Workers : Dispatch(w)) \/ UNCHANGED vars
    PROVE  SameRows
  <1>1. CASE Control
    BY <1>1 DEF Control, UpdateSchedule, ActivateSchedule, PauseSchedule, ResumeSchedule,
                CancelSchedule, CancelOccurrence, SameRows, TypeOK
  <1>2. CASE Tick \/ UNCHANGED vars
    BY <1>2 DEF Tick, vars, SameRows
  <1>3. ASSUME NEW w \in Workers, Dispatch(w) PROVE SameRows
    <2>1. CASE ClaimDue(w)
      BY <2>1 DEF ClaimDue, Due, SameRows, TypeOK
    <2>2. CASE BeginDispatch(w) \/ StartRun(w) \/ DispatchRaises(w)
      BY <2>2 DEF BeginDispatch, StartRun, DispatchRaises, SameRows
    <2>3. CASE FinishDispatch(w) \/ FailDispatch(w)
      <3>1. PICK verdict \in {"DISPATCHED", "FAILED"} : Settle(w, verdict) /\ pc[w] # "idle"
        BY <2>3 DEF FinishDispatch, FailDispatch
      <3>2. claim[w].key \in Keys /\ accounted' = accounted
        BY <2>3, <3>1, HeldClaim DEF FinishDispatch, FailDispatch
      <3> QED BY <3>1, <3>2 DEF Settle, Authorized, SameRows, TypeOK
    <2> QED BY <1>3, <2>1, <2>2, <2>3 DEF Dispatch
  <1> QED BY <1>1, <1>2, <1>3

\* What is represented stays represented, whatever is added.
LEMMA StaysRepresented ==
    ASSUME accounted \subseteq accounted', \A k \in Keys : occ[k] # "none" => occ'[k] # "none"
    PROVE  \A s : Represented(s) => Represented(s)'
  BY DEF Represented, Materialized

\* A step that keeps the rows keeps the invariant if it moves the schedule
\* as transition_schedule does.
LEMMA QuietStep ==
    ASSUME CInv, TypeOK', SameRows,
           \/ UNCHANGED schedule
           \/ OneTime /\ Transition("COMPLETED") /\ UNCHANGED <<terms, next, origin>>
    PROVE  CInv'
  <1> USE DEF CInv
  <1>1. \A s : Represented(s) => Represented(s)'
    BY StaysRepresented DEF SameRows
  <1>2. /\ UNCHANGED <<terms, next, origin>>
        /\ revision' >= revision
        /\ state' # state => OneTime /\ state' = "COMPLETED"
        /\ revision' # revision => state' = "COMPLETED"
    BY DEF schedule, Transition, TypeOK
  <1>3. RevisionBound' /\ KeysPast'
    BY <1>2, KeyParts DEF RevisionBound, KeysPast, SameRows, TypeOK
  <1>4. BehindCursor' /\ OneOccurrencePerSlot'
    BY <1>2 DEF BehindCursor, OneOccurrencePerSlot, SameRows
  <1>5. EverySlotAccounted'
    BY <1>1, <1>2 DEF EverySlotAccounted
  <1>6. CancelledHasNoBacklog'
    BY <1>2 DEF CancelledHasNoBacklog, SameRows
  <1> QED BY <1>3, <1>4, <1>5, <1>6

LEMMA ControlCursor == ASSUME CInv, TypeOK', Control PROVE CInv'
  <1> USE DEF CInv
  <1>1. SameRows
    BY OnlyMaterializeAdds
  <1>2. \A s : Represented(s) => Represented(s)'
    BY <1>1, StaysRepresented DEF SameRows
  <1>3. state \in ScheduleStates /\ revision \in Nat /\ origin \in Nat /\ MaxRevision \in Nat
    BY SchedulerAssumption DEF TypeOK
  <1>4. CASE UpdateSchedule
    <2>1. RevisionBound' /\ KeysPast'
      BY <1>1, <1>3, <1>4, KeyParts DEF UpdateSchedule, RevisionBound, KeysPast, SameRows
    <2>2. BehindCursor' /\ EverySlotAccounted' /\ CancelledHasNoBacklog'
      BY <1>4 DEF UpdateSchedule, BehindCursor, EverySlotAccounted, CancelledHasNoBacklog
    <2>3. OneOccurrencePerSlot'
      BY <1>1, <1>4 DEF UpdateSchedule, OneOccurrencePerSlot, SameRows
    <2> QED BY <2>1, <2>2, <2>3
  <1>5. CASE ActivateSchedule \/ (ResumeSchedule /\ next = NoFire)
    <2>1. /\ state \in {"DRAFT", "PAUSED"} /\ state' = "ACTIVE"
          /\ revision' = revision + 1 /\ origin' = revision'
          /\ next' = terms.start /\ terms' = terms
      BY <1>5 DEF ActivateSchedule, ResumeSchedule, Transition
    <2>2. \A k \in Keys : occ'[k] # "none" => k[1] < origin'
      BY <1>1, <1>3, <2>1, KeyParts DEF KeysPast, SameRows
    <2>3. RevisionBound' /\ KeysPast'
      BY <1>3, <2>1, <2>2, KeyParts DEF RevisionBound, KeysPast
    <2>4. BehindCursor' /\ OneOccurrencePerSlot'
      BY <1>3, <2>1, <2>2, KeyParts DEF BehindCursor, OneOccurrencePerSlot
    <2>5. EverySlotAccounted' /\ CancelledHasNoBacklog'
      <3>1. terms.start \in Nat
        BY SchedulerAssumption DEF TypeOK, TermsOk
      <3> QED BY <2>1, <3>1 DEF EverySlotAccounted, CancelledHasNoBacklog
    <2> QED BY <2>3, <2>4, <2>5
  <1>6. CASE PauseSchedule \/ (ResumeSchedule /\ next # NoFire)
    <2>1. /\ UNCHANGED <<terms, next, origin>> /\ revision' = revision + 1
          /\ \/ state = "ACTIVE" /\ state' = "PAUSED" /\ revision < MaxRevision
             \/ state = "PAUSED" /\ state' = "ACTIVE"
      BY <1>3, <1>6 DEF PauseSchedule, ResumeSchedule, Transition, ScheduleTransitions, ScheduleStates
    <2>2. RevisionBound' /\ KeysPast'
      BY <1>1, <1>3, <2>1, KeyParts DEF RevisionBound, KeysPast, SameRows
    <2>3. BehindCursor' /\ OneOccurrencePerSlot'
      BY <1>1, <2>1 DEF BehindCursor, OneOccurrencePerSlot, SameRows
    <2>4. EverySlotAccounted' /\ CancelledHasNoBacklog'
      BY <1>2, <2>1 DEF EverySlotAccounted, CancelledHasNoBacklog
    <2> QED BY <2>2, <2>3, <2>4
  <1>7. CASE CancelSchedule
    <2>1. /\ UNCHANGED <<terms, next, origin>> /\ revision' = revision + 1
          /\ state' = "CANCELLED" /\ \A k \in Keys : occ'[k] # "PENDING"
      BY <1>7 DEF CancelSchedule, Transition
    <2>2. RevisionBound' /\ KeysPast'
      BY <1>1, <1>3, <2>1, KeyParts DEF RevisionBound, KeysPast, SameRows
    <2>3. BehindCursor' /\ OneOccurrencePerSlot'
      BY <1>1, <2>1 DEF BehindCursor, OneOccurrencePerSlot, SameRows
    <2>4. EverySlotAccounted' /\ CancelledHasNoBacklog'
      BY <1>2, <2>1 DEF EverySlotAccounted, CancelledHasNoBacklog
    <2> QED BY <2>2, <2>3, <2>4
  <1>8. ASSUME NEW k \in Keys, CancelOccurrence(k) PROVE CInv'
    BY <1>1, <1>8, QuietStep DEF CancelOccurrence
  <1> QED BY <1>4, <1>5, <1>6, <1>7, <1>8 DEF Control

LEMMA MaterializeCursor == ASSUME CInv, TypeOK', MaterializeDue PROVE CInv'
  <1> USE DEF CInv
  <1>1. PICK t \in 0..Horizon :
             /\ AddOccurrences(Selected(ElapsedSlots(t)))
             /\ RecordMisfireAccounting(ElapsedSlots(t) \ Selected(ElapsedSlots(t)))
             /\ AdvanceCursor(t)
    BY MaterializeShape
  <1>2. PICK due : due = ElapsedSlots(t)
    OBVIOUS
  <1>3. PICK S : S = Selected(ElapsedSlots(t))
    OBVIOUS
  <1>4. /\ state = "ACTIVE" /\ next \in 1..Horizon /\ UNCHANGED <<terms, origin>>
        /\ revision \in 1..(MaxRevision + 1) /\ origin \in Nat /\ origin <= revision
        /\ MaxRevision \in Nat /\ Horizon \in Nat
    BY SchedulerAssumption DEF MaterializeDue, TypeOK, NoFire, RevisionBound
  <1>5. S \subseteq due /\ due \subseteq next..t /\ due \subseteq 1..Horizon
    <2>1. RowsOK
      BY TypeOKParts
    <2>2. next..t \subseteq 1..Horizon
      BY <1>4
    <2> QED BY <1>2, <1>3, <2>1, <2>2, SelectedElapsed
  <1>6. accounted' = accounted \cup (due \ S)
    BY <1>1, <1>2, <1>3 DEF RecordMisfireAccounting
  <1>7. \A k \in Keys :
          /\ k[1] = revision /\ k[2] \in S => occ'[k] # "none"
          /\ ~(k[1] = revision /\ k[2] \in S) => occ'[k] = occ[k]
    BY <1>1, <1>3 DEF AddOccurrences, SlotState
  <1>8. \A k \in Keys : occ[k] # "none" => occ'[k] # "none"
    BY <1>7
  <1>9. \A s : Represented(s) => Represented(s)'
    BY <1>6, <1>8, StaysRepresented
  <1>10. \A s \in due : Represented(s)'
    <2> SUFFICES ASSUME NEW s \in due PROVE Represented(s)'
      OBVIOUS
    <2>1. CASE s \in S
      <3>1. <<revision, s>> \in Keys /\ <<revision, s>>[1] = revision /\ <<revision, s>>[2] = s
        BY <1>4, <1>5, KeyParts
      <3>2. occ'[<<revision, s>>] # "none"
        BY <1>7, <2>1, <3>1
      <3> QED BY <3>1, <3>2 DEF Represented, Materialized
    <2>2. CASE s \notin S
      BY <1>6, <2>2 DEF Represented
    <2> QED BY <2>1, <2>2
  <1>11. /\ next' = IF OneTime THEN NoFire ELSE NextFuture(t)
         /\ \/ state' = state /\ revision' = revision
            \/ ~OneTime /\ NextFuture(t) = NoFire /\ state' = "COMPLETED" /\ revision' = revision + 1
         /\ ~OneTime /\ NextFuture(t) = NoFire => state' = "COMPLETED"
    BY <1>1, <1>4 DEF AdvanceCursor, Transition
  <1>12. RevisionBound'
    BY <1>4, <1>11 DEF RevisionBound
  <1>13. KeysPast'
    BY <1>4, <1>7, <1>11, KeyParts DEF KeysPast
  <1>14. BehindCursor'
    <2> SUFFICES ASSUME next' # NoFire, NEW k \in Keys, k[1] >= origin, occ'[k] # "none"
                 PROVE  k[2] < next'
      BY <1>4 DEF BehindCursor
    <2>1. next' = NextFuture(t) /\ next' >= next
      BY <1>4, <1>11 DEF NextFuture, NoFire
    <2>2. CASE k[1] = revision /\ k[2] \in S
      <3>1. k[2] \in next..t
        BY Zenon, <1>5, <2>2
      <3>2. next' = t + 1
        BY <1>4, <2>1, <3>1 DEF NextFuture, NoFire
      <3> QED BY <1>4, <3>1, <3>2
    <2>3. CASE ~(k[1] = revision /\ k[2] \in S)
      <3>1. k[2] < next
        BY <1>4, <1>7, <2>3 DEF BehindCursor, NoFire
      <3> QED BY <1>4, <2>1, <3>1, KeyParts DEF TypeOK
    <2> QED BY <2>2, <2>3
  <1>15. OneOccurrencePerSlot'
    <2> SUFFICES ASSUME NEW j \in Keys, NEW k \in Keys, j[1] >= origin, k[1] >= origin, j[2] = k[2],
                        occ'[j] # "none", occ'[k] # "none"
                 PROVE  j = k
      BY <1>4 DEF OneOccurrencePerSlot
    <2>1. \A i \in Keys : i[1] >= origin /\ occ[i] # "none" => i[2] \notin S
      BY <1>4, <1>5, KeyParts DEF BehindCursor, NoFire
    <2>2. CASE j[2] \in S
      BY <1>7, <2>1, <2>2, KeyParts
    <2>3. CASE j[2] \notin S
      BY <1>7, <2>3 DEF OneOccurrencePerSlot
    <2> QED BY <2>2, <2>3
  <1>16. EverySlotAccounted'
    <2> SUFFICES ASSUME ~OneTime
                 PROVE  /\ next' # NoFire => \A s \in terms.start..(next' - 1) : Represented(s)'
                        /\ state' = "COMPLETED" => \A s \in terms.start..terms.end : Represented(s)'
      BY <1>4 DEF EverySlotAccounted
    <2>1. terms.start \in Nat /\ terms.end \in Nat
      BY SchedulerAssumption DEF TypeOK, TermsOk
    <2>2. \A s \in terms.start..(next - 1) : Represented(s)'
      BY <1>4, <1>9 DEF EverySlotAccounted, NoFire
    <2>3. \A s \in next..t : s <= terms.end => s \in due
      BY <1>2 DEF ElapsedSlots
    <2>4. ASSUME next' # NoFire, NEW s \in terms.start..(next' - 1) PROVE Represented(s)'
      <3>1. next' = NextFuture(t)
        BY <1>11
      <3>2. CASE s < next
        BY <1>4, <2>1, <2>2, <2>4, <3>1, <3>2 DEF NextFuture, NoFire
      <3>3. CASE s >= next
        <4>1. s \in next..t /\ s <= terms.end
          BY <1>4, <2>1, <2>4, <3>1, <3>3 DEF NextFuture, NoFire
        <4> QED BY <1>10, <2>3, <4>1
      <3>4. s \in Nat /\ next \in Nat
        BY <1>4, <2>1
      <3> QED BY <3>2, <3>3, <3>4
    <2>5. ASSUME state' = "COMPLETED", NEW s \in terms.start..terms.end PROVE Represented(s)'
      <3>1. t > terms.end /\ next <= t
        BY <1>4, <1>11, <2>1, <2>5 DEF NextFuture, NoFire
      <3>2. CASE s < next
        BY <1>4, <2>1, <2>2, <2>5, <3>2
      <3>3. CASE s >= next
        BY <1>4, <1>10, <2>1, <2>3, <2>5, <3>1, <3>3
      <3>4. s \in Nat /\ next \in Nat
        BY <1>4, <2>1
      <3> QED BY <3>2, <3>3, <3>4
    <2> QED BY <2>4, <2>5
  <1>17. CancelledHasNoBacklog'
    BY <1>4, <1>11 DEF CancelledHasNoBacklog
  <1> QED BY <1>12, <1>13, <1>14, <1>15, <1>16, <1>17

\* The invariant of the schedule's side is inductive.
LEMMA InitCInv == Init => CInv
  <1> SUFFICES ASSUME Init PROVE CInv
    OBVIOUS
  <1>1. TypeOK
    BY SchedulerAssumption
    DEF Init, TypeOK, ScheduleStates, ScheduleTransitions, NoFire, Open, Terminal
  <1> QED BY <1>1, SchedulerAssumption
          DEF Init, CInv, RevisionBound, KeysPast, BehindCursor, EverySlotAccounted,
              OneOccurrencePerSlot, CancelledHasNoBacklog

LEMMA NextCInv == CInv /\ [Next]_vars => CInv'
  <1> SUFFICES ASSUME CInv, [Next]_vars PROVE CInv'
    OBVIOUS
  <1>1. TypeOK /\ TypeOK'
    BY NextTypeOK DEF CInv
  <1>2. CASE Control
    BY <1>1, <1>2, ControlCursor
  <1>3. CASE MaterializeDue
    BY <1>1, <1>3, MaterializeCursor
  <1>4. CASE Tick \/ UNCHANGED vars
    BY <1>1, <1>4, OnlyMaterializeAdds, QuietStep DEF Tick, vars
  <1>5. ASSUME NEW w \in Workers, Dispatch(w) PROVE CInv'
    <2>1. SameRows
      BY <1>1, <1>5, OnlyMaterializeAdds
    <2>2. \/ UNCHANGED schedule
          \/ OneTime /\ Transition("COMPLETED") /\ UNCHANGED <<terms, next, origin>>
      BY Zenon, <1>5
      DEF Dispatch, ClaimDue, BeginDispatch, StartRun, FinishDispatch, FailDispatch, DispatchRaises,
          Settle, CompleteOneTime, schedule
    <2> QED BY <1>1, <2>1, <2>2, QuietStep
  <1> QED BY <1>2, <1>3, <1>4, <1>5 DEF Next

-----------------------------------------------------------------------------
(* Dispatch.                                                                   *)

\* Whoever is dispatching an occurrence, it was claimed and not withdrawn.
Held ==
    \A w \in Workers : pc[w] # "idle" =>
        occ[claim[w].key] \in {"CLAIMED", "DISPATCHED", "FAILED"}

\* Two workers never hold claims of one occurrence.
OneHolder ==
    \A v, w \in Workers : pc[v] # "idle" /\ pc[w] # "idle" /\ claim[v].key = claim[w].key => v = w

\* A worker that was given a run has one.
AcceptedHasRun == \A w \in Workers : pc[w] = "accepted" => runs[claim[w].key] = 1

\* The inductive invariant of the workers' side.
DInv == TypeOK /\ Held /\ OneHolder /\ AcceptedHasRun /\ RunsAreOwned

\* What a step does to an occurrence: nothing, or one of these moves.
Moves(k) ==
    \/ occ'[k] = occ[k] /\ token'[k] = token[k]
    \/ occ[k] = "none" /\ occ'[k] \in {"PENDING", "SKIPPED"} /\ token'[k] = token[k]
    \/ occ[k] = "PENDING" /\ occ'[k] = "CANCELLED" /\ token'[k] = token[k]

\* Control and materialisation leave the workers alone and only make such
\* moves; so does the clock.
LEMMA AsideStep ==
    ASSUME TypeOK, Control \/ MaterializeDue \/ Tick \/ UNCHANGED vars
    PROVE  UNCHANGED <<pc, claim, runs, token>> /\ \A k \in Keys : Moves(k)
  <1>1. CASE Control
    BY <1>1 DEF Control, UpdateSchedule, ActivateSchedule, PauseSchedule, ResumeSchedule,
                CancelSchedule, CancelOccurrence, Moves, TypeOK
  <1>2. CASE MaterializeDue
    <2>1. PICK t \in 0..Horizon : AddOccurrences(Selected(ElapsedSlots(t)))
      BY Zenon, <1>2, MaterializeShape
    <2>2. PICK S : S = Selected(ElapsedSlots(t))
      OBVIOUS
    <2>3. UNCHANGED <<pc, claim, runs, token>>
      BY <1>2 DEF MaterializeDue
    <2>4. ASSUME NEW k \in Keys PROVE Moves(k)
      <3>1. CASE k[1] = revision /\ k[2] \in S
        <4>1. k = <<revision, k[2]>>
          BY <3>1, KeyParts
        <4>2. occ[k] = "none"
          BY <2>1, <2>2, <3>1, <4>1 DEF AddOccurrences
        <4>3. occ'[k] \in {"PENDING", "SKIPPED"}
          BY <2>1, <2>2, <3>1 DEF AddOccurrences, SlotState
        <4> QED BY <2>3, <4>2, <4>3 DEF Moves
      <3>2. CASE ~(k[1] = revision /\ k[2] \in S)
        BY <2>1, <2>2, <2>3, <3>2 DEF AddOccurrences, Moves
      <3> QED BY <3>1, <3>2
    <2> QED BY <2>3, <2>4
  <1>3. CASE Tick \/ UNCHANGED vars
    BY <1>3 DEF Tick, vars, Moves
  <1> QED BY <1>1, <1>2, <1>3

LEMMA AsideDInv ==
    ASSUME DInv, TypeOK', Control \/ MaterializeDue \/ Tick \/ UNCHANGED vars
    PROVE  DInv'
  <1> USE DEF DInv
  <1>1. UNCHANGED <<pc, claim, runs, token>> /\ \A k \in Keys : Moves(k)
    BY AsideStep
  <1>2. \A w \in Workers : pc[w] # "idle" => claim[w].key \in Keys
    BY HeldClaim
  <1>3. Held' /\ OneHolder' /\ AcceptedHasRun'
    BY <1>1, <1>2 DEF Held, OneHolder, AcceptedHasRun, Moves
  <1>4. RunsAreOwned'
    BY <1>1 DEF RunsAreOwned, Moves, TypeOK
  <1> QED BY <1>3, <1>4

LEMMA ClaimDInv == ASSUME DInv, TypeOK', NEW w \in Workers, ClaimDue(w) PROVE DInv'
  <1> USE DEF DInv
  <1>1. PICK k \in Keys :
          /\ occ[k] = "PENDING"
          /\ occ' = [occ EXCEPT ![k] = "CLAIMED"]
          /\ claim' = [claim EXCEPT ![w] = [key |-> k, token |-> token[k] + 1]]
    BY Zenon DEF ClaimDue, Due
  <1>2. pc[w] = "idle" /\ pc' = [pc EXCEPT ![w] = "claimed"] /\ runs' = runs
    BY DEF ClaimDue, Becomes
  <1>3. \A v \in Workers : pc[v] # "idle" => claim[v].key \in Keys /\ claim[v].key # k
    BY <1>1, HeldClaim DEF Held
  <1>4. claim'[w].key = k /\ pc'[w] = "claimed"
    BY <1>1, <1>2 DEF TypeOK
  <1>5. \A v \in Workers \ {w} : claim'[v] = claim[v] /\ pc'[v] = pc[v]
    BY <1>1, <1>2 DEF TypeOK
  <1>6. \A j \in Keys : occ'[j] = IF j = k THEN "CLAIMED" ELSE occ[j]
    BY <1>1 DEF TypeOK
  <1>7. Held'
    <2> SUFFICES ASSUME NEW v \in Workers, pc'[v] # "idle"
                 PROVE  occ'[claim'[v].key] \in {"CLAIMED", "DISPATCHED", "FAILED"}
      BY DEF Held
    <2>1. CASE v = w
      BY <1>4, <1>6, <2>1
    <2>2. CASE v # w
      <3>1. pc[v] # "idle" /\ claim'[v] = claim[v]
        BY <1>5, <2>2
      <3>2. occ'[claim[v].key] = occ[claim[v].key]
        BY <1>3, <1>6, <3>1
      <3> QED BY <3>1, <3>2 DEF Held
    <2> QED BY <2>1, <2>2
  <1>8. OneHolder'
    BY <1>3, <1>4, <1>5 DEF OneHolder
  <1>9. AcceptedHasRun'
    BY <1>2, <1>4, <1>5 DEF AcceptedHasRun
  <1>10. RunsAreOwned'
    <2> SUFFICES ASSUME NEW j \in Keys
                 PROVE  /\ runs[j] <= 1
                        /\ runs[j] = 1 => occ'[j] \in {"CLAIMED", "DISPATCHED", "FAILED"}
                        /\ occ'[j] = "DISPATCHED" => runs[j] = 1
      BY <1>2 DEF RunsAreOwned
    <2>1. CASE j = k
      BY <1>6, <2>1 DEF RunsAreOwned
    <2>2. CASE j # k
      BY <1>6, <2>2 DEF RunsAreOwned
    <2> QED BY <2>1, <2>2
  <1> QED BY <1>7, <1>8, <1>9, <1>10

\* What a worker does to the workers once it has its claim: it goes on with
\* the claim, or drops it.
Onward(w) ==
    /\ pc[w] # "idle" /\ token' = token
    /\ \A v \in Workers \ {w} : pc'[v] = pc[v] /\ claim'[v] = claim[v]
    /\ pc'[w] = "idle" \/ claim'[w] = claim[w]

LEMMA WorkerOnward ==
    ASSUME TypeOK, NEW w \in Workers, Dispatch(w), ~ClaimDue(w)
    PROVE  Onward(w)
  <1>1. CASE BeginDispatch(w)
    BY <1>1 DEF BeginDispatch, Onward, Idle, Becomes, TypeOK
  <1>2. CASE StartRun(w)
    BY <1>2 DEF StartRun, Onward, Becomes, TypeOK
  <1>3. CASE FinishDispatch(w) \/ FailDispatch(w)
    BY <1>3 DEF FinishDispatch, FailDispatch, Settle, Answered, Onward, Idle, Becomes, TypeOK
  <1>4. CASE DispatchRaises(w)
    BY <1>4 DEF DispatchRaises, Onward, Idle, Becomes, TypeOK
  <1> QED BY <1>1, <1>2, <1>3, <1>4 DEF Dispatch

LEMMA DispatchDInv == ASSUME DInv, TypeOK', NEW w \in Workers, Dispatch(w), ~ClaimDue(w) PROVE DInv'
  <1> USE DEF DInv
  <1>1. Onward(w)
    BY WorkerOnward
  <1>2. PICK k \in Keys : k = claim[w].key
    BY <1>1, HeldClaim DEF Onward
  <1>3. \A v \in Workers : pc[v] # "idle" => claim[v].key \in Keys
    BY HeldClaim
  <1>9. \A v \in Workers : pc'[v] # "idle" => pc[v] # "idle" /\ claim'[v].key = claim[v].key
    BY <1>1 DEF Onward
  <1>10. \A v \in Workers : v # w => pc'[v] = pc[v]
    BY <1>1 DEF Onward
  <1>4. OneHolder'
    BY <1>9 DEF OneHolder
  <1>5. CASE UNCHANGED <<occ, runs>> /\ pc'[w] # "accepted"
    <2>1. Held'
      BY <1>5, <1>9 DEF Held
    <2>2. AcceptedHasRun'
      BY <1>5, <1>9, <1>10 DEF AcceptedHasRun
    <2>3. RunsAreOwned'
      BY <1>5 DEF RunsAreOwned
    <2> QED BY <1>4, <2>1, <2>2, <2>3
  <1>6. CASE StartRun(w)
    <2>1. occ' = occ /\ (runs' = runs \/ runs' = [runs EXCEPT ![k] = IF @ = 0 THEN 1 ELSE @])
      BY <1>2, <1>6 DEF StartRun, StartsRun
    <2>2. pc'[w] = "accepted" => runs' = [runs EXCEPT ![k] = IF @ = 0 THEN 1 ELSE @]
      BY <1>2, <1>6 DEF StartRun, StartsRun, Becomes, TypeOK
    <2>7. occ[k] \in {"CLAIMED", "DISPATCHED", "FAILED"}
      BY <1>1, <1>2 DEF Held, Onward
    <2>8. runs[k] \in Nat /\ runs[k] <= 1
      BY DEF RunsAreOwned, TypeOK
    <2>3. runs[k] \in {0, 1}
      BY <2>8
    <2>4. \A j \in Keys : runs'[j] = runs[j] \/ (j = k /\ runs'[j] = 1)
      BY <2>1, <2>3 DEF TypeOK
    <2>9. Held'
      BY <1>9, <2>1 DEF Held
    <2>5. RunsAreOwned'
      <3> SUFFICES ASSUME NEW j \in Keys
                   PROVE  /\ runs'[j] <= 1
                          /\ runs'[j] = 1 => occ[j] \in {"CLAIMED", "DISPATCHED", "FAILED"}
                          /\ occ[j] = "DISPATCHED" => runs'[j] = 1
        BY <2>1 DEF RunsAreOwned
      <3>1. CASE runs'[j] = runs[j]
        BY <3>1 DEF RunsAreOwned
      <3>2. CASE j = k /\ runs'[j] = 1
        BY <2>7, <3>2
      <3> QED BY <2>4, <3>1, <3>2
    <2>6. AcceptedHasRun'
      <3> SUFFICES ASSUME NEW v \in Workers, pc'[v] = "accepted" PROVE runs'[claim'[v].key] = 1
        BY DEF AcceptedHasRun
      <3>1. CASE v = w
        <4>1. claim'[v].key = k
          BY <1>2, <1>9, <3>1
        <4>2. runs'[k] = IF runs[k] = 0 THEN 1 ELSE runs[k]
          BY <2>2, <3>1 DEF TypeOK
        <4> QED BY <2>3, <4>1, <4>2
      <3>2. CASE v # w
        <4>1. pc[v] = "accepted" /\ claim'[v].key = claim[v].key
          BY <1>9, <1>10, <3>2
        <4>2. PICK j \in Keys : j = claim[v].key
          BY <1>3, <4>1
        <4>3. runs[j] = 1
          BY <4>1, <4>2 DEF AcceptedHasRun
        <4>4. runs'[j] = 1
          BY <2>4, <4>3
        <4> QED BY <4>1, <4>2, <4>4
      <3> QED BY <3>1, <3>2
    <2> QED BY <1>4, <2>5, <2>6, <2>9
  <1>7. CASE FinishDispatch(w) \/ FailDispatch(w)
    <2>1. /\ runs' = runs
          /\ \/ occ' = occ
             \/ occ' = [occ EXCEPT ![k] = "DISPATCHED"] /\ pc[w] = "accepted"
             \/ occ' = [occ EXCEPT ![k] = "FAILED"]
      BY <1>2, <1>7, Zenon DEF FinishDispatch, FailDispatch, Settle
    <2>2. pc'[w] # "accepted"
      BY <1>7 DEF FinishDispatch, FailDispatch, Settle, Answered, Idle, Becomes, TypeOK
    <2>3. occ' # occ => occ[k] = "CLAIMED"
      BY <1>2, <1>7, Zenon DEF FinishDispatch, FailDispatch, Settle, Authorized
    <2>4. CASE occ' = occ
      BY Zenon, <1>5, <2>1, <2>2, <2>4
    <2>5. CASE occ' # occ
      <3>1. /\ \A j \in Keys \ {k} : occ'[j] = occ[j]
            /\ occ'[k] \in {"DISPATCHED", "FAILED"}
            /\ occ'[k] = "DISPATCHED" => pc[w] = "accepted"
        BY <2>1, <2>5 DEF TypeOK
      <3>2. \A v \in Workers : pc'[v] # "idle" => claim'[v] = claim[v] /\ pc[v] # "idle"
        BY <1>1, Zenon DEF Onward
      <3>3. \A v \in Workers : pc'[v] = "accepted" => pc[v] = "accepted"
        BY <1>1, <2>2, Zenon DEF Onward
      <3>4. runs' = runs
        BY <2>1
      <3>5. Held'
        <4> SUFFICES ASSUME NEW v \in Workers, pc'[v] # "idle"
                     PROVE  occ'[claim'[v].key] \in {"CLAIMED", "DISPATCHED", "FAILED"}
          BY DEF Held
        <4>1. pc[v] # "idle" /\ claim'[v].key = claim[v].key
          BY <3>2
        <4>2. PICK j \in Keys : j = claim[v].key
          BY <1>3, <4>1
        <4>3. occ[j] \in {"CLAIMED", "DISPATCHED", "FAILED"}
          BY <4>1, <4>2 DEF Held
        <4>4. occ'[j] \in {"CLAIMED", "DISPATCHED", "FAILED"}
          BY <3>1, <4>3
        <4> QED BY Zenon, <4>1, <4>2, <4>4
      <3>6. AcceptedHasRun'
        BY <3>2, <3>3, <3>4 DEF AcceptedHasRun
      <3>7. RunsAreOwned'
        BY <1>2, <2>1, <2>3, <2>5, <3>1 DEF RunsAreOwned, AcceptedHasRun
      <3> QED BY <1>4, <3>5, <3>6, <3>7
    <2> QED BY <2>4, <2>5
  <1>8. CASE BeginDispatch(w) \/ DispatchRaises(w)
    <2>1. UNCHANGED <<occ, runs>> /\ pc'[w] # "accepted"
      BY <1>8 DEF BeginDispatch, DispatchRaises, Idle, Becomes, TypeOK
    <2> QED BY <1>5, <2>1
  <1> QED BY <1>6, <1>7, <1>8 DEF Dispatch

\* The invariant of the workers' side is inductive.
LEMMA InitDInv == Init => DInv
  <1> SUFFICES ASSUME Init PROVE DInv
    OBVIOUS
  <1>1. TypeOK
    BY InitCInv DEF CInv
  <1> QED BY <1>1 DEF Init, DInv, Held, OneHolder, AcceptedHasRun, RunsAreOwned

LEMMA NextDInv == DInv /\ [Next]_vars => DInv'
  <1> SUFFICES ASSUME DInv, [Next]_vars PROVE DInv'
    OBVIOUS
  <1>1. TypeOK /\ TypeOK'
    BY NextTypeOK DEF DInv
  <1> QED BY <1>1, AsideDInv, ClaimDInv, DispatchDInv DEF Next

-----------------------------------------------------------------------------
(* What a worker's step does to the occurrences.                               *)
LEMMA DispatchMoves ==
    ASSUME TypeOK, NEW w \in Workers, Dispatch(w)
    PROVE  \/ UNCHANGED <<occ, token>>
           \/ \E k \in Keys :
                /\ \A j \in Keys \ {k} : occ'[j] = occ[j] /\ token'[j] = token[j]
                /\ \/ occ[k] = "PENDING" /\ occ'[k] = "CLAIMED" /\ token'[k] = token[k] + 1
                   \/ /\ occ[k] = "CLAIMED" /\ occ'[k] \in {"DISPATCHED", "FAILED"}
                      /\ token'[k] = token[k]
  <1>1. CASE ClaimDue(w)
    BY <1>1 DEF ClaimDue, Due, TypeOK
  <1>2. CASE BeginDispatch(w) \/ StartRun(w) \/ DispatchRaises(w)
    BY <1>2, Zenon DEF BeginDispatch, StartRun, DispatchRaises
  <1>3. CASE FinishDispatch(w) \/ FailDispatch(w)
    <2>1. PICK verdict \in {"DISPATCHED", "FAILED"} : Settle(w, verdict) /\ pc[w] # "idle"
      BY <1>3 DEF FinishDispatch, FailDispatch
    <2>2. PICK k \in Keys : k = claim[w].key
      BY <2>1, HeldClaim
    <2>3. token' = token
      BY <1>3 DEF FinishDispatch, FailDispatch
    <2>4. occ' = occ \/ (occ[k] = "CLAIMED" /\ occ' = [occ EXCEPT ![k] = verdict])
      BY <2>1, <2>2 DEF Settle, Authorized
    <2> QED BY <2>2, <2>3, <2>4 DEF TypeOK
  <1> QED BY <1>1, <1>2, <1>3 DEF Dispatch

-----------------------------------------------------------------------------
(* The schedule, the occurrences and the workers keep their types.             *)
THEOREM SchedulerTypeCorrect == Spec => []TypeOK
  <1>1. CInv => TypeOK
    BY DEF CInv
  <1> QED BY <1>1, InitCInv, NextCInv, PTL DEF Spec

(* However late and in whatever order materialize_due, edits, pauses and       *)
(* resumes come, the cursor of a recurring schedule passes over no slot that   *)
(* has neither a row nor a place in a misfire summary.                         *)
THEOREM NoSlotPassedOver == Spec => []EverySlotAccounted
  <1>1. CInv => EverySlotAccounted
    BY DEF CInv
  <1> QED BY <1>1, InitCInv, NextCInv, PTL DEF Spec

(* Since the cursor was last computed from start_at, no slot has two rows.     *)
THEOREM OneRowPerSlot == Spec => []OneOccurrencePerSlot
  <1>1. CInv => OneOccurrencePerSlot
    BY DEF CInv
  <1> QED BY <1>1, InitCInv, NextCInv, PTL DEF Spec

(* add_occurrence never meets its unique key, so an ACTIVE schedule with a     *)
(* cursor can always be materialised.                                          *)
THEOREM MaterializationNeverCollides == Spec => []KeysAreFree
  <1>1. CInv => KeysAreFree
    <2> SUFFICES ASSUME CInv, state = "ACTIVE", next # NoFire,
                        NEW k \in Keys, k[1] = revision, k[2] >= next
                 PROVE  occ[k] = "none"
      BY DEF KeysAreFree
    <2>1. k[2] \in Nat /\ next \in Nat /\ k[1] >= origin
      BY KeyParts DEF CInv, TypeOK, RevisionBound
    <2> QED BY <2>1 DEF CInv, BehindCursor
  <1> QED BY <1>1, InitCInv, NextCInv, PTL DEF Spec

(* A cancelled schedule has nothing left to claim.                             *)
THEOREM NoBacklogAfterCancel == Spec => []CancelledHasNoBacklog
  <1>1. CInv => CancelledHasNoBacklog
    BY DEF CInv
  <1> QED BY <1>1, InitCInv, NextCInv, PTL DEF Spec

(* Every run belongs to one claimed occurrence, and every DISPATCHED one has   *)
(* its run, for any number of workers, retries and lost replies.               *)
THEOREM RunsBelongToClaims == Spec => []RunsAreOwned
  <1>1. DInv => RunsAreOwned
    BY DEF DInv
  <1> QED BY <1>1, InitDInv, NextDInv, PTL DEF Spec

(* No two workers are authorised to dispatch one occurrence.                   *)
THEOREM SingleDispatcher == Spec => []OneDispatcher
  <1>1. DInv => OneDispatcher
    BY DEF DInv, OneHolder, OneDispatcher
  <1> QED BY <1>1, InitDInv, NextDInv, PTL DEF Spec

(* A schedule that ended stays as it is, and so does an occurrence; only the   *)
(* worker that claimed one ends a CLAIMED one.                                 *)
THEOREM TerminalIsFinal == Spec => TerminalAbsorbs
  <1>1. ASSUME TypeOK, [Next]_vars
        PROVE  /\ state \in {"COMPLETED", "CANCELLED"} => state' = state
               /\ \A k \in Keys :
                    /\ occ[k] \in Terminal => occ'[k] = occ[k]
                    /\ occ[k] = "CLAIMED" => occ'[k] \in {"CLAIMED", "DISPATCHED", "FAILED"}
    <2>1. CASE Control \/ MaterializeDue \/ Tick \/ UNCHANGED vars
      <3>1. \A k \in Keys : Moves(k)
        BY <1>1, <2>1, AsideStep
      <3>2. CASE MaterializeDue \/ Tick \/ UNCHANGED vars
        BY <3>1, <3>2 DEF MaterializeDue, Tick, vars, schedule, Moves, Terminal
      <3>3. CASE Control
        <4>1. ASSUME NEW target, Transition(target) PROVE state \notin {"COMPLETED", "CANCELLED"}
          BY <4>1 DEF Transition, ScheduleTransitions
        <4>2. CASE ActivateSchedule \/ PauseSchedule \/ ResumeSchedule \/ CancelSchedule
          BY <3>1, <4>1, <4>2 DEF ActivateSchedule, PauseSchedule, ResumeSchedule, CancelSchedule,
                                  Moves, Terminal
        <4>3. CASE UpdateSchedule
          BY <3>1, <4>3, Zenon DEF UpdateSchedule, Moves, Terminal
        <4>4. ASSUME NEW k \in Keys, CancelOccurrence(k) PROVE state' = state
          BY <4>4 DEF CancelOccurrence, schedule
        <4>5. CASE \E k \in Keys : CancelOccurrence(k)
          BY <3>1, <4>4, <4>5 DEF Moves, Terminal
        <4> QED BY <3>3, <4>2, <4>3, <4>5 DEF Control
      <3> QED BY <2>1, <3>2, <3>3
    <2>2. ASSUME NEW w \in Workers, Dispatch(w)
          PROVE  /\ state \in {"COMPLETED", "CANCELLED"} => state' = state
                 /\ \A k \in Keys :
                      /\ occ[k] \in Terminal => occ'[k] = occ[k]
                      /\ occ[k] = "CLAIMED" => occ'[k] \in {"CLAIMED", "DISPATCHED", "FAILED"}
      <3>1. state \in {"COMPLETED", "CANCELLED"} => state' = state
        BY Zenon, <2>2
        DEF Dispatch, ClaimDue, BeginDispatch, StartRun, FinishDispatch, FailDispatch,
            DispatchRaises, Settle, CompleteOneTime, schedule
      <3> QED BY <1>1, <2>2, <3>1, DispatchMoves DEF Terminal
    <2> QED BY <1>1, <2>1, <2>2 DEF Next
  <1> QED BY <1>1, SchedulerTypeCorrect, PTL DEF Spec, TerminalAbsorbs

\* Every step of the scheduler is a step of the abstract claims.
LEMMA OccurrenceStep == TypeOK /\ [Next]_vars => [Ledger!Next]_(Ledger!vars)
  <1> SUFFICES ASSUME TypeOK, [Next]_vars PROVE Ledger!Next
    OBVIOUS
  <1>1. CASE Control \/ MaterializeDue \/ Tick \/ UNCHANGED vars
    <2>1. \A k \in Keys : Moves(k)
      BY <1>1, AsideStep
    <2>2. \A k \in Keys : Ledger!Aside(k)
      BY <2>1, Zenon DEF Moves, Phase, Ledger!Aside, Ledger!Same, Ledger!Opened, Ledger!Withdrawn
    <2> QED BY <2>2 DEF Ledger!Next
  <1>2. ASSUME NEW w \in Workers, Dispatch(w) PROVE Ledger!Next
    <2>1. CASE UNCHANGED <<occ, token>>
      BY <2>1 DEF Ledger!Next, Ledger!Aside, Ledger!Same
    <2>2. ASSUME NEW k \in Keys,
                 \A j \in Keys \ {k} : occ'[j] = occ[j] /\ token'[j] = token[j],
                 \/ occ[k] = "PENDING" /\ occ'[k] = "CLAIMED" /\ token'[k] = token[k] + 1
                 \/ /\ occ[k] = "CLAIMED" /\ occ'[k] \in {"DISPATCHED", "FAILED"}
                    /\ token'[k] = token[k]
          PROVE  Ledger!Next
      <3>1. \A j \in Keys \ {k} : Ledger!Aside(j)
        BY <2>2 DEF Ledger!Aside, Ledger!Same
      <3>2. Ledger!Claimed(k) \/ Ledger!Settled(k)
        BY <2>2 DEF Phase, Ledger!Claimed, Ledger!Settled
      <3> QED BY <3>1, <3>2 DEF Ledger!Next, Ledger!HolderMoves
    <2> QED BY <1>2, <2>1, <2>2, DispatchMoves
  <1> QED BY <1>1, <1>2 DEF Next

(* The occurrence rows implement the abstract fenced claim.                    *)
THEOREM OccurrenceRefinement == Spec => OccurrencesAreFencedClaims
  <1>1. Init => Ledger!Init
    BY DEF Init, Ledger!Init, Phase
  <1> QED BY <1>1, OccurrenceStep, SchedulerTypeCorrect, PTL
          DEF Spec, OccurrencesAreFencedClaims, Ledger!Spec

(* Materialisation keeps every slot once, for all terms, policies, batch       *)
(* limits, edits and delays (scheduler/service.py materialize_due).            *)
THEOREM SlotsKept == Spec => []SlotsAreKept
  BY SchedulerTypeCorrect, NoSlotPassedOver, OneRowPerSlot, MaterializationNeverCollides,
     NoBacklogAfterCancel, PTL DEF SlotsAreKept

(* Dispatch is fenced for any number of workers and lost replies               *)
(* (scheduler/service.py dispatch_claim over claim_due and finish_dispatch).   *)
THEOREM DispatchFenced == Spec => DispatchIsFenced
  BY RunsBelongToClaims, SingleDispatcher, TerminalIsFinal, OccurrenceRefinement, PTL
     DEF DispatchIsFenced
=============================================================================
