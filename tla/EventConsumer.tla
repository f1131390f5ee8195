---------------------------- MODULE EventConsumer ----------------------------
(* One durable consumer of the event stream: JetStream's side of it (pending   *)
(* messages, ack wait, max_deliver), the tasks that process deliveries         *)
(* (events/consumer.py), the receipts that make the handler's effect happen    *)
(* once (events/idempotency.py), the dead letters of what it gives up on, and  *)
(* the operator who replays one (scripts/nxs_events).                          *)
(*                                                                             *)
(* The claim of the receipt locks it until the transaction ends, so the claim, *)
(* the handler and the mark are one step.  Time is left to the environment: a  *)
(* pending message may be delivered again at any moment after its delivery.    *)
(* Events are tenant events; a global one has a receipt but no dead letter.    *)
EXTENDS Naturals, FiniteSets

CONSTANTS
    Events,              \* event ids
    Unparseable,         \* events whose bytes are no envelope
    Rejected,            \* events the provenance, registry or type check refuses
    Tasks,               \* deliveries processed at the same time (the semaphore)
    MaxDeliver,          \* max_delivery_attempts, also JetStream's max_deliver
    MaxEvents,           \* bound: events the relay publishes
    MaxFaults            \* bound: crashes, lost replies, slow tasks, failed stores

ASSUME ConsumerAssumption ==
    /\ Unparseable \subseteq Events /\ Rejected \subseteq Events
    /\ MaxDeliver \in Nat \ {0} /\ MaxEvents \in Nat /\ MaxFaults \in Nat

\* An event is published once by the relay and once more by a replay.
Messages == [event : Events, replay : {0, 1}]

VARIABLES
    msg,        \* the consumer's state of a message
    delivered,  \* num_delivered
    task,       \* what each task is at
    receipt,    \* consumer_receipts.status, "none" without a row
    letter,     \* the dead letter: "none", "pending" or "replayed"
    effects,    \* committed effects of the handler
    faults      \* how many faults there were

broker == <<msg, delivered>>
store == <<receipt, letter, effects>>
vars == <<msg, delivered, task, receipt, letter, effects, faults>>

Idle == [pc |-> "idle"]
Steps == {"fetched", "ack", "retry", "terminal", "term"}
At(step, m, n) == [pc |-> step, msg |-> m, n |-> n]
Finished == {"PROCESSED", "DEAD"}

Init ==
    /\ msg = [m \in Messages |-> "none"]
    /\ delivered = [m \in Messages |-> 0]
    /\ task = [t \in Tasks |-> Idle]
    /\ receipt = [e \in Events |-> "none"]
    /\ letter = [e \in Events |-> "none"]
    /\ effects = [e \in Events |-> 0]
    /\ faults = 0

Fault == faults < MaxFaults /\ faults' = faults + 1
Becomes(t, step) == task' = [task EXCEPT ![t] = At(step, @.msg, @.n)]
Ends(t) == task' = [task EXCEPT ![t] = Idle]

-----------------------------------------------------------------------------
(* JetStream.                                                                  *)

\* The relay publishes the event.
Arrive(e) ==
    LET m == [event |-> e, replay |-> 0] IN
    /\ msg[m] = "none"
    /\ Cardinality({x \in Messages : msg[x] # "none" /\ x.replay = 0}) < MaxEvents
    /\ msg' = [msg EXCEPT ![m] = "queued"]
    /\ UNCHANGED <<delivered, task, store, faults>>

\* _run or run_pending fetches a message.
Fetch(t) ==
    /\ task[t] = Idle
    /\ \E m \in Messages :
        /\ msg[m] = "queued"
        /\ msg' = [msg EXCEPT ![m] = "pending"]
        /\ delivered' = [delivered EXCEPT ![m] = @ + 1]
        /\ task' = [task EXCEPT ![t] = At("fetched", m, delivered[m] + 1)]
    /\ UNCHANGED <<store, faults>>

\* A message that is not settled is delivered again, max_deliver times in all.
Again(m) == msg' = [msg EXCEPT ![m] = IF delivered[m] < MaxDeliver THEN "queued" ELSE "exhausted"]

\* ack_wait has passed; a task that is still at the message has overrun it.
AckWaitEnds(m) ==
    /\ msg[m] = "pending" /\ Again(m)
    /\ IF \E t \in Tasks : task[t] # Idle /\ task[t].msg = m /\ task[t].n = delivered[m]
       THEN Fault
       ELSE UNCHANGED faults
    /\ UNCHANGED <<delivered, task, store>>

\* ack() and term() settle the message, whichever delivery they answer.
Settled(m, as) == msg' = [msg EXCEPT ![m] = IF @ \in {"queued", "pending"} THEN as ELSE @]

\* nak() asks for another delivery; its loss is left to the ack wait.
Nak(t) ==
    LET m == task[t].msg IN
    /\ Ends(t)
    /\ IF msg[m] = "pending" /\ delivered[m] = task[t].n THEN Again(m) ELSE UNCHANGED msg

-----------------------------------------------------------------------------
(* _process.                                                                   *)

\* _malformed: terminated, with no receipt and no dead letter.
Malformed(t) ==
    /\ task[t].pc = "fetched" /\ task[t].msg.event \in Unparseable
    /\ Settled(task[t].msg, "termed") /\ Ends(t)
    /\ UNCHANGED <<delivered, store, faults>>

\* The provenance check, the registry or the declared types refuse the event.
Refuse(t) ==
    /\ task[t].pc = "fetched" /\ task[t].msg.event \in Rejected \ Unparseable
    /\ Becomes(t, "terminal")
    /\ UNCHANGED <<broker, store, faults>>

Readable(t) == task[t].pc = "fetched" /\ task[t].msg.event \notin Unparseable \cup Rejected

\* A bug: only a dead-lettered event is recognised as finished.
Bug_AlreadyFinished(e) == receipt[e] = "DEAD"

\* ReceiptClaim.already_finished
AlreadyFinished(e) == receipt[e] \in Finished

\* The claim finds a finished receipt: the handler is not run.
Duplicate(t) ==
    /\ Readable(t) /\ AlreadyFinished(task[t].msg.event)
    /\ Becomes(t, "ack")
    /\ UNCHANGED <<broker, store, faults>>

\* The transaction of claim, handler and mark_processed.
Commit(e) ==
    /\ receipt' = [receipt EXCEPT ![e] = "PROCESSED"]
    /\ effects' = [effects EXCEPT ![e] = @ + 1]
    /\ UNCHANGED letter

\* The handler returns, asks for a retry or times out, or fails for good.
Handle(t) ==
    /\ Readable(t) /\ ~AlreadyFinished(task[t].msg.event)
    /\ \/ Commit(task[t].msg.event) /\ Becomes(t, "ack")
       \/ UNCHANGED store /\ Becomes(t, "retry")
       \/ UNCHANGED store /\ Becomes(t, "terminal")
    /\ UNCHANGED <<broker, faults>>

\* The commit takes effect and its reply is lost: a retryable database error.
CommitReplyLost(t) ==
    /\ Readable(t) /\ ~AlreadyFinished(task[t].msg.event)
    /\ Fault
    /\ Commit(task[t].msg.event) /\ Becomes(t, "retry")
    /\ UNCHANGED broker

Ack(t) ==
    /\ task[t].pc = "ack"
    /\ Settled(task[t].msg, "acked") /\ Ends(t)
    /\ UNCHANGED <<delivered, store, faults>>

\* ack() raises: the exception goes through the same clauses as the handler's.
AckRaises(t) ==
    /\ task[t].pc = "ack" /\ Fault
    /\ Becomes(t, "retry") \/ Becomes(t, "terminal")
    /\ UNCHANGED <<broker, store>>

\* A bug: one delivery more than JetStream makes.
Bug_ShouldDeadLetter(n) == n > MaxDeliver

\* should_dead_letter
ShouldDeadLetter(n) == n >= MaxDeliver

\* _retry_or_terminal
RetryOrTerminal(t) ==
    /\ task[t].pc = "retry"
    /\ IF ShouldDeadLetter(task[t].n)
       THEN Becomes(t, "terminal") /\ UNCHANGED msg
       ELSE Nak(t)
    /\ UNCHANGED <<delivered, store, faults>>

\* record_terminal and DeadLetterRepository.record, one transaction.
RecordTerminal(e) ==
    /\ receipt' = [receipt EXCEPT ![e] = "DEAD"]
    /\ letter' = [letter EXCEPT ![e] = IF @ = "none" THEN "pending" ELSE @]
    /\ UNCHANGED effects

\* _terminal
Terminal(t) ==
    /\ task[t].pc = "terminal"
    /\ RecordTerminal(task[t].msg.event) /\ Becomes(t, "term")
    /\ UNCHANGED <<broker, faults>>

\* _terminal when its transaction fails: the message is asked for again.
TerminalStoreFails(t) ==
    /\ task[t].pc = "terminal" /\ Fault
    /\ Nak(t)
    /\ UNCHANGED <<delivered, store>>

Term(t) ==
    /\ task[t].pc = "term"
    /\ Settled(task[t].msg, "termed") /\ Ends(t)
    /\ UNCHANGED <<delivered, store, faults>>

\* The process dies, or stop() cancels the task, or term() is lost.
Crash(t) ==
    /\ task[t] # Idle /\ Fault
    /\ Ends(t)
    /\ UNCHANGED <<broker, store>>

\* The receipt is made eligible again.
Rearm(e) == receipt' = [receipt EXCEPT ![e] = "PROCESSING"]

\* _replay: the message is published again; within the dedupe window of the
\* first publication the stream drops it.
Replay(e) ==
    LET m == [event |-> e, replay |-> 1] IN
    /\ letter[e] = "pending"
    /\ letter' = [letter EXCEPT ![e] = "replayed"]
    /\ Rearm(e)
    /\ msg' = [msg EXCEPT ![m] = "queued"] \/ UNCHANGED msg
    /\ UNCHANGED <<delivered, task, effects, faults>>

Process(t) ==
    \/ Malformed(t) \/ Refuse(t) \/ Duplicate(t) \/ Handle(t) \/ Ack(t)
    \/ RetryOrTerminal(t) \/ Terminal(t) \/ Term(t)

Next ==
    \/ \E t \in Tasks : Fetch(t) \/ Process(t)
    \/ \E t \in Tasks : CommitReplyLost(t) \/ AckRaises(t) \/ TerminalStoreFails(t) \/ Crash(t)
    \/ \E e \in Events : Arrive(e) \/ Replay(e)
    \/ \E m \in Messages : AckWaitEnds(m)

Spec == Init /\ [][Next]_vars

(* Fairness: the fetch loop runs for as long as the process lives, a task is   *)
(* bounded by handler_timeout_seconds, and JetStream's clock advances.         *)
Fairness ==
    /\ \A t \in Tasks : WF_vars(Fetch(t)) /\ WF_vars(Process(t))
    /\ \A m \in Messages : WF_vars(AckWaitEnds(m))

FairSpec == Spec /\ Fairness

-----------------------------------------------------------------------------
\* The types of the messages, the tasks and the stored rows.
TypeOK ==
    /\ msg \in [Messages -> {"none", "queued", "pending", "acked", "termed", "exhausted"}]
    /\ delivered \in [Messages -> Nat]
    /\ task \in [Tasks -> {Idle} \cup [pc : Steps, msg : Messages, n : Nat]]
    /\ receipt \in [Events -> {"none", "PROCESSING"} \cup Finished]
    /\ letter \in [Events -> {"none", "pending", "replayed"}]
    /\ effects \in [Events -> Nat] /\ faults \in Nat

(* NXS-EVENT-006: redeliveries, lost acknowledgements and concurrent           *)
(* deliveries add no effect to the first; a replay adds one at most.           *)
OneEffectPerArming ==
    \A e \in Events : effects[e] <= IF letter[e] = "replayed" THEN 2 ELSE 1

(* "A message is ACKed only after the handler's effect and the idempotency     *)
(* receipt commit", and TERMed only after its dead letter did.                 *)
SettledIsRecorded ==
    \A m \in Messages :
        /\ msg[m] = "acked" => effects[m.event] > 0 \/ letter[m.event] # "none"
        /\ msg[m] = "termed" => letter[m.event] # "none" \/ m.event \in Unparseable

(* A DEAD receipt has its dead letter, or nobody could replay the event.       *)
DeadIsLettered == \A e \in Events : receipt[e] = "DEAD" => letter[e] # "none"

(* "Never hot-looped": unless something crashes or is lost, every event that   *)
(* is delivered is processed or dead-lettered in the end, on its last delivery *)
(* if not before.                                                              *)
EventuallyDecided ==
    \A e \in Events \ Unparseable :
        msg[[event |-> e, replay |-> 0]] # "none" ~>
            receipt[e] \in Finished \/ letter[e] # "none" \/ faults > 0

-----------------------------------------------------------------------------
(* What the documents say and the code does not keep.                          *)

(* "A lost ACK, a redelivery and two concurrent deliveries all resolve to      *)
(* exactly one effect."                                                        *)
(* The code does not keep it (README, Divergences).                            *)
ExactlyOneEffect == \A e \in Events : effects[e] <= 1

(* "Fix the handler/contract, then replay the dead letter": a replayed event   *)
(* is handled again.                                                           *)
(* The code does not keep it (README, Divergences).                            *)
ReplayIsHandled == \A e \in Events : letter[e] = "replayed" ~> receipt[e] \in Finished

(* "Handler failing repeatedly ... after max_delivery_attempts it              *)
(* dead-letters": what is not processed by then has a DEAD receipt.            *)
(* The code does not keep it (README, Divergences).                            *)
ExhaustedIsDead ==
    \A m \in Messages :
        msg[m] = "exhausted" /\ (\A t \in Tasks : task[t] = Idle) =>
            receipt[m.event] \in Finished \/ m.event \in Unparseable

(* An event takes effect once per arming, is acknowledged only after that is   *)
(* recorded, and is given up only with a dead letter.                          *)
ConsumerIsSafe == TypeOK /\ OneEffectPerArming /\ SettledIsRecorded /\ DeadIsLettered
=============================================================================
