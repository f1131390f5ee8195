----------------------------- MODULE EventOutbox -----------------------------
(* The transactional outbox of the event platform (NXS-P04): the rows of       *)
(* event_outbox (infrastructure/event_outbox.py), the relay workers that       *)
(* publish them (events/publisher.py), the dead letters of those that cannot   *)
(* be published (infrastructure/event_dead_letter.py), and the operator who    *)
(* replays a dead letter (scripts/nxs_events).                                 *)
(*                                                                             *)
(* Time is left to the environment: a lease may run out and a backoff may end  *)
(* at any moment after they began.  The broker is up or down; a publication    *)
(* made while it is down is not acknowledged, though it may have been stored.  *)
(* lease_owner is left out: it is written and never read.  So is the order of  *)
(* available_at among the rows a batch is filled with.                         *)
EXTENDS Naturals, FiniteSets

CONSTANTS
    Rows,                \* event ids
    Unreadable,          \* rows whose stored envelope no longer validates
    Workers,             \* relay workers
    MaxPublishAttempts,  \* events.max_publish_attempts
    BatchSize,           \* events.publisher_batch_size
    MaxFaults            \* bound: crashes, overrun leases and broker outages

ASSUME OutboxAssumption ==
    /\ IsFiniteSet(Rows) /\ Unreadable \subseteq Rows
    /\ MaxPublishAttempts \in Nat \ {0} /\ BatchSize \in Nat \ {0} /\ MaxFaults \in Nat

VARIABLES
    status,   \* event_outbox.status, "ABSENT" before the row is written
    due,      \* the rows with available_at <= now
    lease,    \* "none", "live" or "expired" (lease_expires_at <= now)
    attempt,  \* attempt_count
    letter,   \* the dead letter of the row: "none", "pending" or "replayed"
    stored,   \* the events the stream holds
    pc,       \* where each worker is in run_once
    batch,    \* the claimed items a worker has not taken up yet
    item,     \* the item a worker is publishing
    broker,   \* "up" or "down"
    faults,   \* how many faults there were
    overrun   \* rows whose lease ran out under a worker that was still at it

table == <<status, due, lease, attempt, letter>>
vars == <<status, due, lease, attempt, letter, stored, pc, batch, item, broker, faults, overrun>>

Statuses == {"ABSENT", "PENDING", "PUBLISHING", "PUBLISHED", "FAILED", "DEAD"}
Items == [row : Rows, attempt : Nat]
NoItem == <<>>

Init ==
    /\ status = [r \in Rows |-> "ABSENT"]
    /\ due = {} /\ stored = {}
    /\ lease = [r \in Rows |-> "none"]
    /\ attempt = [r \in Rows |-> 0]
    /\ letter = [r \in Rows |-> "none"]
    /\ pc = [w \in Workers |-> "ready"]
    /\ batch = [w \in Workers |-> {}]
    /\ item = [w \in Workers |-> NoItem]
    /\ broker = "up" /\ faults = 0 /\ overrun = {}

Fault == faults < MaxFaults /\ faults' = faults + 1

-----------------------------------------------------------------------------
(* enqueue, committed with the caller's business mutation.  A second enqueue   *)
(* of the same event id is a no-op.                                            *)
Enqueue(r) ==
    /\ status[r] = "ABSENT"
    /\ status' = [status EXCEPT ![r] = "PENDING"]
    /\ due' = due \cup {r}
    /\ UNCHANGED <<lease, attempt, letter, stored, pc, batch, item, broker, faults, overrun>>

\* A bug: the rows a crashed worker left PUBLISHING are never looked at again.
Bug_EligibleNoReclaim == {r \in Rows : status[r] \in {"PENDING", "FAILED"} /\ r \in due}

\* The candidate query of claim_batch.
Eligible ==
    {r \in Rows : \/ status[r] \in {"PENDING", "FAILED"} /\ r \in due
                  \/ status[r] = "PUBLISHING" /\ lease[r] = "expired"}

\* claim_batch: the candidates no other claim has locked, as many as fit, are
\* leased and counted (FOR UPDATE SKIP LOCKED ... LIMIT).
Claim(w) ==
    /\ pc[w] = "ready" /\ batch[w] = {}
    /\ \E C \in SUBSET Eligible :
        /\ C # {} /\ Cardinality(C) <= BatchSize
        /\ status' = [r \in Rows |-> IF r \in C THEN "PUBLISHING" ELSE status[r]]
        /\ lease' = [r \in Rows |-> IF r \in C THEN "live" ELSE lease[r]]
        /\ attempt' = [r \in Rows |-> IF r \in C THEN attempt[r] + 1 ELSE attempt[r]]
        /\ batch' = [batch EXCEPT ![w] = {[row |-> r, attempt |-> attempt[r] + 1] : r \in C}]
    /\ UNCHANGED <<due, letter, stored, pc, item, broker, faults, overrun>>

\* _publish_one begins with the next item of the batch.
Take(w) ==
    /\ pc[w] = "ready"
    /\ \E i \in batch[w] :
        /\ item' = [item EXCEPT ![w] = i]
        /\ batch' = [batch EXCEPT ![w] = @ \ {i}]
        /\ pc' = [pc EXCEPT ![w] = IF i.row \in Unreadable THEN "unreadable" ELSE "publishing"]
    /\ UNCHANGED <<table, stored, broker, faults, overrun>>

\* JetStream stores the message and the acknowledgement arrives.
Acked(w) ==
    /\ pc[w] = "publishing" /\ broker = "up"
    /\ stored' = stored \cup {item[w].row}
    /\ pc' = [pc EXCEPT ![w] = "acked"]
    /\ UNCHANGED <<table, batch, item, broker, faults, overrun>>

\* No acknowledgement within the timeout, stored or not.
NotAcked(w) ==
    /\ pc[w] = "publishing" /\ broker = "down"
    /\ stored' = stored \cup {item[w].row} \/ stored' = stored
    /\ pc' = [pc EXCEPT ![w] = "failed"]
    /\ UNCHANGED <<table, batch, item, broker, faults, overrun>>

\* The three writes that end an attempt; none looks at the row's status.
Settle(r, to) ==
    /\ status' = [status EXCEPT ![r] = to]
    /\ lease' = [lease EXCEPT ![r] = "none"]
    /\ UNCHANGED attempt

\* The worker goes on to the next item of its batch.
Done(w) ==
    /\ pc' = [pc EXCEPT ![w] = "ready"]
    /\ item' = [item EXCEPT ![w] = NoItem]

\* A bug: the row is marked without waiting for the acknowledgement.
Bug_MarkPublished(w) ==
    /\ pc[w] \in {"acked", "failed"}
    /\ Settle(item[w].row, "PUBLISHED") /\ UNCHANGED due
    /\ Done(w)
    /\ UNCHANGED <<letter, stored, batch, broker, faults, overrun>>

MarkPublished(w) ==
    /\ pc[w] = "acked"
    /\ Settle(item[w].row, "PUBLISHED") /\ UNCHANGED due
    /\ Done(w)
    /\ UNCHANGED <<letter, stored, batch, broker, faults, overrun>>

\* should_dead_letter
ShouldDeadLetter(n) == n >= MaxPublishAttempts

\* _handle_transient with attempts left: the row waits for its backoff.
Reschedule(w) ==
    /\ pc[w] = "failed" /\ ~ShouldDeadLetter(item[w].attempt)
    /\ Settle(item[w].row, "FAILED") /\ due' = due \ {item[w].row}
    /\ Done(w)
    /\ UNCHANGED <<letter, stored, batch, broker, faults, overrun>>

\* DeadLetterRepository.record: once per event and origin, whatever became of it.
Record(r) == letter' = [letter EXCEPT ![r] = IF @ = "none" THEN "pending" ELSE @]

\* _dead_letter: an envelope that could not be read leaves no dead letter.
DeadLetter(w) ==
    LET r == item[w].row IN
    /\ \/ pc[w] = "unreadable" /\ UNCHANGED letter
       \/ pc[w] = "failed" /\ ShouldDeadLetter(item[w].attempt) /\ Record(r)
    /\ Settle(r, "DEAD") /\ UNCHANGED due
    /\ Done(w)
    /\ UNCHANGED <<stored, batch, broker, faults, overrun>>

-----------------------------------------------------------------------------
(* A worker loses its batch: it crashes, is cancelled by stop(), or one of its *)
(* transactions raises and run_once is left by the exception.                  *)
Drop(w) ==
    /\ pc[w] # "ready" \/ batch[w] # {}
    /\ Fault
    /\ Done(w)
    /\ batch' = [batch EXCEPT ![w] = {}]
    /\ UNCHANGED <<table, stored, broker, overrun>>

\* A worker that still has the row in its hands.
Busy(w, r) == (pc[w] # "ready" /\ item[w].row = r) \/ \E i \in batch[w] : i.row = r

LeaseRunsOut(r) ==
    /\ status[r] = "PUBLISHING" /\ lease[r] = "live"
    /\ lease' = [lease EXCEPT ![r] = "expired"]
    /\ IF \E w \in Workers : Busy(w, r)
       THEN Fault /\ overrun' = overrun \cup {r}
       ELSE UNCHANGED <<faults, overrun>>
    /\ UNCHANGED <<status, due, attempt, letter, stored, pc, batch, item, broker>>

\* backoff_delay has passed.
BackoffEnds(r) ==
    /\ status[r] = "FAILED" /\ r \notin due
    /\ due' = due \cup {r}
    /\ UNCHANGED <<status, lease, attempt, letter, stored, pc, batch, item, broker, faults, overrun>>

BrokerFails ==
    /\ broker = "up" /\ broker' = "down" /\ Fault
    /\ UNCHANGED <<table, stored, pc, batch, item, overrun>>

BrokerReturns ==
    /\ broker = "down" /\ broker' = "up"
    /\ UNCHANGED <<table, stored, pc, batch, item, faults, overrun>>

\* The operator re-arms a row through its pending dead letter.
Replay(r) ==
    /\ letter[r] = "pending"
    /\ letter' = [letter EXCEPT ![r] = "replayed"]
    /\ status' = [status EXCEPT ![r] = "PENDING"]
    /\ due' = due \cup {r}
    /\ lease' = [lease EXCEPT ![r] = "none"]
    /\ attempt' = [attempt EXCEPT ![r] = 0]
    /\ UNCHANGED <<stored, pc, batch, item, broker, faults, overrun>>

Publish(w) == Acked(w) \/ NotAcked(w)
Mark(w) == MarkPublished(w) \/ Reschedule(w) \/ DeadLetter(w)
Relay(w) == Claim(w) \/ Take(w) \/ Publish(w) \/ Mark(w)

Next ==
    \/ \E w \in Workers : Relay(w) \/ Drop(w)
    \/ \E r \in Rows : Enqueue(r) \/ LeaseRunsOut(r) \/ BackoffEnds(r) \/ Replay(r)
    \/ BrokerFails \/ BrokerReturns

Spec == Init /\ [][Next]_vars

(* Fairness: _run polls for as long as the process lives, publish() returns or *)
(* raises within its timeout, and clocks advance.  The broker comes back.      *)
Fairness ==
    /\ \A w \in Workers : WF_vars(Claim(w)) /\ WF_vars(Take(w)) /\ WF_vars(Publish(w)) /\ WF_vars(Mark(w))
    /\ \A r \in Rows : WF_vars(LeaseRunsOut(r)) /\ WF_vars(BackoffEnds(r))
    /\ WF_vars(BrokerReturns)

FairSpec == Spec /\ Fairness

-----------------------------------------------------------------------------
\* The types of the rows and of what the workers hold.
TypeOK ==
    /\ status \in [Rows -> Statuses]
    /\ due \subseteq Rows /\ stored \subseteq Rows
    /\ lease \in [Rows -> {"none", "live", "expired"}]
    /\ attempt \in [Rows -> Nat]
    /\ letter \in [Rows -> {"none", "pending", "replayed"}]
    /\ pc \in [Workers -> {"ready", "publishing", "acked", "failed", "unreadable"}]
    /\ batch \in [Workers -> SUBSET Items]
    /\ item \in [Workers -> Items \cup {NoItem}]
    /\ \A w \in Workers : pc[w] # "ready" => item[w] # NoItem
    /\ broker \in {"up", "down"} /\ faults \in Nat /\ overrun \subseteq Rows

(* NXS-EVENT-003: a row is PUBLISHED only if the stream holds the event, also  *)
(* when several workers, one of them long overdue, have marked it.             *)
PublishedIsStored == \A r \in Rows : status[r] = "PUBLISHED" => r \in stored

(* NXS-EVENT-007: a row that is given up has a dead letter that names it, for  *)
(* every order of overdue marks and replays.                                   *)
DeadIsLettered ==
    \A r \in Rows \ Unreadable : status[r] = "DEAD" => letter[r] # "none"

(* While no lease of it was overrun, a row is in the hands of one worker at    *)
(* most, and is PUBLISHING under a live lease for as long as it is.            *)
LeaseExclusive ==
    \A r \in Rows \ overrun : \A v \in Workers : Busy(v, r) =>
        /\ status[r] = "PUBLISHING" /\ lease[r] = "live"
        /\ \A w \in Workers : Busy(w, r) => v = w

(* A settled row stays settled until it is replayed, as long as no worker has  *)
(* overrun the lease of the row: the marks carry no fence of their own.        *)
SettledIsFinal ==
    [][\A r \in Rows :
        status[r] \in {"PUBLISHED", "DEAD"} /\ r \notin overrun /\ letter'[r] = letter[r] =>
            status'[r] = status[r]]_vars

(* "No row is ever permanently stuck": whatever crashes, expires or is down    *)
(* for a while, every row ends up PUBLISHED or DEAD for good.                  *)
NoRowStuck == <>[](\A r \in Rows : status[r] \in {"ABSENT", "PUBLISHED", "DEAD"})

-----------------------------------------------------------------------------
(* What the documents say and the code does not keep.                          *)

(* "It uses SELECT ... FOR UPDATE SKIP LOCKED so many relay workers never      *)
(* publish the same row concurrently."                                         *)
(* The code does not keep it (README, Divergences).                            *)
NeverPublishedConcurrently ==
    \A v, w \in Workers : v # w /\ pc[v] = "publishing" /\ pc[w] = "publishing" =>
        item[v].row # item[w].row

(* "DEAD outbox rows | event_dead_letters (origin OUTBOX_PUBLISH) | fix the    *)
(* cause, then replay": a DEAD row can be replayed.                            *)
(* The code does not keep it (README, Divergences).                            *)
DeadCanBeReplayed ==
    \A r \in Rows \ Unreadable : status[r] = "DEAD" => letter[r] = "pending"

(* "A committed tenant event is delivered at least once even across a total    *)
(* NATS outage."                                                               *)
(* The code does not keep it (README, Divergences).                            *)
DeliveredAcrossOutage == \A r \in Rows \ Unreadable : status[r] # "ABSENT" ~> r \in stored

(* The relay loses nothing and doubles no work: what it reports published is   *)
(* stored, what it gives up has its dead letter, and no row is published by    *)
(* two workers that both hold it; and what is settled stays settled.           *)
RelayIsSafe ==
    [](TypeOK /\ PublishedIsStored /\ DeadIsLettered /\ LeaseExclusive) /\ SettledIsFinal
=============================================================================
