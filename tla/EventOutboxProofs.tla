-------------------------- MODULE EventOutboxProofs --------------------------
(* Safety of the outbox for every set of events and workers, every retry       *)
(* budget and every number of faults.                                          *)
EXTENDS EventOutbox, TLAPS

\* A worker that is about to mark a row PUBLISHED has seen it stored.
AckedIsStored == \A w \in Workers : pc[w] = "acked" => item[w].row \in stored

\* Only an envelope that does not validate takes the path without dead letter.
UnreadableOnly == \A w \in Workers : pc[w] = "unreadable" => item[w].row \in Unreadable

\* The inductive invariant.
IInv == TypeOK /\ PublishedIsStored /\ DeadIsLettered /\ AckedIsStored /\ UnreadableOnly

\* What a worker that is not ready holds is an item of a row.
LEMMA HeldItem ==
    ASSUME TypeOK, NEW w \in Workers, pc[w] # "ready"
    PROVE  item[w].row \in Rows /\ item[w].attempt \in Nat
  BY DEF TypeOK, Items

\* The empty outbox satisfies the invariant.
LEMMA InitIInv == Init => IInv
  <1> SUFFICES ASSUME Init PROVE IInv
    OBVIOUS
  <1>1. TypeOK
    BY DEF Init, TypeOK, Statuses
  <1> QED BY <1>1 DEF Init, IInv, PublishedIsStored, DeadIsLettered, AckedIsStored, UnreadableOnly

\* The relay's own steps preserve the invariant.
LEMMA RelayStep == ASSUME IInv, NEW w \in Workers, Relay(w) PROVE IInv'
  <1>1. TypeOK
    BY DEF IInv
  <1>2. CASE Claim(w)
    <2>1. PICK C \in SUBSET Eligible :
            /\ status' = [r \in Rows |-> IF r \in C THEN "PUBLISHING" ELSE status[r]]
            /\ lease' = [r \in Rows |-> IF r \in C THEN "live" ELSE lease[r]]
            /\ attempt' = [r \in Rows |-> IF r \in C THEN attempt[r] + 1 ELSE attempt[r]]
            /\ batch' = [batch EXCEPT ![w] = {[row |-> r, attempt |-> attempt[r] + 1] : r \in C}]
      BY <1>2, Zenon DEF Claim
    <2>2. UNCHANGED <<due, letter, stored, pc, item, broker, faults, overrun>>
      BY <1>2 DEF Claim
    <2>3. {[row |-> r, attempt |-> attempt[r] + 1] : r \in C} \in SUBSET Items
      BY <1>1, <2>1 DEF TypeOK, Items, Eligible
    <2>4. TypeOK'
      BY <1>1, <2>1, <2>2, <2>3 DEF TypeOK, Statuses
    <2> QED BY <2>1, <2>2, <2>4
            DEF IInv, PublishedIsStored, DeadIsLettered, AckedIsStored, UnreadableOnly
  <1>3. CASE Take(w)
    <2>1. PICK i \in batch[w] :
            /\ item' = [item EXCEPT ![w] = i]
            /\ batch' = [batch EXCEPT ![w] = @ \ {i}]
            /\ pc' = [pc EXCEPT ![w] = IF i.row \in Unreadable THEN "unreadable" ELSE "publishing"]
      BY <1>3, Zenon DEF Take
    <2>2. UNCHANGED <<table, stored, broker, faults, overrun>>
      BY <1>3 DEF Take
    <2>3. i \in Items /\ i # NoItem
      BY <1>1, <2>1 DEF TypeOK, Items, NoItem
    <2>4. TypeOK'
      BY <1>1, <2>1, <2>2, <2>3 DEF TypeOK, table
    <2> QED BY <1>1, <2>1, <2>2, <2>4
            DEF IInv, PublishedIsStored, DeadIsLettered, AckedIsStored, UnreadableOnly, TypeOK, table
  <1>4. CASE Publish(w)
    <2>1. item[w].row \in Rows
      BY <1>1, <1>4, HeldItem DEF Publish, Acked, NotAcked
    <2>2. TypeOK'
      BY <1>1, <1>4, <2>1 DEF Publish, Acked, NotAcked, TypeOK, table
    <2>3. stored \subseteq stored'
      BY <1>1, <1>4, <2>1 DEF Publish, Acked, NotAcked, TypeOK
    <2>4. PublishedIsStored' /\ DeadIsLettered' /\ UnreadableOnly'
      BY <1>1, <1>4, <2>3
      DEF Publish, Acked, NotAcked, IInv, PublishedIsStored, DeadIsLettered, UnreadableOnly,
          TypeOK, table
    <2>5. AckedIsStored'
      <3> SUFFICES ASSUME NEW v \in Workers, pc'[v] = "acked" PROVE item'[v].row \in stored'
        BY DEF AckedIsStored
      <3>1. item' = item
        BY <1>4 DEF Publish, Acked, NotAcked
      <3>2. CASE v = w
        BY <1>1, <1>4, <2>1, <3>1, <3>2 DEF Publish, Acked, NotAcked, TypeOK
      <3>3. CASE v # w
        <4>1. pc[v] = "acked"
          BY <1>1, <1>4, <3>3 DEF Publish, Acked, NotAcked, TypeOK
        <4>2. item[v].row \in Rows
          BY <1>1, <4>1, HeldItem
        <4> QED BY <2>3, <3>1, <4>1, <4>2 DEF IInv, AckedIsStored
      <3> QED BY <3>2, <3>3
    <2> QED BY <2>2, <2>4, <2>5 DEF IInv
  <1>5. CASE Mark(w)
    <2> DEFINE s == item[w].row
    <2>1. s \in Rows /\ pc[w] # "ready"
      BY <1>1, <1>5, HeldItem DEF Mark, MarkPublished, Reschedule, DeadLetter
    <2>2. /\ Done(w) /\ UNCHANGED <<stored, batch, broker, faults, overrun, attempt>>
          /\ lease' = [lease EXCEPT ![s] = "none"]
      BY <1>5 DEF Mark, MarkPublished, Reschedule, DeadLetter, Settle
    <2>3. due' \subseteq due
      BY <1>5 DEF Mark, MarkPublished, Reschedule, DeadLetter
    <2>4. \/ status' = [status EXCEPT ![s] = "PUBLISHED"] /\ letter' = letter /\ s \in stored
          \/ status' = [status EXCEPT ![s] = "FAILED"] /\ letter' = letter
          \/ status' = [status EXCEPT ![s] = "DEAD"] /\ letter' = letter /\ s \in Unreadable
          \/ /\ status' = [status EXCEPT ![s] = "DEAD"]
             /\ letter' = [letter EXCEPT ![s] = IF @ = "none" THEN "pending" ELSE @]
      BY <1>5, <2>1
      DEF Mark, MarkPublished, Reschedule, DeadLetter, Settle, Record, IInv, AckedIsStored,
          UnreadableOnly
    <2> HIDE DEF s
    <2>5. TypeOK'
      BY <1>1, <2>1, <2>2, <2>4, <2>3 DEF TypeOK, Done, Statuses
    <2>6. PublishedIsStored'
      BY <1>1, <2>1, <2>2, <2>4 DEF IInv, PublishedIsStored, TypeOK
    <2>7. DeadIsLettered'
      BY <1>1, <2>1, <2>2, <2>4 DEF IInv, DeadIsLettered, TypeOK
    <2>8. AckedIsStored' /\ UnreadableOnly'
      BY <1>1, <2>2 DEF IInv, AckedIsStored, UnreadableOnly, TypeOK, Done
    <2> QED BY <2>5, <2>6, <2>7, <2>8 DEF IInv
  <1> QED BY <1>2, <1>3, <1>4, <1>5 DEF Relay

\* Crashes, clocks, the broker, producers and the operator preserve it too.
LEMMA OtherStep ==
    ASSUME IInv,
           \/ \E w \in Workers : Drop(w)
           \/ \E r \in Rows : Enqueue(r) \/ LeaseRunsOut(r) \/ BackoffEnds(r) \/ Replay(r)
           \/ BrokerFails \/ BrokerReturns
    PROVE  IInv'
  <1> USE DEF IInv, PublishedIsStored, DeadIsLettered, AckedIsStored, UnreadableOnly, TypeOK
  <1>1. ASSUME NEW w \in Workers, Drop(w) PROVE IInv'
    BY <1>1 DEF Drop, Done, Fault, table
  <1>2. ASSUME NEW r \in Rows, Enqueue(r) PROVE IInv'
    BY <1>2 DEF Enqueue, Statuses
  <1>3. ASSUME NEW r \in Rows, LeaseRunsOut(r) PROVE IInv'
    BY <1>3 DEF LeaseRunsOut, Fault
  <1>4. ASSUME NEW r \in Rows, BackoffEnds(r) PROVE IInv'
    BY <1>4 DEF BackoffEnds
  <1>5. ASSUME NEW r \in Rows, Replay(r) PROVE IInv'
    BY <1>5 DEF Replay, Statuses
  <1>6. CASE BrokerFails \/ BrokerReturns
    BY <1>6 DEF BrokerFails, BrokerReturns, Fault, table
  <1> QED BY <1>1, <1>2, <1>3, <1>4, <1>5, <1>6

\* Every step of the outbox preserves the invariant.
LEMMA NextIInv == IInv /\ [Next]_vars => IInv'
  <1> SUFFICES ASSUME IInv, [Next]_vars PROVE IInv'
    OBVIOUS
  <1>1. CASE UNCHANGED vars
    BY <1>1 DEF vars, IInv, PublishedIsStored, DeadIsLettered, AckedIsStored, UnreadableOnly, TypeOK
  <1> QED BY <1>1, RelayStep, OtherStep DEF Next

\* The rows, the items and the clocks keep their types.
THEOREM OutboxTypeCorrect == Spec => []TypeOK
  <1>1. IInv => TypeOK
    BY DEF IInv
  <1> QED BY <1>1, InitIInv, NextIInv, PTL DEF Spec

(* A row is PUBLISHED only if the stream holds the event, for any number of    *)
(* workers and any faults: mark_published runs only after an acknowledgement.  *)
THEOREM NothingLost == Spec => []PublishedIsStored
  <1>1. IInv => PublishedIsStored
    BY DEF IInv
  <1> QED BY <1>1, InitIInv, NextIInv, PTL DEF Spec

(* A row that is given up always has its dead letter: mark_dead and record are *)
(* one transaction.                                                            *)
THEOREM GivenUpIsLettered == Spec => []DeadIsLettered
  <1>1. IInv => DeadIsLettered
    BY DEF IInv
  <1> QED BY <1>1, InitIInv, NextIInv, PTL DEF Spec

-----------------------------------------------------------------------------
(* Leases.  A batch holds one item per row, and not the one being published.   *)
OneItemPerRow ==
    \A w \in Workers :
        /\ \A i, j \in batch[w] : i.row = j.row => i = j
        /\ pc[w] # "ready" => \A i \in batch[w] : i.row # item[w].row

\* The letter of a row that was not replayed and not overrun belongs to a DEAD row.
PendingIsDead == \A r \in Rows \ overrun : letter[r] = "pending" => status[r] = "DEAD"

\* The inductive invariant of the leases.
LInv == TypeOK /\ OneItemPerRow /\ LeaseExclusive /\ PendingIsDead

\* The empty outbox satisfies it.
LEMMA InitLInv == Init => LInv
  <1> SUFFICES ASSUME Init PROVE LInv
    OBVIOUS
  <1>1. TypeOK
    BY InitIInv DEF IInv
  <1> QED BY <1>1 DEF Init, LInv, OneItemPerRow, LeaseExclusive, PendingIsDead, Busy

(* A claim takes rows that nobody holds: they are not PUBLISHING, or their     *)
(* lease is no longer live.                                                    *)
LEMMA ClaimLease == ASSUME LInv, TypeOK', NEW w \in Workers, Claim(w) PROVE LInv'
  <1>1. PICK C \in SUBSET Eligible :
          /\ status' = [r \in Rows |-> IF r \in C THEN "PUBLISHING" ELSE status[r]]
          /\ lease' = [r \in Rows |-> IF r \in C THEN "live" ELSE lease[r]]
          /\ batch' = [batch EXCEPT ![w] = {[row |-> r, attempt |-> attempt[r] + 1] : r \in C}]
    BY Zenon DEF Claim
  <1>2. UNCHANGED <<letter, pc, item, overrun>> /\ pc[w] = "ready" /\ batch[w] = {}
    BY DEF Claim
  <1>3. \A r \in C : r \in Rows /\ ~(status[r] = "PUBLISHING" /\ lease[r] = "live")
    BY DEF Eligible
  <1>4. \A r \in C \ overrun : \A v \in Workers : ~Busy(v, r)
    BY <1>3 DEF LInv, LeaseExclusive
  <1>5. \A v \in Workers : \A r \in Rows : Busy(v, r)' => Busy(v, r) \/ (v = w /\ r \in C)
    BY <1>1, <1>2 DEF Busy, LInv, TypeOK
  <1>6. OneItemPerRow'
    BY <1>1, <1>2 DEF OneItemPerRow, LInv, TypeOK
  <1>7. LeaseExclusive'
    <2> SUFFICES ASSUME NEW r \in Rows \ overrun, NEW v \in Workers, Busy(v, r)'
                 PROVE  /\ status'[r] = "PUBLISHING" /\ lease'[r] = "live"
                        /\ \A u \in Workers : Busy(u, r)' => v = u
      BY <1>2 DEF LeaseExclusive
    <2>1. CASE r \in C
      BY <1>1, <1>4, <1>5, <2>1
    <2>2. CASE r \notin C
      BY <1>1, <1>5, <2>2 DEF LInv, LeaseExclusive
    <2> QED BY <2>1, <2>2
  <1>8. PendingIsDead'
    BY <1>1, <1>2 DEF PendingIsDead, LInv, Eligible
  <1> QED BY <1>6, <1>7, <1>8 DEF LInv

\* Taking an item up and publishing it change neither its lease nor who holds it.
LEMMA TakeLease == ASSUME LInv, TypeOK', NEW w \in Workers, Take(w) PROVE LInv'
  <1>1. PICK i \in batch[w] :
          /\ item' = [item EXCEPT ![w] = i]
          /\ batch' = [batch EXCEPT ![w] = @ \ {i}]
          /\ pc' = [pc EXCEPT ![w] = IF i.row \in Unreadable THEN "unreadable" ELSE "publishing"]
    BY Zenon DEF Take
  <1>2. UNCHANGED <<status, lease, letter, overrun>> /\ pc[w] = "ready"
    BY DEF Take, table
  <1>3. \A v \in Workers : \A r \in Rows : Busy(v, r)' => Busy(v, r)
    BY <1>1, <1>2 DEF Busy, LInv, TypeOK
  <1>4. OneItemPerRow'
    BY <1>1, <1>2 DEF OneItemPerRow, LInv, TypeOK
  <1> QED BY <1>2, <1>3, <1>4 DEF LInv, LeaseExclusive, PendingIsDead

\* A worker that marks the row it holds lets go of it.
LEMMA MarkLease == ASSUME LInv, TypeOK', NEW w \in Workers, Mark(w) PROVE LInv'
  <1>1. pc[w] # "ready"
    BY DEF Mark, MarkPublished, Reschedule, DeadLetter
  <1>2. PICK s \in Rows : s = item[w].row
    BY <1>1, HeldItem DEF LInv
  <1>3. /\ pc' = [pc EXCEPT ![w] = "ready"] /\ item' = [item EXCEPT ![w] = NoItem]
        /\ UNCHANGED <<batch, overrun>>
        /\ lease' = [lease EXCEPT ![s] = "none"]
        /\ \E to \in {"PUBLISHED", "FAILED", "DEAD"} :
             /\ status' = [status EXCEPT ![s] = to]
             /\ letter' = letter \/ (to = "DEAD" /\ letter' = [letter EXCEPT ![s] = IF @ = "none" THEN "pending" ELSE @])
    BY <1>2 DEF Mark, MarkPublished, Reschedule, DeadLetter, Settle, Done, Record
  <1>4. Busy(w, s)
    BY <1>1, <1>2 DEF Busy
  <1>5. \A v \in Workers : \A r \in Rows : Busy(v, r)' => Busy(v, r)
    BY <1>2, <1>3 DEF Busy, LInv, TypeOK
  <1>6. ~Busy(w, s)'
    BY <1>1, <1>2, <1>3 DEF Busy, LInv, TypeOK, OneItemPerRow
  <1>7. OneItemPerRow'
    BY <1>2, <1>3 DEF OneItemPerRow, LInv, TypeOK
  <1>8. LeaseExclusive'
    <2> SUFFICES ASSUME NEW r \in Rows \ overrun, NEW v \in Workers, Busy(v, r)'
                 PROVE  /\ status'[r] = "PUBLISHING" /\ lease'[r] = "live"
                        /\ \A u \in Workers : Busy(u, r)' => v = u
      BY <1>3 DEF LeaseExclusive
    <2>1. r # s
      BY <1>4, <1>5, <1>6 DEF LInv, LeaseExclusive
    <2> QED BY <1>3, <1>5, <2>1 DEF LInv, LeaseExclusive, TypeOK
  <1>9. PendingIsDead'
    BY <1>2, <1>3, <1>4 DEF PendingIsDead, LInv, LeaseExclusive, TypeOK
  <1> QED BY <1>7, <1>8, <1>9 DEF LInv

\* Publishing, crashes, clocks, the broker, producers and the operator.
LEMMA OtherLease ==
    ASSUME LInv, TypeOK',
           \/ \E w \in Workers : Publish(w) \/ Drop(w)
           \/ \E r \in Rows : Enqueue(r) \/ LeaseRunsOut(r) \/ BackoffEnds(r) \/ Replay(r)
           \/ BrokerFails \/ BrokerReturns
    PROVE  LInv'
  <1> USE DEF LInv
  <1>1. ASSUME NEW w \in Workers, Publish(w) PROVE LInv'
    <2>1. \A v \in Workers : \A r \in Rows : Busy(v, r)' => Busy(v, r)
      BY <1>1 DEF Publish, Acked, NotAcked, Busy, TypeOK
    <2>2. OneItemPerRow'
      BY <1>1 DEF Publish, Acked, NotAcked, OneItemPerRow, TypeOK
    <2> QED BY <1>1, <2>1, <2>2 DEF Publish, Acked, NotAcked, table, LeaseExclusive, PendingIsDead
  <1>2. ASSUME NEW w \in Workers, Drop(w) PROVE LInv'
    <2>1. \A v \in Workers : \A r \in Rows : Busy(v, r)' => Busy(v, r)
      BY <1>2 DEF Drop, Done, Busy, TypeOK
    <2>2. OneItemPerRow'
      BY <1>2 DEF Drop, Done, OneItemPerRow, TypeOK
    <2> QED BY <1>2, <2>1, <2>2 DEF Drop, table, LeaseExclusive, PendingIsDead
  <1>3. ASSUME NEW r \in Rows, Enqueue(r) \/ BackoffEnds(r) PROVE LInv'
    <2>1. \A v \in Workers : \A q \in Rows : Busy(v, q)' => Busy(v, q)
      BY <1>3 DEF Enqueue, BackoffEnds, Busy
    <2>2. OneItemPerRow'
      BY <1>3 DEF Enqueue, BackoffEnds, OneItemPerRow
    <2> QED BY <1>3, <2>1, <2>2 DEF Enqueue, BackoffEnds, LeaseExclusive, PendingIsDead, TypeOK
  <1>4. ASSUME NEW r \in Rows, LeaseRunsOut(r) PROVE LInv'
    <2>1. \A v \in Workers : \A q \in Rows : Busy(v, q)' => Busy(v, q)
      BY <1>4 DEF LeaseRunsOut, Busy
    <2>2. OneItemPerRow'
      BY <1>4 DEF LeaseRunsOut, OneItemPerRow
    <2>3. /\ UNCHANGED <<status, letter>> /\ lease' = [lease EXCEPT ![r] = "expired"]
          /\ overrun \subseteq overrun'
          /\ (\E w \in Workers : Busy(w, r)) => r \in overrun'
      BY <1>4 DEF LeaseRunsOut
    <2>4. PendingIsDead'
      BY <2>3 DEF PendingIsDead
    <2>5. LeaseExclusive'
      <3> SUFFICES ASSUME NEW q \in Rows \ overrun', NEW v \in Workers, Busy(v, q)'
                   PROVE  /\ status'[q] = "PUBLISHING" /\ lease'[q] = "live"
                          /\ \A u \in Workers : Busy(u, q)' => v = u
        BY DEF LeaseExclusive
      <3>1. Busy(v, q) /\ q \notin overrun /\ q # r
        BY <2>1, <2>3
      <3>2. /\ status[q] = "PUBLISHING" /\ lease[q] = "live"
            /\ \A u \in Workers : Busy(u, q) => v = u
        BY <3>1 DEF LeaseExclusive
      <3>3. lease'[q] = lease[q] /\ status'[q] = status[q]
        BY <2>3, <3>1 DEF TypeOK
      <3> QED BY <2>1, <3>2, <3>3
    <2> QED BY <2>2, <2>4, <2>5
  <1>5. ASSUME NEW r \in Rows, Replay(r) PROVE LInv'
    <2>1. \A v \in Workers : \A q \in Rows : Busy(v, q)' => Busy(v, q)
      BY <1>5 DEF Replay, Busy
    <2>2. OneItemPerRow'
      BY <1>5 DEF Replay, OneItemPerRow
    <2>3. PendingIsDead'
      BY <1>5 DEF Replay, PendingIsDead, TypeOK
    <2>4. LeaseExclusive'
      <3> SUFFICES ASSUME NEW q \in Rows \ overrun, NEW v \in Workers, Busy(v, q)'
                   PROVE  /\ status'[q] = "PUBLISHING" /\ lease'[q] = "live"
                          /\ \A u \in Workers : Busy(u, q)' => v = u
        BY <1>5 DEF Replay, LeaseExclusive
      <3>1. /\ status[q] = "PUBLISHING" /\ lease[q] = "live"
            /\ \A u \in Workers : Busy(u, q) => v = u
        BY <2>1 DEF LeaseExclusive
      <3>2. q # r
        BY <1>5, <3>1 DEF Replay, PendingIsDead
      <3>3. lease'[q] = lease[q] /\ status'[q] = status[q]
        BY <1>5, <3>2 DEF Replay, TypeOK
      <3> QED BY <2>1, <3>1, <3>3
    <2> QED BY <2>2, <2>3, <2>4
  <1>6. CASE BrokerFails \/ BrokerReturns
    <2>1. UNCHANGED <<status, lease, letter, pc, batch, item, overrun>>
      BY <1>6 DEF BrokerFails, BrokerReturns, table
    <2>2. \A v \in Workers : \A q \in Rows : Busy(v, q)' <=> Busy(v, q)
      BY <2>1 DEF Busy
    <2>3. OneItemPerRow' /\ PendingIsDead'
      BY <2>1 DEF OneItemPerRow, PendingIsDead
    <2>4. LeaseExclusive'
      BY <2>1, <2>2 DEF LeaseExclusive
    <2> QED BY <2>3, <2>4
  <1> QED BY <1>1, <1>2, <1>3, <1>4, <1>5, <1>6

\* Every step preserves the invariant of the leases.
LEMMA NextLInv == LInv /\ TypeOK' /\ [Next]_vars => LInv'
  <1> SUFFICES ASSUME LInv, TypeOK', [Next]_vars PROVE LInv'
    OBVIOUS
  <1>1. CASE UNCHANGED vars
    <2>1. \A v \in Workers : \A q \in Rows : Busy(v, q)' <=> Busy(v, q)
      BY <1>1 DEF vars, Busy
    <2>2. OneItemPerRow' /\ PendingIsDead'
      BY <1>1 DEF vars, LInv, OneItemPerRow, PendingIsDead
    <2>3. LeaseExclusive'
      BY <1>1, <2>1 DEF vars, LInv, LeaseExclusive
    <2> QED BY <2>2, <2>3 DEF LInv
  <1> QED BY <1>1, ClaimLease, TakeLease, MarkLease, OtherLease DEF Next, Relay

(* As long as no worker overran the lease of a row, one worker at most holds   *)
(* it, and it is PUBLISHING for as long as it is held.                         *)
THEOREM LeasesExclude == Spec => []LeaseExclusive
  <1>1. LInv => LeaseExclusive
    BY DEF LInv
  <1> QED BY <1>1, InitLInv, NextLInv, OutboxTypeCorrect, PTL DEF Spec

(* A settled row is not touched again unless it is replayed or its lease was   *)
(* overrun: the worker that marks it is the only one that holds it.            *)
THEOREM SettledForGood == Spec => SettledIsFinal
  <1> DEFINE Keeps == \A r \in Rows :
        status[r] \in {"PUBLISHED", "DEAD"} /\ r \notin overrun /\ letter'[r] = letter[r] =>
            status'[r] = status[r]
  <1>1. LInv /\ [Next]_vars => [Keeps]_vars
    <2> SUFFICES ASSUME LInv, Next, NEW r \in Rows,
                        status[r] \in {"PUBLISHED", "DEAD"}, r \notin overrun, letter'[r] = letter[r]
                 PROVE  status'[r] = status[r]
      OBVIOUS
    <2>1. \A w \in Workers : ~Busy(w, r)
      BY DEF LInv, LeaseExclusive
    <2>2. ASSUME NEW w \in Workers, Claim(w) PROVE status'[r] = status[r]
      BY <2>2 DEF Claim, Eligible
    <2>3. ASSUME NEW w \in Workers, Mark(w) PROVE status'[r] = status[r]
      <3>1. item[w].row # r
        BY <2>1, <2>3 DEF Busy, Mark, MarkPublished, Reschedule, DeadLetter
      <3> QED BY <2>3, <3>1
              DEF Mark, MarkPublished, Reschedule, DeadLetter, Settle, LInv, TypeOK
    <2>4. ASSUME NEW q \in Rows, Replay(q) PROVE status'[r] = status[r]
      BY <2>4 DEF Replay, LInv, TypeOK
    <2>5. ASSUME NEW q \in Rows, Enqueue(q) PROVE status'[r] = status[r]
      BY <2>5 DEF Enqueue, LInv, TypeOK
    <2> QED BY <2>2, <2>3, <2>4, <2>5
            DEF Next, Relay, Take, Publish, Acked, NotAcked, Drop, LeaseRunsOut, BackoffEnds,
                BrokerFails, BrokerReturns, table
  <1> QED BY <1>1, InitLInv, NextLInv, OutboxTypeCorrect, PTL DEF Spec, SettledIsFinal

(* The relay of events/publisher.py is safe for any number of workers, events, *)
(* attempts and faults.                                                        *)
THEOREM RelaySafe == Spec => RelayIsSafe
  BY OutboxTypeCorrect, NothingLost, GivenUpIsLettered, LeasesExclude, SettledForGood, PTL
     DEF RelayIsSafe
=============================================================================
