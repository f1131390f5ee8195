------------------------- MODULE EventConsumerProofs -------------------------
(* Safety of the durable consumer for every set of events and tasks, every     *)
(* delivery ceiling and every number of faults.                                *)
EXTENDS EventConsumer, TLAPS

\* A task about to acknowledge or terminate a message has stored the reason.
StoredFirst ==
    \A t \in Tasks :
        /\ task[t].pc = "ack" => effects[task[t].msg.event] > 0 \/ letter[task[t].msg.event] # "none"
        /\ task[t].pc = "term" => letter[task[t].msg.event] # "none"

(* Effects are counted by the receipt: there is none before the first receipt, *)
(* one at most behind a receipt that a replay has re-armed.                    *)
Counted ==
    \A e \in Events :
        /\ receipt[e] = "none" => effects[e] = 0 /\ letter[e] = "none"
        /\ receipt[e] = "PROCESSING" => effects[e] <= 1 /\ letter[e] = "replayed"
        /\ receipt[e] = "PROCESSED" => effects[e] > 0

\* The inductive invariant.
IInv ==
    TypeOK /\ OneEffectPerArming /\ SettledIsRecorded /\ DeadIsLettered /\ StoredFirst /\ Counted

\* What a task that is not idle holds.
LEMMA HeldMessage ==
    ASSUME TypeOK, NEW t \in Tasks, task[t].pc \in Steps
    PROVE  /\ task[t].msg \in Messages /\ task[t].n \in Nat /\ task[t].msg.event \in Events
           /\ task[t] # Idle
  BY DEF TypeOK, Idle, Steps, Messages

\* The empty stream satisfies the invariant.
LEMMA InitIInv == Init => IInv
  <1> SUFFICES ASSUME Init PROVE IInv
    OBVIOUS
  <1>1. TypeOK
    BY DEF Init, TypeOK, Idle, Finished
  <1>2. \A t \in Tasks : task[t].pc = "idle"
    BY DEF Init, Idle
  <1>3. \A m \in Messages : msg[m] = "none"
    BY DEF Init
  <1> QED BY <1>1, <1>2, <1>3
          DEF Init, IInv, OneEffectPerArming, SettledIsRecorded, DeadIsLettered, StoredFirst, Counted

(* Steps of a task and of the broker that store nothing: the task moves on,    *)
(* ends, or settles its message, and every reason it had is still stored.      *)
LEMMA NothingStored ==
    ASSUME IInv, TypeOK', UNCHANGED store,
           \A t \in Tasks : task'[t].pc \in {"ack", "term"} =>
              \/ task'[t] = task[t]
              \/ /\ task'[t].pc = "ack" /\ task'[t].msg = task[t].msg
                 /\ task[t].pc = "fetched" /\ receipt[task[t].msg.event] \in Finished,
           \A m \in Messages :
              \/ msg'[m] \notin {"acked", "termed"} \/ msg'[m] = msg[m]
              \/ \E t \in Tasks : task[t].pc \in Steps /\ task[t].msg = m /\
                    \/ msg'[m] = "acked" /\ task[t].pc = "ack"
                    \/ msg'[m] = "termed" /\ (task[t].pc = "term" \/ m.event \in Unparseable)
    PROVE  IInv'
  <1>1. UNCHANGED <<receipt, letter, effects>>
    BY DEF store
  <1>2. OneEffectPerArming' /\ DeadIsLettered' /\ Counted'
    BY <1>1 DEF IInv, OneEffectPerArming, DeadIsLettered, Counted
  <1>3. SettledIsRecorded'
    BY <1>1 DEF IInv, SettledIsRecorded, StoredFirst
  <1>4. StoredFirst'
    <2> SUFFICES ASSUME NEW t \in Tasks, task'[t].pc \in {"ack", "term"}
                 PROVE  /\ task'[t].pc = "ack" => effects[task'[t].msg.event] > 0 \/ letter[task'[t].msg.event] # "none"
                        /\ task'[t].pc = "term" => letter[task'[t].msg.event] # "none"
      BY <1>1 DEF StoredFirst
    <2>1. CASE task'[t] = task[t]
      BY <2>1 DEF IInv, StoredFirst
    <2>2. CASE task'[t] # task[t]
      <3>1. /\ task'[t].pc = "ack" /\ task'[t].msg = task[t].msg
            /\ task[t].pc = "fetched" /\ receipt[task[t].msg.event] \in Finished
        BY <2>2
      <3>2. task[t].msg.event \in Events
        BY <3>1, HeldMessage DEF IInv, Steps
      <3> QED BY <3>1, <3>2 DEF IInv, Counted, DeadIsLettered, Finished
    <2> QED BY <2>1, <2>2
  <1> QED BY <1>2, <1>3, <1>4 DEF IInv

\* Every step keeps the types.
LEMMA NextTypeOK == TypeOK /\ [Next]_vars => TypeOK'
  <1> SUFFICES ASSUME TypeOK, [Next]_vars PROVE TypeOK'
    OBVIOUS
  <1> USE DEF TypeOK
  <1>1. \A t \in Tasks, step \in Steps : task[t].pc \in Steps /\ Becomes(t, step) =>
           task' \in [Tasks -> {Idle} \cup [pc : Steps, msg : Messages, n : Nat]]
    BY HeldMessage DEF Becomes, At
  <1>2. \A t \in Tasks : Ends(t) => task' \in [Tasks -> {Idle} \cup [pc : Steps, msg : Messages, n : Nat]]
    BY DEF Ends
  <1>3. \A m \in Messages : Again(m) => msg' \in [Messages -> {"none", "queued", "pending", "acked", "termed", "exhausted"}]
    BY DEF Again
  <1>4. \A m \in Messages, as \in {"acked", "termed"} : Settled(m, as) =>
           msg' \in [Messages -> {"none", "queued", "pending", "acked", "termed", "exhausted"}]
    BY Zenon DEF Settled
  <1>5. \A t \in Tasks : task[t].pc \in Steps => task[t].msg \in Messages /\ task[t].msg.event \in Events
    BY HeldMessage
  <1>6. ASSUME NEW t \in Tasks, Fetch(t) PROVE TypeOK'
    BY <1>6 DEF Fetch, store, At, Steps
  <1>7. ASSUME NEW t \in Tasks, Malformed(t) \/ Ack(t) \/ Term(t) PROVE TypeOK'
    BY <1>2, <1>4, <1>5, <1>7 DEF Malformed, Ack, Term, store, Steps
  <1>8. ASSUME NEW t \in Tasks, Refuse(t) \/ Duplicate(t) \/ AckRaises(t) PROVE TypeOK'
    BY <1>1, <1>8 DEF Refuse, Duplicate, AckRaises, Readable, store, broker, Steps, Fault
  <1>9. ASSUME NEW e \in Events, Commit(e) PROVE
           receipt' \in [Events -> {"none", "PROCESSING"} \cup Finished] /\ effects' \in [Events -> Nat]
           /\ letter' = letter
    BY <1>9 DEF Commit, Finished
  <1>10. ASSUME NEW t \in Tasks, Handle(t) \/ CommitReplyLost(t) PROVE TypeOK'
    <2>1. task[t].pc \in Steps
      BY <1>10 DEF Handle, CommitReplyLost, Readable, Steps
    <2>2. \E step \in Steps : Becomes(t, step)
      BY <1>10 DEF Handle, CommitReplyLost, Steps
    <2>3. UNCHANGED store \/ Commit(task[t].msg.event)
      BY <1>10 DEF Handle, CommitReplyLost
    <2>4. faults' \in Nat /\ UNCHANGED broker
      BY <1>10 DEF Handle, CommitReplyLost, Fault
    <2> QED BY <1>1, <1>5, <1>9, <2>1, <2>2, <2>3, <2>4 DEF store, broker
  <1>11. ASSUME NEW t \in Tasks, RetryOrTerminal(t) \/ TerminalStoreFails(t) PROVE TypeOK'
    <2>1. task[t].pc \in Steps /\ "terminal" \in Steps
      BY <1>11 DEF RetryOrTerminal, TerminalStoreFails, Steps
    <2>2. (Becomes(t, "terminal") /\ UNCHANGED msg) \/ Nak(t)
      BY <1>11 DEF RetryOrTerminal, TerminalStoreFails
    <2>3. /\ msg' \in [Messages -> {"none", "queued", "pending", "acked", "termed", "exhausted"}]
          /\ task' \in [Tasks -> {Idle} \cup [pc : Steps, msg : Messages, n : Nat]]
      BY <1>1, <1>2, <1>3, <1>5, <2>1, <2>2 DEF Nak
    <2> QED BY <1>11, <2>3 DEF RetryOrTerminal, TerminalStoreFails, store, Fault
  <1>12. ASSUME NEW t \in Tasks, Terminal(t) PROVE TypeOK'
    BY <1>1, <1>5, <1>12 DEF Terminal, RecordTerminal, Finished, broker, Steps
  <1>13. ASSUME NEW t \in Tasks, Crash(t) PROVE TypeOK'
    BY <1>2, <1>13 DEF Crash, Fault, broker, store
  <1>14. ASSUME NEW e \in Events, Arrive(e) \/ Replay(e) PROVE TypeOK'
    <2>1. \A i \in {0, 1} : [event |-> e, replay |-> i] \in Messages
      BY DEF Messages
    <2>2. CASE Arrive(e)
      BY <2>1, <2>2 DEF Arrive, store
    <2>3. CASE Replay(e)
      BY <2>1, <2>3 DEF Replay, Rearm
    <2> QED BY <1>14, <2>2, <2>3
  <1>15. ASSUME NEW m \in Messages, AckWaitEnds(m) PROVE TypeOK'
    BY <1>3, <1>15 DEF AckWaitEnds, Fault, store
  <1>16. CASE UNCHANGED vars
    BY <1>16 DEF vars
  <1> QED BY <1>6, <1>7, <1>8, <1>10, <1>11, <1>12, <1>13, <1>14, <1>15, <1>16 DEF Next, Process

\* The handler's transaction is committed once per arming of the receipt.
LEMMA CommitStep ==
    ASSUME IInv, TypeOK', NEW t \in Tasks, task[t].pc = "fetched", UNCHANGED msg,
           ~AlreadyFinished(task[t].msg.event), Commit(task[t].msg.event),
           Becomes(t, "ack") \/ Becomes(t, "retry")
    PROVE  IInv'
  <1>1. PICK e \in Events : e = task[t].msg.event
    BY HeldMessage DEF IInv, Steps
  <1>2. /\ receipt' = [receipt EXCEPT ![e] = "PROCESSED"]
        /\ effects' = [effects EXCEPT ![e] = @ + 1] /\ letter' = letter
    BY <1>1 DEF Commit
  <1>3. receipt[e] = "none" \/ receipt[e] = "PROCESSING"
    BY <1>1 DEF AlreadyFinished, IInv, TypeOK
  <1>4. \A q \in Events : effects'[q] >= effects[q]
    BY <1>2 DEF IInv, TypeOK
  <1>5. OneEffectPerArming' /\ Counted' /\ DeadIsLettered'
    BY <1>2, <1>3 DEF IInv, TypeOK, OneEffectPerArming, Counted, DeadIsLettered
  <1>6. SettledIsRecorded'
    BY <1>2, <1>4 DEF IInv, TypeOK, SettledIsRecorded, Messages
  <1>7. StoredFirst'
    <2> SUFFICES ASSUME NEW u \in Tasks, task'[u].pc \in {"ack", "term"}
                 PROVE  /\ task'[u].pc = "ack" => effects'[task'[u].msg.event] > 0 \/ letter'[task'[u].msg.event] # "none"
                        /\ task'[u].pc = "term" => letter'[task'[u].msg.event] # "none"
      BY DEF StoredFirst
    <2>1. CASE u = t
      <3>1. task'[u].pc = "ack" /\ task'[u].msg.event = e
        BY <1>1, <2>1 DEF Becomes, At, IInv, TypeOK
      <3> QED BY <1>2, <3>1 DEF IInv, TypeOK
    <2>2. CASE u # t
      <3>1. task'[u] = task[u]
        BY <2>2 DEF Becomes, IInv, TypeOK
      <3>2. task[u].msg.event \in Events
        BY <3>1, HeldMessage DEF IInv, Steps
      <3> QED BY <1>2, <1>4, <3>1, <3>2 DEF IInv, TypeOK, StoredFirst
    <2> QED BY <2>1, <2>2
  <1> QED BY <1>5, <1>6, <1>7 DEF IInv

\* A DEAD receipt and its dead letter are stored together.
LEMMA TerminalStep == ASSUME IInv, TypeOK', NEW t \in Tasks, Terminal(t) PROVE IInv'
  <1>1. PICK e \in Events : e = task[t].msg.event
    BY HeldMessage DEF IInv, Steps, Terminal
  <1>2. /\ receipt' = [receipt EXCEPT ![e] = "DEAD"] /\ UNCHANGED <<effects, msg>>
        /\ letter' = [letter EXCEPT ![e] = IF @ = "none" THEN "pending" ELSE @]
    BY <1>1 DEF Terminal, RecordTerminal, broker
  <1>3. /\ \A q \in Events : letter[q] # "none" => letter'[q] # "none"
        /\ \A q \in Events : letter'[q] = "replayed" <=> letter[q] = "replayed"
        /\ letter'[e] # "none"
    BY <1>2 DEF IInv, TypeOK
  <1>4. OneEffectPerArming' /\ DeadIsLettered'
    BY <1>2, <1>3 DEF IInv, TypeOK, OneEffectPerArming, DeadIsLettered
  <1>5. Counted'
    BY <1>2, <1>3 DEF IInv, TypeOK, Counted
  <1>6. SettledIsRecorded'
    BY <1>2, <1>3 DEF IInv, TypeOK, SettledIsRecorded, Messages
  <1>7. StoredFirst'
    <2> SUFFICES ASSUME NEW u \in Tasks, task'[u].pc \in {"ack", "term"}
                 PROVE  /\ task'[u].pc = "ack" => effects'[task'[u].msg.event] > 0 \/ letter'[task'[u].msg.event] # "none"
                        /\ task'[u].pc = "term" => letter'[task'[u].msg.event] # "none"
      BY DEF StoredFirst
    <2>1. CASE u = t
      <3>1. task'[u].pc = "term" /\ task'[u].msg.event = e
        BY <1>1, <2>1 DEF Terminal, Becomes, At, IInv, TypeOK
      <3> QED BY <1>3, <3>1
    <2>2. CASE u # t
      <3>1. task'[u] = task[u]
        BY <2>2 DEF Terminal, Becomes, IInv, TypeOK
      <3>2. task[u].msg.event \in Events
        BY <3>1, HeldMessage DEF IInv, Steps
      <3> QED BY <1>2, <1>3, <3>1, <3>2 DEF IInv, StoredFirst
    <2> QED BY <2>1, <2>2
  <1> QED BY <1>4, <1>5, <1>6, <1>7 DEF IInv

\* A replay re-arms a receipt that stands for one effect at most.
LEMMA ReplayStep == ASSUME IInv, TypeOK', NEW e \in Events, Replay(e) PROVE IInv'
  <1>1. /\ letter[e] = "pending" /\ letter' = [letter EXCEPT ![e] = "replayed"]
        /\ receipt' = [receipt EXCEPT ![e] = "PROCESSING"] /\ UNCHANGED <<task, effects>>
    BY DEF Replay, Rearm
  <1>2. \A m \in Messages : msg'[m] \in {"acked", "termed"} => msg'[m] = msg[m]
    BY DEF Replay, IInv, TypeOK
  <1>3. \A q \in Events : letter[q] # "none" => letter'[q] # "none"
    BY <1>1 DEF IInv, TypeOK
  <1>4. OneEffectPerArming' /\ DeadIsLettered' /\ Counted'
    BY <1>1 DEF IInv, TypeOK, OneEffectPerArming, DeadIsLettered, Counted
  <1>5. SettledIsRecorded'
    BY <1>1, <1>2, <1>3 DEF IInv, SettledIsRecorded, Messages
  <1>6. StoredFirst'
    BY <1>1, <1>3, HeldMessage DEF IInv, StoredFirst, Steps
  <1> QED BY <1>4, <1>5, <1>6 DEF IInv

\* Every step preserves the invariant.
LEMMA NextIInv == IInv /\ [Next]_vars => IInv'
  <1> SUFFICES ASSUME IInv, [Next]_vars PROVE IInv'
    OBVIOUS
  <1>1. TypeOK /\ TypeOK'
    BY NextTypeOK DEF IInv
  <1> DEFINE Quiet(t) == task'[t].pc \in {"ack", "term"} =>
              \/ task'[t] = task[t]
              \/ /\ task'[t].pc = "ack" /\ task'[t].msg = task[t].msg
                 /\ task[t].pc = "fetched" /\ receipt[task[t].msg.event] \in Finished
             Kept(m) == msg'[m] \notin {"acked", "termed"} \/ msg'[m] = msg[m]
  <1>2. ASSUME NEW t \in Tasks, Ends(t) PROVE \A u \in Tasks : Quiet(u)
    BY <1>1, <1>2 DEF Ends, Idle, TypeOK
  <1>3. ASSUME NEW t \in Tasks, Becomes(t, "retry") \/ Becomes(t, "terminal") PROVE \A u \in Tasks : Quiet(u)
    BY <1>1, <1>3 DEF Becomes, At, TypeOK
  <1>4. ASSUME NEW n \in Messages, Again(n) PROVE \A m \in Messages : Kept(m)
    BY <1>1, <1>4 DEF Again, TypeOK
  <1>5. ASSUME NEW t \in Tasks, Fetch(t) PROVE IInv'
    <2>1. (\A u \in Tasks : Quiet(u)) /\ \A m \in Messages : Kept(m)
      BY <1>1, <1>5 DEF Fetch, At, TypeOK
    <2> QED BY <1>1, <1>5, <2>1, NothingStored DEF Fetch
  <1>6. ASSUME NEW t \in Tasks, Malformed(t) \/ Ack(t) \/ Term(t) PROVE IInv'
    <2>1. task[t].msg \in Messages /\ task[t].pc \in Steps
      BY <1>1, <1>6, HeldMessage DEF Malformed, Ack, Term, Steps
    <2>2. \A m \in Messages : Kept(m) \/
            /\ task[t].msg = m
            /\ \/ msg'[m] = "acked" /\ task[t].pc = "ack"
               \/ msg'[m] = "termed" /\ (task[t].pc = "term" \/ m.event \in Unparseable)
      BY <1>1, <1>6, <2>1 DEF Malformed, Ack, Term, Settled, TypeOK
    <2>3. \A u \in Tasks : Quiet(u)
      BY <1>2, <1>6 DEF Malformed, Ack, Term
    <2> QED BY <1>1, <1>6, <2>1, <2>2, <2>3, NothingStored DEF Malformed, Ack, Term
  <1>7. ASSUME NEW t \in Tasks, Refuse(t) \/ AckRaises(t) PROVE IInv'
    <2>1. \A u \in Tasks : Quiet(u)
      BY <1>3, <1>7 DEF Refuse, AckRaises
    <2> QED BY <1>1, <1>7, <2>1, NothingStored DEF Refuse, AckRaises, broker
  <1>8. ASSUME NEW t \in Tasks, Duplicate(t) PROVE IInv'
    <2>1. \A u \in Tasks : Quiet(u)
      BY <1>1, <1>8 DEF Duplicate, Readable, AlreadyFinished, Becomes, At, TypeOK
    <2> QED BY <1>1, <1>8, <2>1, NothingStored DEF Duplicate, broker
  <1>9. ASSUME NEW t \in Tasks, Handle(t) PROVE IInv'
    <2>1. CASE UNCHANGED store /\ (Becomes(t, "retry") \/ Becomes(t, "terminal"))
      <3>1. \A u \in Tasks : Quiet(u)
        BY <1>3, <2>1
      <3> QED BY <1>1, <1>9, <2>1, <3>1, NothingStored DEF Handle, broker
    <2>2. CASE Commit(task[t].msg.event) /\ Becomes(t, "ack")
      BY <1>1, <1>9, <2>2, CommitStep DEF Handle, Readable, broker
    <2> QED BY <1>9, <2>1, <2>2 DEF Handle
  <1>10. ASSUME NEW t \in Tasks, CommitReplyLost(t) PROVE IInv'
    BY <1>1, <1>10, CommitStep DEF CommitReplyLost, Readable, broker
  <1>11. ASSUME NEW t \in Tasks, RetryOrTerminal(t) \/ TerminalStoreFails(t) PROVE IInv'
    <2>1. UNCHANGED store /\ ((Becomes(t, "terminal") /\ UNCHANGED msg) \/ Nak(t))
      BY <1>11 DEF RetryOrTerminal, TerminalStoreFails
    <2>2. task[t].msg \in Messages
      BY <1>1, <1>11, HeldMessage DEF RetryOrTerminal, TerminalStoreFails, Steps
    <2>3. \A u \in Tasks : Quiet(u)
      BY <1>2, <1>3, <2>1 DEF Nak
    <2>4. \A m \in Messages : Kept(m)
      BY <1>4, <2>1, <2>2 DEF Nak
    <2> QED BY <1>1, <2>1, <2>3, <2>4, NothingStored
  <1>12. ASSUME NEW t \in Tasks, Crash(t) PROVE IInv'
    <2>1. \A u \in Tasks : Quiet(u)
      BY <1>2, <1>12 DEF Crash
    <2> QED BY <1>1, <1>12, <2>1, NothingStored DEF Crash, broker
  <1>13. ASSUME NEW e \in Events, Arrive(e) PROVE IInv'
    <2>1. (\A u \in Tasks : Quiet(u)) /\ \A m \in Messages : Kept(m)
      BY <1>1, <1>13 DEF Arrive, TypeOK
    <2> QED BY <1>1, <1>13, <2>1, NothingStored DEF Arrive
  <1>14. ASSUME NEW m \in Messages, AckWaitEnds(m) PROVE IInv'
    <2>1. (\A u \in Tasks : Quiet(u)) /\ \A n \in Messages : Kept(n)
      BY <1>4, <1>14 DEF AckWaitEnds
    <2> QED BY <1>1, <1>14, <2>1, NothingStored DEF AckWaitEnds
  <1>15. CASE UNCHANGED vars
    <2>1. UNCHANGED store /\ (\A u \in Tasks : Quiet(u)) /\ \A m \in Messages : Kept(m)
      BY <1>15 DEF vars, store
    <2> QED BY <1>1, <2>1, NothingStored
  <1> QED BY <1>1, <1>5, <1>6, <1>7, <1>8, <1>9, <1>10, <1>11, <1>12, <1>13, <1>14, <1>15,
             TerminalStep, ReplayStep DEF Next, Process

\* The messages, the tasks and the stored rows keep their types.
THEOREM ConsumerTypeCorrect == Spec => []TypeOK
  <1>1. IInv => TypeOK
    BY DEF IInv
  <1> QED BY <1>1, InitIInv, NextIInv, PTL DEF Spec

(* Any number of deliveries, in any number of tasks, commit the handler's      *)
(* effect once, and once more after a replay.                                  *)
THEOREM EffectHappensOnce == Spec => []OneEffectPerArming
  <1>1. IInv => OneEffectPerArming
    BY DEF IInv
  <1> QED BY <1>1, InitIInv, NextIInv, PTL DEF Spec

(* No message is acknowledged or terminated before the database holds the      *)
(* reason: the receipt with its effect, or the dead letter.                    *)
THEOREM AckedAfterCommit == Spec => [](SettledIsRecorded /\ DeadIsLettered)
  <1>1. IInv => SettledIsRecorded /\ DeadIsLettered
    BY DEF IInv
  <1> QED BY <1>1, InitIInv, NextIInv, PTL DEF Spec

(* The consumer of events/consumer.py is safe for any number of tasks, events, *)
(* deliveries and faults.                                                      *)
THEOREM ConsumerSafe == Spec => []ConsumerIsSafe
  <1>1. IInv => ConsumerIsSafe
    BY DEF IInv, ConsumerIsSafe
  <1> QED BY <1>1, InitIInv, NextIInv, PTL DEF Spec
=============================================================================
