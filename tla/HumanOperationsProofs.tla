------------------------ MODULE HumanOperationsProofs ------------------------
(* Human operations for every set of work items, conversations, agents and     *)
(* concurrent requests: an agent's request never commits on rows that changed  *)
(* after it read them, and a conversation never has a dead owner.              *)
EXTENDS HumanOperations, TLAPS

Items == [state : WorkStates, current : Ids \cup {0}, lease : Nat, queue : Queues \cup {"none"}]
Assignments == [state : AssignmentStates, work : Works \cup {"none"},
                owner : Agents \cup {"none"}, lease : Nat]
Modes == {"AI", "HUMAN", "UNASSIGNED"}
Holders == Ids \cup {0}
Sessions == Returns \cup {NoReturn}
Owners == [mode : Modes, gen : Nat, asg : Holders, session : Sessions]
HandoffStates == {"none", "AI_RETURN_PENDING", "AMBIGUOUS", "ACCEPTED", "P13_REJECTED"}
Handoffs == [state : HandoffStates, work : Works \cup {"none"}, gen : Nat]

Probed == [op : {"probed"}, id : Ids, a : Assignments, w : Items, g : Nat]
Cancelling == [op : {"cancel"}, id : Works, w : Items]
Returning == [op : {"returning"}, key : Returns]
Answered == [op : {"bind", "reject"}, key : Returns, h : Handoffs, w : Items]
Sending == [op : {"sending"}, key : Sends]
Finalizing == [op : {"finalize"}, key : Sends, state : {"CONSUMED", "FAILED", "AMBIGUOUS"}]
Calls == {NoCall} \cup Probed \cup Cancelling \cup Returning \cup Answered \cup Sending \cup Finalizing

RowsOK ==
    /\ work \in [Works -> Items] /\ asg \in [Ids -> Assignments]
    /\ own \in [Conversations -> Owners] /\ handoff \in [Returns -> Handoffs]
    /\ call \in [Callers -> Calls] /\ enabled \subseteq Queues

Gen(w) == own[ConvOf[w]].gen
IsOf(i, w) == asg[i].state # "none" /\ asg[i].work = w

\* An assignment belongs to a work item, and the current one of an item to it.
References ==
    /\ \A i \in Ids : asg[i].state # "none" => asg[i].work \in Works
    /\ \A w \in Works : work[w].current # 0 => IsOf(work[w].current, w)

\* A return is not ahead of its conversation, and behind it once accepted.
ReturnsAreBehind ==
    \A k \in Returns : handoff[k].state # "none" =>
        /\ handoff[k].work \in Works /\ handoff[k].gen <= Gen(handoff[k].work)
        /\ handoff[k].state = "ACCEPTED" => handoff[k].gen < Gen(handoff[k].work)

(* What a request read is still true in the generation it read it in: this is  *)
(* what makes the comparison of generations enough.                            *)
ProbeHolds(c) ==
    call[c].op = "probed" =>
        /\ ItemOf(c) \in Works /\ IsOf(call[c].id, ItemOf(c))
        /\ call[c].a.state # "none" /\ call[c].g <= Gen(ItemOf(c))
        /\ call[c].g = Gen(ItemOf(c)) => ~Stale(c)
CancelHolds(c) ==
    call[c].op = "cancel" /\ call[c].w.current # 0 => IsOf(call[c].w.current, call[c].id)
AnswerHolds(c) ==
    /\ call[c].op = "returning" => handoff[call[c].key].state # "none"
    /\ call[c].op \in {"bind", "reject"} =>
         /\ handoff[call[c].key].state # "none"
         /\ call[c].h.work = handoff[call[c].key].work /\ call[c].h.gen = handoff[call[c].key].gen
         /\ Gen(call[c].h.work) = call[c].h.gen =>
              work[call[c].h.work] = call[c].w /\ call[c].h.state # "ACCEPTED"
CallHolds(c) == ProbeHolds(c) /\ CancelHolds(c) /\ AnswerHolds(c)

\* OwnerIsLive, and where the owner's rows belong.
OwnerHolds(v) ==
    /\ own[v].mode = "HUMAN" =>
         own[v].asg \in Ids /\ asg[own[v].asg].state = "ACTIVE" /\ ConvOf[asg[own[v].asg].work] = v
    /\ own[v].mode = "AI" =>
         /\ own[v].session \in Returns /\ handoff[own[v].session].state = "ACCEPTED"
         /\ ConvOf[handoff[own[v].session].work] = v
         /\ own[v].gen = handoff[own[v].session].gen + 1

\* The inductive invariant.
HumansIInv ==
    /\ RowsOK /\ References /\ ReturnsAreBehind /\ AgentsAreFenced
    /\ \A c \in Callers : CallHolds(c)
    /\ \A v \in Conversations : OwnerHolds(v)

\* What a caller holds follows from what it is doing.
LEMMA CallKinds ==
    ASSUME RowsOK, NEW c \in Callers
    PROVE  /\ call[c].op = "probed" => call[c] \in Probed
           /\ call[c].op = "cancel" => call[c] \in Cancelling
           /\ call[c].op = "returning" => call[c] \in Returning
           /\ call[c].op \in {"bind", "reject"} => call[c] \in Answered
           /\ call[c].op = "sending" => call[c] \in Sending
  <1>1. call[c] \in Calls
    BY DEF RowsOK
  <1> QED BY <1>1 DEF Calls, NoCall, Probed, Cancelling, Returning, Answered, Sending, Finalizing

\* A flush of a work item writes a field that was changed and keeps the others.
LEMMA FlushItem ==
    ASSUME NEW row \in Items, NEW seen \in Items, NEW new \in Items
    PROVE  /\ Flush(row, seen, new) \in Items
           /\ Flush(row, seen, new).current =
                IF new.current = seen.current THEN row.current ELSE new.current
  <1> DEFINE y == [state |-> IF new.state = seen.state THEN row.state ELSE new.state,
                   current |-> IF new.current = seen.current THEN row.current ELSE new.current,
                   lease |-> IF new.lease = seen.lease THEN row.lease ELSE new.lease,
                   queue |-> IF new.queue = seen.queue THEN row.queue ELSE new.queue]
  <1>1. Flush(row, seen, new) = y
    BY DEF Flush, Items
  <1>2. y \in Items
    BY DEF Items
  <1> QED BY <1>1, <1>2

\* Only the state of an assignment or of a return is ever flushed.
LEMMA FlushAssignment ==
    ASSUME NEW row \in Assignments, NEW seen \in Assignments, NEW s \in AssignmentStates
    PROVE  Flush(row, seen, [seen EXCEPT !.state = s]) =
             [row EXCEPT !.state = IF s = seen.state THEN @ ELSE s]
  BY DEF Flush, Assignments

LEMMA FlushHandoff ==
    ASSUME NEW row \in Handoffs, NEW seen \in Handoffs, NEW s \in HandoffStates
    PROVE  Flush(row, seen, [seen EXCEPT !.state = s]) =
             [row EXCEPT !.state = IF s = seen.state THEN @ ELSE s]
  BY DEF Flush, Handoffs

(* The shape of every step that changes an assignment or a work item: it does  *)
(* so within one conversation, whose generation it increases.                  *)
Moves(v) ==
    /\ own'[v].gen = own[v].gen + 1
    /\ \A u \in Conversations \ {v} : own'[u] = own[u]
    /\ \A w \in Works : ConvOf[w] # v => work'[w] = work[w]
    /\ \A i \in Ids : asg[i].state # "none" =>
         /\ asg'[i].state # "none" /\ asg'[i].work = asg[i].work
         /\ ConvOf[asg[i].work] # v => asg'[i] = asg[i]
Stays == UNCHANGED <<work, asg, own>>

\* A return keeps its work item and its generation.
KeepsReturns ==
    \A k \in Returns : handoff[k].state # "none" =>
        /\ handoff'[k].state # "none"
        /\ handoff'[k].work = handoff[k].work /\ handoff'[k].gen = handoff[k].gen

\* What a waiting request knows survives the steps of the others.
LEMMA CallsCarry ==
    ASSUME HumansIInv, RowsOK', KeepsReturns, NEW v \in Conversations, Moves(v) \/ Stays,
           NEW c \in Callers, call'[c] = call[c]
    PROVE  CallHolds(c)'
  <1>1. /\ RowsOK /\ References /\ ReturnsAreBehind /\ CallHolds(c)
        /\ ConvOf \in [Works -> Conversations]
    BY HumansAssumption DEF HumansIInv
  <1>2. \A w \in Works : /\ Gen(w) \in Nat /\ Gen(w)' \in Nat /\ Gen(w)' >= Gen(w)
                         /\ Gen(w)' = Gen(w) => work'[w] = work[w]
    BY <1>1 DEF Moves, Stays, RowsOK, Owners, Gen
  <1>3. \A i \in Ids : asg[i].state # "none" =>
          /\ asg'[i].state # "none" /\ asg'[i].work = asg[i].work
          /\ Gen(asg[i].work)' = Gen(asg[i].work) => asg'[i] = asg[i]
    BY <1>1 DEF Moves, Stays, RowsOK, Owners, Gen, References
  <1>4. ProbeHolds(c)'
    <2> SUFFICES ASSUME call[c].op = "probed" PROVE ProbeHolds(c)'
      BY DEF ProbeHolds
    <2>1. call[c].id \in Ids /\ call[c].g \in Nat
      BY <1>1, CallKinds DEF Probed
    <2>2. ItemOf(c)' = ItemOf(c) /\ ItemOf(c) \in Works /\ IsOf(call[c].id, ItemOf(c))
      BY <1>1 DEF CallHolds, ProbeHolds, ItemOf
    <2> QED BY <1>1, <1>2, <1>3, <2>1, <2>2 DEF CallHolds, ProbeHolds, ItemOf, IsOf, Stale
  <1>5. CancelHolds(c)'
    <2> SUFFICES ASSUME call[c].op = "cancel", call[c].w.current # 0
                 PROVE  IsOf(call[c].w.current, call[c].id)'
      BY DEF CancelHolds
    <2>1. call[c].w.current \in Ids
      BY <1>1, CallKinds DEF Cancelling, Items
    <2> QED BY <1>1, <1>3, <2>1 DEF CallHolds, CancelHolds, IsOf
  <1>6. AnswerHolds(c)'
    <2>1. CASE call[c].op = "returning"
      <3>1. call[c].key \in Returns
        BY <1>1, <2>1, CallKinds DEF Returning
      <3> QED BY <1>1, <2>1, <3>1 DEF CallHolds, AnswerHolds, KeepsReturns
    <2>2. CASE call[c].op \in {"bind", "reject"}
      <3>1. call[c].key \in Returns /\ call[c].h \in Handoffs
        BY <1>1, <2>2, CallKinds DEF Answered
      <3>2. /\ handoff[call[c].key].state # "none"
            /\ call[c].h.work = handoff[call[c].key].work /\ call[c].h.gen = handoff[call[c].key].gen
            /\ Gen(call[c].h.work) = call[c].h.gen => work[call[c].h.work] = call[c].w /\ call[c].h.state # "ACCEPTED"
        BY <1>1, <2>2 DEF CallHolds, AnswerHolds
      <3>3. call[c].h.work \in Works /\ call[c].h.gen <= Gen(call[c].h.work)
        BY <1>1, <3>1, <3>2 DEF ReturnsAreBehind
      <3>4. call[c].h.gen \in Nat
        BY <3>1 DEF Handoffs
      <3>5. Gen(call[c].h.work)' = call[c].h.gen => Gen(call[c].h.work)' = Gen(call[c].h.work)
        BY <1>2, <3>3, <3>4
      <3> QED BY <1>2, <2>2, <3>1, <3>2, <3>3, <3>5, Zenon DEF AnswerHolds, KeepsReturns, Gen
    <2> QED BY <2>1, <2>2 DEF AnswerHolds
  <1> QED BY <1>4, <1>5, <1>6 DEF CallHolds

\* Conversations that a step does not move keep their owner.
LEMMA OwnersCarry ==
    ASSUME HumansIInv, NEW v \in Conversations, Moves(v) \/ Stays,
           NEW u \in Conversations, u # v \/ Stays,
           \A k \in Returns : handoff[k].state = "ACCEPTED" =>
               handoff'[k] = handoff[k] \/ (ConvOf[handoff[k].work] = v /\ ~Stays)
    PROVE  OwnerHolds(u)'
  <1>1. RowsOK /\ References /\ OwnerHolds(u) /\ own'[u] = own[u]
    BY DEF HumansIInv, Moves, Stays
  <1>2. own[u].mode = "HUMAN" => asg'[own[u].asg] = asg[own[u].asg]
    BY <1>1 DEF OwnerHolds, Moves, Stays
  <1>3. own[u].mode = "AI" => handoff'[own[u].session] = handoff[own[u].session]
    BY <1>1 DEF OwnerHolds
  <1> QED BY <1>1, <1>2, <1>3 DEF OwnerHolds

\* Returns stay behind generations that only grow.
LEMMA ReturnsCarry ==
    ASSUME HumansIInv, RowsOK', NEW v \in Conversations, Moves(v) \/ Stays,
           NEW k \in Returns, handoff'[k].work = handoff[k].work, handoff'[k].gen = handoff[k].gen,
           handoff[k].state # "none",
           handoff'[k].state = "ACCEPTED" => handoff[k].state = "ACCEPTED"
                                             \/ (ConvOf[handoff[k].work] = v /\ Moves(v))
    PROVE  /\ handoff'[k].work \in Works /\ handoff'[k].gen <= Gen(handoff[k].work)'
           /\ handoff'[k].state = "ACCEPTED" => handoff'[k].gen < Gen(handoff[k].work)'
  <1>1. /\ handoff[k].work \in Works /\ handoff[k].gen <= Gen(handoff[k].work)
        /\ handoff[k].state = "ACCEPTED" => handoff[k].gen < Gen(handoff[k].work)
        /\ handoff[k].gen \in Nat /\ ConvOf \in [Works -> Conversations] /\ RowsOK
    BY HumansAssumption DEF HumansIInv, ReturnsAreBehind, RowsOK, Handoffs
  <1>2. /\ Gen(handoff[k].work) \in Nat /\ Gen(handoff[k].work)' \in Nat
        /\ Gen(handoff[k].work)' >= Gen(handoff[k].work)
        /\ ConvOf[handoff[k].work] = v /\ Moves(v) => Gen(handoff[k].work)' > Gen(handoff[k].work)
    BY <1>1 DEF Moves, Stays, RowsOK, Owners, Gen
  <1> QED BY <1>1, <1>2

\* A step that changes at most what one caller does and the doubt about a return.
LEMMA OnlyCalls ==
    ASSUME HumansIInv, RowsOK', Stays, raced' = raced, KeepsReturns,
           \A k \in Returns : /\ handoff[k].state = "none" => handoff'[k] = handoff[k]
                              /\ handoff[k].state = "ACCEPTED" => handoff'[k] = handoff[k]
                              /\ handoff'[k].state = "ACCEPTED" => handoff[k].state = "ACCEPTED",
           \A d \in Callers : call'[d] = call[d] \/ CallHolds(d)'
    PROVE  HumansIInv'
  <1>1. References' /\ AgentsAreFenced'
    BY DEF HumansIInv, Stays, References, IsOf, AgentsAreFenced
  <1>2. ReturnsAreBehind'
    BY DEF HumansIInv, Stays, ReturnsAreBehind, Gen, KeepsReturns
  <1>3. ASSUME NEW v \in Conversations PROVE OwnerHolds(v)'
    BY DEF HumansIInv, OwnerHolds, Stays
  <1>4. ASSUME NEW d \in Callers, call'[d] = call[d] PROVE CallHolds(d)'
    <2>1. CASE Conversations = {}
      <3>1. Works = {}
        BY <2>1, HumansAssumption
      <3>2. \A k \in Returns : handoff[k].state = "none" /\ handoff'[k] = handoff[k]
        BY <3>1 DEF HumansIInv, ReturnsAreBehind
      <3>3. ProbeHolds(d)' /\ CancelHolds(d)'
        BY <1>4, <3>1 DEF HumansIInv, CallHolds, ProbeHolds, CancelHolds, Stays, IsOf, ItemOf
      <3>4. AnswerHolds(d)'
        <4>1. call[d].op \in {"returning", "bind", "reject"} => call[d].key \in Returns
          BY CallKinds DEF HumansIInv, Returning, Answered
        <4> QED BY <1>4, <3>2, <4>1 DEF HumansIInv, CallHolds, AnswerHolds
      <3> QED BY <3>3, <3>4 DEF CallHolds
    <2>2. CASE Conversations # {}
      BY <1>4, <2>2, CallsCarry
    <2> QED BY <2>1, <2>2
  <1> QED BY <1>1, <1>2, <1>3, <1>4 DEF HumansIInv

(* A step that moves conversation v and leaves the returns alone: it remains   *)
(* to show what it does to v's owner, to its references and to its caller.     *)
LEMMA MoveKeepsIInv ==
    ASSUME HumansIInv, RowsOK', References', NEW v \in Conversations, Moves(v), KeepsReturns,
           OwnerHolds(v)', raced' \subseteq raced \cup {"other"},
           \A k \in Returns : \/ handoff'[k] = handoff[k]
                              \/ /\ handoff[k].state # "none" /\ ConvOf[handoff[k].work] = v
                              \/ /\ handoff[k].state = "none" /\ handoff'[k].work \in Works
                                 /\ ConvOf[handoff'[k].work] = v
                                 /\ handoff'[k].gen = own'[v].gen /\ handoff'[k].state # "ACCEPTED",
           \A d \in Callers : call'[d] = call[d] \/ CallHolds(d)'
    PROVE  HumansIInv'
  <1>1. AgentsAreFenced'
    BY DEF HumansIInv, AgentsAreFenced
  <1>2. ReturnsAreBehind'
    <2> SUFFICES ASSUME NEW k \in Returns, handoff'[k].state # "none"
                 PROVE /\ handoff'[k].work \in Works /\ handoff'[k].gen <= Gen(handoff[k].work)'
                       /\ handoff'[k].state = "ACCEPTED" => handoff'[k].gen < Gen(handoff[k].work)'
      BY DEF ReturnsAreBehind
    <2>1. CASE handoff[k].state # "none"
      BY <2>1, ReturnsCarry DEF KeepsReturns
    <2>2. CASE handoff[k].state = "none"
      <3>1. handoff'[k].work \in Works /\ ConvOf[handoff'[k].work] = v
            /\ handoff'[k].gen = own'[v].gen /\ handoff'[k].state # "ACCEPTED"
        BY <2>2
      <3>2. own'[v].gen \in Nat
        BY DEF RowsOK, Owners
      <3> QED BY <3>1, <3>2 DEF Gen
    <2> QED BY <2>1, <2>2
  <1>3. ASSUME NEW u \in Conversations PROVE OwnerHolds(u)'
    <2>1. CASE u = v
      BY <2>1
    <2>2. CASE u # v
      <3>1. ~Stays
        BY DEF Moves, Stays, HumansIInv, RowsOK, Owners
      <3> QED BY <2>2, <3>1, OwnersCarry
    <2> QED BY <2>1, <2>2
  <1>4. ASSUME NEW d \in Callers PROVE CallHolds(d)'
    BY CallsCarry
  <1> QED BY <1>1, <1>2, <1>3, <1>4 DEF HumansIInv


\* Authority passes: one conversation gets a new generation.
LEMMA PassesOn ==
    ASSUME RowsOK, NEW v \in Conversations, NEW mode \in Modes, NEW i \in Holders,
           NEW s \in Sessions, Passes(v, mode, i, s)
    PROVE  /\ own' \in [Conversations -> Owners] /\ own[v].gen \in Nat
           /\ own'[v].gen = own[v].gen + 1 /\ own'[v].mode = mode
           /\ own'[v].asg = i /\ own'[v].session = s
           /\ \A u \in Conversations \ {v} : own'[u] = own[u]
  <1> DEFINE o == [mode |-> mode, gen |-> own[v].gen + 1, asg |-> i, session |-> s]
  <1>1. own[v].gen \in Nat
    BY DEF RowsOK, Owners
  <1>2. o \in Owners
    BY <1>1 DEF Owners
  <1>3. own' = [own EXCEPT ![v] = o]
    BY DEF Passes
  <1> QED BY <1>1, <1>2, <1>3 DEF RowsOK

(* A step on work item w: what an operation writes, reduced to what the        *)
(* invariant depends on.                                                       *)
WritesRows(w, y) ==
    /\ work' = [work EXCEPT ![w] = y] /\ asg' \in [Ids -> Assignments]
    /\ \A j \in Ids : asg[j].state # "none" =>
         /\ asg'[j].state # "none" /\ asg'[j].work = asg[j].work
         /\ asg[j].work # w => asg'[j] = asg[j]
    /\ \A j \in Ids : asg'[j].state # "none" => asg[j].state # "none" \/ asg'[j].work = w
    /\ \/ y.current \in {0, work[w].current}
       \/ asg'[y.current].state # "none" /\ asg'[y.current].work = w
WritesOwner(w, mode, i, s) ==
    /\ mode \in Modes /\ i \in Holders /\ s \in Sessions /\ Passes(ConvOf[w], mode, i, s)
    /\ mode = "HUMAN" => i \in Ids /\ asg'[i].state = "ACTIVE" /\ asg'[i].work = w
    /\ mode = "AI" => /\ s \in Returns /\ handoff'[s].state = "ACCEPTED"
                      /\ handoff'[s].work = w /\ handoff'[s].gen = own[ConvOf[w]].gen
WritesReturns(w) ==
    /\ handoff' \in [Returns -> Handoffs] /\ KeepsReturns
    /\ \A k \in Returns : \/ handoff'[k] = handoff[k]
                          \/ handoff[k].state # "none" /\ handoff[k].work = w
                          \/ /\ handoff[k].state = "none" /\ handoff'[k].work = w
                             /\ handoff'[k].gen = own[ConvOf[w]].gen + 1
                             /\ handoff'[k].state # "ACCEPTED"
Fenced == enabled' = enabled /\ raced' \subseteq raced \cup {"other"}
KnownCalls == call' \in [Callers -> Calls] /\ \A d \in Callers : call'[d] = call[d] \/ CallHolds(d)'

LEMMA ItemStep ==
    ASSUME HumansIInv, NEW w \in Works, NEW y \in Items, WritesRows(w, y),
           NEW mode, NEW i, NEW s, WritesOwner(w, mode, i, s), WritesReturns(w), Fenced, KnownCalls
    PROVE  HumansIInv'
  <1>1. RowsOK /\ References
    BY DEF HumansIInv
  <1>2. PICK v \in Conversations : v = ConvOf[w]
    BY HumansAssumption
  <1>20. /\ own' \in [Conversations -> Owners] /\ own[v].gen \in Nat
        /\ own'[v].gen = own[v].gen + 1 /\ own'[v].mode = mode
        /\ own'[v].asg = i /\ own'[v].session = s
        /\ \A u \in Conversations \ {v} : own'[u] = own[u]
    BY <1>1, <1>2, PassesOn DEF WritesOwner
  <1>3. work'[w] = y /\ \A x \in Works : x # w => work'[x] = work[x]
    BY <1>1 DEF RowsOK, WritesRows
  <1>4. Moves(v)
    BY <1>2, <1>20, <1>3 DEF Moves, WritesRows
  <1>5. RowsOK'
    BY <1>1, <1>20 DEF RowsOK, WritesRows, WritesReturns, Fenced, KnownCalls
  <1>6. References'
    <2>1. \A j \in Ids : asg'[j].state # "none" => asg'[j].work \in Works
      BY <1>1 DEF References, WritesRows
    <2>2. ASSUME NEW x \in Works, work'[x].current # 0
          PROVE  asg'[work'[x].current].state # "none" /\ asg'[work'[x].current].work = x
      <3>1. CASE work'[x].current = work[x].current
        <4>1. /\ work[x].current \in Ids /\ asg[work[x].current].state # "none"
              /\ asg[work[x].current].work = x
          BY <1>1, <2>2, <3>1 DEF References, IsOf, RowsOK, Items
        <4> QED BY <3>1, <4>1 DEF WritesRows
      <3>2. CASE x = w
        BY <1>3, <2>2, <3>1, <3>2 DEF WritesRows
      <3> QED BY <1>3, <3>1, <3>2
    <2> QED BY <2>1, <2>2 DEF References, IsOf
  <1>7. OwnerHolds(v)'
    BY <1>2, <1>20 DEF OwnerHolds, WritesOwner
  <1>8. \A k \in Returns : \/ handoff'[k] = handoff[k]
                           \/ handoff[k].state # "none" /\ ConvOf[handoff[k].work] = v
                           \/ /\ handoff[k].state = "none" /\ handoff'[k].work \in Works
                              /\ ConvOf[handoff'[k].work] = v
                              /\ handoff'[k].gen = own'[v].gen /\ handoff'[k].state # "ACCEPTED"
    BY <1>2, <1>20 DEF WritesReturns
  <1>9. KeepsReturns /\ raced' \subseteq raced \cup {"other"}
    BY DEF WritesReturns, Fenced
  <1>10. \A d \in Callers : call'[d] = call[d] \/ CallHolds(d)'
    BY DEF KnownCalls
  <1> QED BY <1>4, <1>5, <1>6, <1>7, <1>8, <1>9, <1>10, MoveKeepsIInv, Zenon

\* The caller of a finished transaction waits for nothing.
LEMMA Returned ==
    ASSUME RowsOK, NEW c \in Callers, Goes(c, NoCall)
    PROVE  KnownCalls
  <1>1. /\ call' \in [Callers -> Calls] /\ call'[c].op = "idle"
        /\ \A d \in Callers : d # c => call'[d] = call[d]
    BY DEF Goes, RowsOK, NoCall, Calls
  <1>2. CallHolds(c)'
    BY <1>1 DEF CallHolds, ProbeHolds, CancelHolds, AnswerHolds
  <1> QED BY <1>1, <1>2, Zenon DEF KnownCalls

\* What is known of a probed request.
LEMMA ProbedFacts ==
    ASSUME HumansIInv, NEW c \in Callers, call[c].op = "probed"
    PROVE  /\ call[c].id \in Ids /\ call[c].a \in Assignments /\ call[c].w \in Items
           /\ ItemOf(c) \in Works /\ TalkOf(c) \in Conversations /\ ConvOf[ItemOf(c)] = TalkOf(c)
           /\ asg[call[c].id].state # "none" /\ asg[call[c].id].work = ItemOf(c)
           /\ asg[call[c].id] \in Assignments /\ work[ItemOf(c)] \in Items
           /\ own[TalkOf(c)].gen = call[c].g => ~Stale(c)
  <1>1. RowsOK /\ ProbeHolds(c)
    BY DEF HumansIInv, CallHolds
  <1>2. call[c] \in Probed
    BY <1>1, CallKinds
  <1> QED BY <1>1, <1>2, HumansAssumption DEF ProbeHolds, Probed, IsOf, TalkOf, Gen, RowsOK

\* The commit of a request on its assignment: the assignment gets a new state.
LEMMA WriteStep ==
    ASSUME HumansIInv, NEW c \in Callers, call[c].op = "probed",
           NEW new \in AssignmentStates \ {"none"}, new # call[c].a.state,
           NEW item \in Items, item.current \in {0, call[c].w.current},
           NEW who \in {"agent", "other"}, Writes(c, new, item, who),
           who = "agent" => own[TalkOf(c)].gen = call[c].g,
           NEW mode \in {"HUMAN", "UNASSIGNED"}, NEW i \in {0, call[c].id},
           Passes(TalkOf(c), mode, i, NoReturn), mode = "HUMAN" => i = call[c].id /\ new = "ACTIVE",
           WritesReturns(ItemOf(c)), enabled' = enabled, KnownCalls
    PROVE  HumansIInv'
  <1>1. /\ call[c].id \in Ids /\ call[c].a \in Assignments /\ call[c].w \in Items
        /\ ItemOf(c) \in Works /\ TalkOf(c) \in Conversations /\ ConvOf[ItemOf(c)] = TalkOf(c)
        /\ asg[call[c].id].state # "none" /\ asg[call[c].id].work = ItemOf(c)
        /\ asg[call[c].id] \in Assignments /\ work[ItemOf(c)] \in Items
        /\ own[TalkOf(c)].gen = call[c].g => ~Stale(c)
    BY ProbedFacts, Zenon
  <1>2. PICK w \in Works, v \in Conversations, n \in Ids :
          w = ItemOf(c) /\ v = TalkOf(c) /\ n = call[c].id
    BY <1>1
  <1>3. asg' = [asg EXCEPT ![n] = [asg[n] EXCEPT !.state = new]]
    <2>1. asg' = [asg EXCEPT ![n] = Flush(asg[n], call[c].a, [call[c].a EXCEPT !.state = new])]
      BY <1>2 DEF Writes
    <2>2. Flush(asg[n], call[c].a, [call[c].a EXCEPT !.state = new]) = [asg[n] EXCEPT !.state = new]
      BY <1>1, <1>2, FlushAssignment
    <2> QED BY <2>1, <2>2, Zenon
  <1>4. raced' = IF Stale(c) THEN raced \cup {who} ELSE raced
    BY DEF Writes, Races
  <1>5. asg \in [Ids -> Assignments]
    BY DEF HumansIInv, RowsOK
  <1>6. /\ asg' \in [Ids -> Assignments] /\ asg'[n].state = new
        /\ \A j \in Ids : asg'[j].work = asg[j].work /\ (j # n => asg'[j] = asg[j])
    BY <1>3, <1>5 DEF Assignments
  <1>7. PICK y \in Items : work' = [work EXCEPT ![w] = y] /\ y.current \in {0, work[w].current}
    <2> DEFINE y == Flush(work[w], call[c].w, item)
    <2>1. y \in Items /\ y.current = IF item.current = call[c].w.current THEN work[w].current ELSE item.current
      BY <1>1, <1>2, FlushItem
    <2>2. work' = [work EXCEPT ![w] = y]
      BY <1>2 DEF Writes
    <2> HIDE DEF y
    <2> QED BY <2>1, <2>2, Zenon
  <1>8. raced' \subseteq raced \cup {"other"}
    BY <1>1, <1>4
  <1>9. WritesRows(w, y)
    BY <1>1, <1>2, <1>6, <1>7 DEF WritesRows
  <1>10. WritesOwner(w, mode, i, NoReturn)
    BY <1>1, <1>2, <1>6 DEF WritesOwner, Modes, Holders, Sessions
  <1>11. WritesReturns(w) /\ Fenced
    BY <1>2, <1>8 DEF Fenced
  <1> QED BY <1>9, <1>10, <1>11, ItemStep, Zenon

\* Where a step leaves the returns alone.
LEMMA SameReturns == ASSUME RowsOK, NEW w, handoff' = handoff PROVE WritesReturns(w)
  BY DEF RowsOK, WritesReturns, KeepsReturns

\* Completion, transfer to a queue and release.
LEMMA CloseSteps ==
    ASSUME HumansIInv, NEW c \in Callers,
           CompleteAssignment(c) \/ TransferToQueue(c) \/ SupervisorRelease(c)
    PROVE  HumansIInv'
  <1>1. RowsOK /\ call[c].op = "probed" /\ enabled' = enabled /\ handoff' = handoff
    BY Zenon DEF HumansIInv, CompleteAssignment, TransferToQueue, SupervisorRelease
  <1>2. call[c].w \in Items
    BY <1>1, ProbedFacts
  <1>3. KnownCalls /\ WritesReturns(ItemOf(c))
    BY <1>1, Returned, SameReturns, Zenon DEF CompleteAssignment, TransferToQueue, SupervisorRelease
  <1>4. Passes(TalkOf(c), "UNASSIGNED", 0, NoReturn)
    BY Zenon DEF CompleteAssignment, TransferToQueue, SupervisorRelease, Unassigns
  <1>5. CASE CompleteAssignment(c)
    <2> DEFINE item == [call[c].w EXCEPT !.state = "COMPLETED"]
    <2>1. item \in Items /\ item.current = call[c].w.current
      BY <1>2 DEF Items, WorkStates
    <2>2. /\ Writes(c, "COMPLETED", item, "agent") /\ call[c].a.state # "COMPLETED"
          /\ own[TalkOf(c)].gen = call[c].g
      BY <1>5 DEF CompleteAssignment
    <2> HIDE DEF item
    <2> QED BY <1>1, <1>3, <1>4, <2>1, <2>2, WriteStep DEF AssignmentStates
  <1>6. CASE TransferToQueue(c)
    <2>1. PICK q \in enabled : Writes(c, "TRANSFERRED",
             [call[c].w EXCEPT !.state = "QUEUED", !.current = 0, !.queue = q], "agent")
      BY <1>6, Zenon DEF TransferToQueue
    <2> DEFINE item == [call[c].w EXCEPT !.state = "QUEUED", !.current = 0, !.queue = q]
    <2>2. item \in Items /\ item.current = 0
      BY <1>1, <1>2, Zenon DEF Items, WorkStates, RowsOK
    <2>3. /\ Writes(c, "TRANSFERRED", item, "agent") /\ call[c].a.state # "TRANSFERRED"
          /\ own[TalkOf(c)].gen = call[c].g
      BY <1>6, <2>1, Zenon DEF TransferToQueue, ValidAuthority, Open
    <2> HIDE DEF item
    <2> QED BY <1>1, <1>3, <1>4, <2>2, <2>3, WriteStep DEF AssignmentStates
  <1>7. CASE SupervisorRelease(c)
    <2>1. PICK q \in enabled \cup {call[c].w.queue} : Writes(c, "RELEASED",
             [call[c].w EXCEPT !.state = "QUEUED", !.current = 0, !.queue = q], "other")
      BY <1>7, Zenon DEF SupervisorRelease
    <2> DEFINE item == [call[c].w EXCEPT !.state = "QUEUED", !.current = 0, !.queue = q]
    <2>2. item \in Items /\ item.current = 0
      BY <1>1, <1>2, Zenon DEF Items, WorkStates, RowsOK
    <2>3. Writes(c, "RELEASED", item, "other") /\ call[c].a.state # "RELEASED"
      BY <1>7, <2>1, Zenon DEF SupervisorRelease, Open
    <2> HIDE DEF item
    <2> QED BY <1>1, <1>3, <1>4, <2>2, <2>3, WriteStep DEF AssignmentStates
  <1> QED BY <1>5, <1>6, <1>7

\* The agent takes the conversation over.
LEMMA AcceptStep ==
    ASSUME HumansIInv, NEW c \in Callers, AcceptAssignment(c)
    PROVE  HumansIInv'
  <1> DEFINE item == [call[c].w EXCEPT !.state = "ACTIVE"]
  <1>1. /\ RowsOK /\ call[c].op = "probed" /\ enabled' = enabled /\ handoff' = handoff
        /\ own[TalkOf(c)].gen = call[c].g /\ call[c].a.state # "ACTIVE" /\ Goes(c, NoCall)
        /\ Passes(TalkOf(c), "HUMAN", call[c].id, NoReturn)
        /\ Writes(c, "ACTIVE", item, "agent")
    BY DEF HumansIInv, AcceptAssignment
  <1>2. call[c].w \in Items
    BY <1>1, ProbedFacts
  <1>3. item \in Items /\ item.current = call[c].w.current
    BY <1>2 DEF Items, WorkStates
  <1>4. KnownCalls /\ WritesReturns(ItemOf(c))
    BY <1>1, Returned, SameReturns
  <1> HIDE DEF item
  <1> QED BY <1>1, <1>3, <1>4, WriteStep DEF AssignmentStates

\* The human's part of a return: the assignment closes, and the return is pending.
LEMMA ReturnStep ==
    ASSUME HumansIInv, NEW c \in Callers, NEW k \in Returns, ReturnToAi(c, k)
    PROVE  HumansIInv'
  <1> DEFINE item == [call[c].w EXCEPT !.state = "AI_RETURN_PENDING"]
             h == [state |-> "AI_RETURN_PENDING", work |-> ItemOf(c), gen |-> own[TalkOf(c)].gen + 1]
  <1>1. /\ RowsOK /\ call[c].op = "probed" /\ enabled' = enabled
        /\ handoff[k].state = "none" /\ own[TalkOf(c)].gen = call[c].g /\ call[c].a.state # "RELEASED"
        /\ Passes(TalkOf(c), "UNASSIGNED", 0, NoReturn)
        /\ Writes(c, "RELEASED", item, "agent")
        /\ Goes(c, [op |-> "returning", key |-> k]) /\ handoff' = [handoff EXCEPT ![k] = h]
    BY DEF HumansIInv, ReturnToAi, ValidAuthority, Open
  <1>2. call[c].w \in Items /\ ItemOf(c) \in Works /\ TalkOf(c) \in Conversations
    BY <1>1, ProbedFacts
  <1>3. item \in Items /\ item.current = call[c].w.current
    BY <1>2 DEF Items, WorkStates
  <1>4. /\ h \in Handoffs /\ h.state = "AI_RETURN_PENDING" /\ h.work = ItemOf(c)
        /\ h.gen = own[TalkOf(c)].gen + 1
    BY <1>1, <1>2 DEF Handoffs, HandoffStates, RowsOK, Owners
  <1> HIDE DEF item, h
  <1>5. handoff'[k] = h /\ \A j \in Returns : j # k => handoff'[j] = handoff[j]
    BY <1>1 DEF RowsOK
  <1>6. WritesReturns(ItemOf(c))
    BY <1>1, <1>4, <1>5 DEF WritesReturns, KeepsReturns, RowsOK, TalkOf
  <1>7. /\ call' \in [Callers -> Calls] /\ \A d \in Callers : d # c => call'[d] = call[d]
        /\ call'[c].op = "returning" /\ call'[c].key = k
    BY <1>1 DEF Goes, RowsOK, Calls, Returning
  <1>8. CallHolds(c)'
    BY <1>4, <1>5, <1>7 DEF CallHolds, ProbeHolds, CancelHolds, AnswerHolds
  <1>9. KnownCalls
    BY <1>7, <1>8, Zenon DEF KnownCalls
  <1> QED BY <1>1, <1>3, <1>6, <1>9, WriteStep DEF AssignmentStates

\* A new assignment takes an identifier that is free.
LEMMA NewIdIsFree == CanAssign => NewId \in Ids /\ asg[NewId].state = "none"
  BY DEF CanAssign, NewId

\* A conversation is handed to another agent, by its own or by a supervisor.
LEMMA HandOverStep ==
    ASSUME HumansIInv, NEW c \in Callers, NEW b \in Agents,
           TransferToAgent(c, b) \/ SupervisorTransferToAgent(c, b)
    PROVE  HumansIInv'
  <1>1. /\ RowsOK /\ call[c].op = "probed"
        /\ \/ HandsOver(c, b, "other")
           \/ HandsOver(c, b, "agent") /\ own[TalkOf(c)].gen = call[c].g
    BY DEF HumansIInv, TransferToAgent, SupervisorTransferToAgent, ValidAuthority
  <1>2. /\ call[c].w \in Items /\ call[c].a \in Assignments /\ call[c].id \in Ids
        /\ ItemOf(c) \in Works /\ TalkOf(c) \in Conversations /\ ConvOf[ItemOf(c)] = TalkOf(c)
        /\ asg[call[c].id].state # "none" /\ asg[call[c].id].work = ItemOf(c)
        /\ asg[call[c].id] \in Assignments /\ work[ItemOf(c)] \in Items
        /\ own[TalkOf(c)].gen = call[c].g => ~Stale(c)
    BY <1>1, ProbedFacts
  <1>3. NewId \in Ids /\ asg[NewId].state = "none"
    BY <1>1, NewIdIsFree DEF HandsOver
  <1>4. PICK i \in Ids, n \in Ids, w \in Works : i = call[c].id /\ n = NewId /\ w = ItemOf(c)
    BY <1>2, <1>3
  <1> DEFINE lease == call[c].w.lease + 1
             item == [call[c].w EXCEPT !.state = "ACTIVE", !.current = n, !.lease = lease]
             y == Flush(work[w], call[c].w, item)
             old == Flush(asg[i], call[c].a, [call[c].a EXCEPT !.state = "TRANSFERRED"])
             new == [state |-> "ACTIVE", work |-> w, owner |-> b, lease |-> lease]
  <1>5. asg' = [asg EXCEPT ![i] = old, ![n] = new]
    BY <1>1, <1>4 DEF HandsOver
  <1>6. work' = [work EXCEPT ![w] = y]
    BY <1>1, <1>4 DEF HandsOver
  <1>7. Passes(ConvOf[w], "HUMAN", n, NoReturn) /\ Goes(c, NoCall) /\ UNCHANGED <<enabled, handoff>>
    BY <1>1, <1>2, <1>4 DEF HandsOver
  <1>8. lease \in Nat
    BY <1>2 DEF Items
  <1> HIDE DEF lease
  <1>9. item \in Items /\ item.current = n
    BY <1>2, <1>8, Zenon DEF Items, WorkStates
  <1>10. new \in Assignments /\ new.state = "ACTIVE" /\ new.work = w
    BY <1>8 DEF Assignments, AssignmentStates
  <1>11. /\ old \in Assignments /\ old.work = asg[i].work /\ old.state # "none"
         /\ asg[i].state # "none" /\ asg[i].work = w /\ i # n
    <2>1. old = [asg[i] EXCEPT !.state = IF "TRANSFERRED" = call[c].a.state THEN @ ELSE "TRANSFERRED"]
      BY <1>2, <1>4, FlushAssignment, Zenon DEF AssignmentStates
    <2> HIDE DEF old
    <2> QED BY <1>2, <1>3, <1>4, <2>1 DEF Assignments, AssignmentStates
  <1> HIDE DEF item
  <1>12. y \in Items /\ y.current \in {n, work[w].current}
    BY <1>2, <1>4, <1>9, FlushItem
  <1> HIDE DEF y, old, new
  <1>13. \A j \in Ids : /\ j \notin {i, n} => asg'[j] = asg[j]
                        /\ j = i => asg'[j] = old
                        /\ j = n => asg'[j] = new
    BY <1>1, <1>5, <1>11 DEF RowsOK
  <1>14. asg' \in [Ids -> Assignments]
    BY <1>1, <1>5, <1>10, <1>11 DEF RowsOK
  <1>15. WritesRows(w, y)
    BY <1>3, <1>4, <1>6, <1>10, <1>11, <1>12, <1>13, <1>14 DEF WritesRows
  <1>16. WritesOwner(w, "HUMAN", n, NoReturn)
    BY <1>7, <1>10, <1>13 DEF WritesOwner, Modes, Holders, Sessions
  <1>17. WritesReturns(w) /\ KnownCalls
    BY <1>1, <1>7, SameReturns, Returned
  <1>18. Fenced
    BY <1>1, <1>2, <1>7 DEF HandsOver, Races, Fenced
  <1> QED BY <1>12, <1>15, <1>16, <1>17, <1>18, ItemStep, Zenon

\* Cancellation closes the item, and the assignment that its probe named.
LEMMA CancelStep ==
    ASSUME HumansIInv, NEW c \in Callers, CancelWork(c)
    PROVE  HumansIInv'
  <1>1. RowsOK /\ CancelHolds(c) /\ call[c].op = "cancel"
    BY DEF HumansIInv, CallHolds, CancelWork
  <1>2. call[c].id \in Works /\ call[c].w \in Items
    BY <1>1, CallKinds DEF Cancelling
  <1>3. PICK w \in Works, i \in Ids \cup {0} : w = call[c].id /\ i = call[c].w.current
    BY <1>2 DEF Items
  <1> DEFINE item == [call[c].w EXCEPT !.state = "CANCELLED", !.current = 0]
             y == Flush(work[w], call[c].w, item)
  <1>4. work' = [work EXCEPT ![w] = y]
    BY <1>3 DEF CancelWork
  <1>5. Passes(ConvOf[w], "UNASSIGNED", 0, NoReturn) /\ Goes(c, NoCall) /\ UNCHANGED <<enabled, handoff>>
    BY <1>3 DEF CancelWork, Unassigns
  <1>6. \/ i \in Ids /\ asg[i].state # "none" /\ asg[i].work = w /\ asg' = [asg EXCEPT ![i].state = "RELEASED"]
        \/ asg' = asg
    BY <1>1, <1>3, Zenon DEF CancelWork, CancelHolds, IsOf
  <1>7. item \in Items /\ item.current = 0 /\ work[w] \in Items
    BY <1>1, <1>2, Zenon DEF Items, WorkStates, RowsOK
  <1> HIDE DEF item
  <1>8. y \in Items /\ y.current \in {0, work[w].current}
    BY <1>2, <1>7, FlushItem
  <1> HIDE DEF y
  <1>9. /\ asg' \in [Ids -> Assignments]
        /\ \A j \in Ids : /\ asg'[j].work = asg[j].work /\ (asg[j].state # "none" => asg'[j].state # "none")
                          /\ asg'[j] # asg[j] => asg[j].work = w
                          /\ asg'[j].state # "none" => asg[j].state # "none"
    BY <1>1, <1>6 DEF RowsOK, Assignments, AssignmentStates
  <1>10. WritesRows(w, y)
    BY <1>4, <1>8, <1>9 DEF WritesRows
  <1>11. WritesOwner(w, "UNASSIGNED", 0, NoReturn)
    BY <1>5 DEF WritesOwner, Modes, Holders, Sessions
  <1>12. WritesReturns(w) /\ KnownCalls
    BY <1>1, <1>5, SameReturns, Returned
  <1>13. Fenced
    BY <1>5 DEF CancelWork, Races, Fenced
  <1> QED BY <1>8, <1>10, <1>11, <1>12, <1>13, ItemStep, Zenon

\* A work item is requested, or claimed by an agent.
LEMMA RequestStep ==
    ASSUME HumansIInv, NEW w \in Works, NEW q \in Queues, RequestAiHandoff(w, q)
    PROVE  HumansIInv'
  <1> DEFINE y == [state |-> "QUEUED", current |-> 0, lease |-> 0, queue |-> q]
  <1>1. /\ RowsOK /\ work' = [work EXCEPT ![w] = y] /\ Passes(ConvOf[w], "UNASSIGNED", 0, NoReturn)
        /\ UNCHANGED <<asg, enabled, handoff, call, raced>>
    BY DEF HumansIInv, RequestAiHandoff
  <1>2. y \in Items /\ y.current = 0
    BY DEF Items, WorkStates
  <1> HIDE DEF y
  <1>3. WritesRows(w, y)
    BY <1>1, <1>2 DEF WritesRows, RowsOK
  <1>4. WritesOwner(w, "UNASSIGNED", 0, NoReturn)
    BY <1>1 DEF WritesOwner, Modes, Holders, Sessions
  <1>5. WritesReturns(w) /\ Fenced
    BY <1>1, SameReturns DEF Fenced
  <1>6. KnownCalls
    BY <1>1 DEF KnownCalls, RowsOK
  <1> QED BY <1>2, <1>3, <1>4, <1>5, <1>6, ItemStep, Zenon

LEMMA ClaimStep ==
    ASSUME HumansIInv, NEW a \in Agents, NEW w \in Works, ClaimWork(a, w)
    PROVE  HumansIInv'
  <1>1. RowsOK /\ NewId \in Ids /\ asg[NewId].state = "none"
    BY NewIdIsFree DEF HumansIInv, ClaimWork
  <1>2. PICK n \in Ids : n = NewId
    BY <1>1
  <1> DEFINE lease == work[w].lease + 1
             y == [work[w] EXCEPT !.state = "CLAIMED", !.current = n, !.lease = lease]
             new == [state |-> "CLAIMED", work |-> w, owner |-> a, lease |-> lease]
  <1>3. asg' = [asg EXCEPT ![n] = new] /\ work' = [work EXCEPT ![w] = y]
    BY <1>2 DEF ClaimWork
  <1>4. Passes(ConvOf[w], "UNASSIGNED", 0, NoReturn) /\ UNCHANGED <<enabled, handoff, call, raced>>
    BY DEF ClaimWork
  <1>5. work[w] \in Items /\ lease \in Nat
    BY <1>1 DEF RowsOK, Items
  <1> HIDE DEF lease
  <1>6. y \in Items /\ y.current = n
    BY <1>5, Zenon DEF Items, WorkStates
  <1>7. new \in Assignments /\ new.state = "CLAIMED" /\ new.work = w
    BY <1>5 DEF Assignments, AssignmentStates
  <1> HIDE DEF y, new
  <1>8. asg' \in [Ids -> Assignments] /\ \A j \in Ids : asg'[j] = IF j = n THEN new ELSE asg[j]
    BY <1>1, <1>3, <1>7 DEF RowsOK
  <1>9. WritesRows(w, y)
    BY <1>1, <1>2, <1>3, <1>6, <1>7, <1>8 DEF WritesRows
  <1>10. WritesOwner(w, "UNASSIGNED", 0, NoReturn)
    BY <1>4 DEF WritesOwner, Modes, Holders, Sessions
  <1>11. WritesReturns(w) /\ Fenced
    BY <1>1, <1>4, SameReturns DEF Fenced
  <1>12. KnownCalls
    BY <1>1, <1>4 DEF KnownCalls, RowsOK
  <1> QED BY <1>6, <1>9, <1>10, <1>11, <1>12, ItemStep, Zenon

\* A caller goes on, and the others wait.
LEMMA GoesOn ==
    ASSUME RowsOK, NEW c \in Callers, NEW what, Goes(c, what)
    PROVE  call'[c] = what /\ \A d \in Callers : d # c => call'[d] = call[d]
  BY DEF RowsOK, Goes

\* A caller turns to what needs no row of its own.
LEMMA TurnsTo ==
    ASSUME HumansIInv, NEW c \in Callers, NEW what \in Calls, Goes(c, what),
           UNCHANGED <<work, asg, own, enabled, handoff, raced>>, CallHolds(c)'
    PROVE  HumansIInv'
  <1>1. call' \in [Callers -> Calls] /\ \A d \in Callers : d # c => call'[d] = call[d]
    BY DEF HumansIInv, RowsOK, Goes
  <1>2. RowsOK' /\ KeepsReturns /\ Stays
    BY <1>1 DEF HumansIInv, RowsOK, KeepsReturns, Stays
  <1>3. ASSUME NEW d \in Callers PROVE call'[d] = call[d] \/ CallHolds(d)'
    BY <1>1, Zenon
  <1> QED BY <1>2, <1>3, OnlyCalls

\* A request reads its assignment, the work item and the generation.
LEMMA ProbeStep ==
    ASSUME HumansIInv, NEW c \in Callers, NEW i \in Ids, Probe(c, i)
    PROVE  HumansIInv'
  <1>0. RowsOK /\ References
    BY Zenon DEF HumansIInv
  <1> DEFINE what == [op |-> "probed", id |-> i, a |-> asg[i], w |-> work[asg[i].work],
                      g |-> own[ConvOf[asg[i].work]].gen]
  <1>1. asg[i].work \in Works /\ asg[i].state # "none" /\ ConvOf[asg[i].work] \in Conversations
    BY <1>0, HumansAssumption DEF Probe, References, Open
  <1>2. what \in Calls
    BY <1>0, <1>1, Zenon DEF RowsOK, Calls, Probed, Owners
  <1>3. call'[c] = what /\ Goes(c, what) /\ UNCHANGED <<work, asg, own, enabled, handoff, raced>>
    <2>1. Goes(c, what) /\ UNCHANGED <<work, asg, own, enabled, handoff, raced>>
      BY DEF Probe, tables
    <2> HIDE DEF what
    <2> QED BY <1>0, <2>1, GoesOn
  <1>4. CallHolds(c)'
    <2>1. own[ConvOf[asg[i].work]].gen \in Nat
      BY <1>0, <1>1 DEF RowsOK, Owners
    <2>2. /\ call'[c].op = "probed" /\ call'[c].id = i /\ call'[c].a = asg'[i]
          /\ call'[c].w = work'[asg'[i].work] /\ call'[c].g = own'[ConvOf[asg'[i].work]].gen
      <3>1. /\ what.op = "probed" /\ what.id = i /\ what.a = asg[i]
            /\ what.w = work[asg[i].work] /\ what.g = own[ConvOf[asg[i].work]].gen
        OBVIOUS
      <3> HIDE DEF what
      <3> QED BY <1>3, <3>1
    <2> HIDE DEF what
    <2>3. CancelHolds(c)' /\ AnswerHolds(c)'
      BY <2>2, Zenon DEF CancelHolds, AnswerHolds
    <2>4. ProbeHolds(c)'
      BY <1>1, <1>3, <2>1, <2>2 DEF ProbeHolds, ItemOf, IsOf, Gen, Stale
    <2> QED BY <2>3, <2>4 DEF CallHolds
  <1> QED BY <1>2, <1>3, <1>4, TurnsTo

\* A cancellation reads its work item.
LEMMA CancelProbeStep ==
    ASSUME HumansIInv, NEW c \in Callers, NEW w \in Works, CancelProbe(c, w)
    PROVE  HumansIInv'
  <1>0. RowsOK /\ References
    BY DEF HumansIInv
  <1> DEFINE what == [op |-> "cancel", id |-> w, w |-> work[w]]
  <1>1. what \in Calls
    BY <1>0 DEF RowsOK, Calls, Cancelling
  <1>2. call'[c] = what /\ Goes(c, what) /\ UNCHANGED <<work, asg, own, enabled, handoff, raced>>
    <2>1. Goes(c, what) /\ UNCHANGED <<work, asg, own, enabled, handoff, raced>>
      BY DEF CancelProbe, tables
    <2> HIDE DEF what
    <2> QED BY <1>0, <2>1, GoesOn
  <1>3. CallHolds(c)'
    <2>1. call'[c].op = "cancel" /\ call'[c].id = w /\ call'[c].w = work'[w]
      BY <1>2
    <2> HIDE DEF what
    <2>2. work'[w].current # 0 =>
            asg'[work'[w].current].state # "none" /\ asg'[work'[w].current].work = w
      BY <1>0, <1>2 DEF IsOf, References
    <2> QED BY <2>1, <2>2 DEF IsOf, CallHolds, ProbeHolds, CancelHolds, AnswerHolds
  <1> QED BY <1>1, <1>2, <1>3, TurnsTo, Zenon

\* A repeated return finds its handoff.
LEMMA ReturnAgainStep ==
    ASSUME HumansIInv, NEW c \in Callers, NEW k \in Returns, ReturnAgain(c, k)
    PROVE  HumansIInv'
  <1>0. RowsOK
    BY DEF HumansIInv
  <1> DEFINE what == [op |-> "returning", key |-> k]
  <1>1. what \in Calls
    BY DEF Calls, Returning
  <1>2. call'[c] = what /\ Goes(c, what) /\ UNCHANGED <<work, asg, own, enabled, handoff, raced>>
    <2>1. Goes(c, what) /\ UNCHANGED <<work, asg, own, enabled, handoff, raced>>
      BY DEF ReturnAgain, tables
    <2> HIDE DEF what
    <2> QED BY <1>0, <2>1, GoesOn
  <1>3. CallHolds(c)'
    <2>1. call'[c].op = "returning" /\ call'[c].key = k /\ handoff'[k].state # "none"
      BY <1>2 DEF ReturnAgain
    <2> QED BY <2>1 DEF CallHolds, ProbeHolds, CancelHolds, AnswerHolds
  <1> QED BY <1>1, <1>2, <1>3, TurnsTo

\* A message is authorized, or found authorized.
LEMMA SendStep ==
    ASSUME HumansIInv, NEW c \in Callers, NEW k \in Sends, SendAgain(c, k) \/ SendMessage(c, k)
    PROVE  HumansIInv'
  <1>0. RowsOK
    BY DEF HumansIInv
  <1> DEFINE what == [op |-> "sending", key |-> k]
  <1>1. what \in Calls
    BY DEF Calls, Sending
  <1>2. raced' = raced
    <2>1. CASE SendAgain(c, k)
      BY <2>1 DEF SendAgain
    <2>2. CASE SendMessage(c, k)
      <3>1. call[c].op = "probed" /\ own[TalkOf(c)].gen = call[c].g
        BY <2>2, Zenon DEF SendMessage, ValidAuthority
      <3>2. ~Stale(c)
        BY <3>1, ProbedFacts
      <3> QED BY <2>2, <3>2 DEF SendMessage, Races
    <2> QED BY <2>1, <2>2
  <1>3. call'[c] = what /\ Goes(c, what) /\ UNCHANGED <<work, asg, own, enabled, handoff, raced>>
    <2>1. Goes(c, what) /\ UNCHANGED <<work, asg, own, enabled, handoff>>
      BY DEF SendAgain, SendMessage, tables
    <2> HIDE DEF what
    <2> QED BY <1>0, <1>2, <2>1, GoesOn, Zenon
  <1>4. CallHolds(c)'
    <2>1. call'[c].op = "sending"
      BY <1>3
    <2> QED BY <2>1, Zenon DEF CallHolds, ProbeHolds, CancelHolds, AnswerHolds
  <1> QED BY <1>1, <1>3, <1>4, TurnsTo

\* A request ends without a write to the rows.
LEMMA EndStep ==
    ASSUME HumansIInv, NEW c \in Callers, RollBack(c) \/ FinalizeAuthorization(c)
    PROVE  HumansIInv'
  <1>0. RowsOK
    BY DEF HumansIInv
  <1>1. Goes(c, NoCall) /\ UNCHANGED <<work, asg, own, enabled, handoff, raced>>
    BY DEF RollBack, FinalizeAuthorization, tables
  <1>2. NoCall \in Calls /\ call'[c].op = "idle"
    BY <1>0, <1>1 DEF Calls, Goes, RowsOK, NoCall
  <1>3. CallHolds(c)'
    BY <1>2 DEF CallHolds, ProbeHolds, CancelHolds, AnswerHolds
  <1> QED BY <1>1, <1>2, <1>3, TurnsTo, Zenon

\* Messaging answers.
LEMMA MessagingStep ==
    ASSUME HumansIInv, NEW c \in Callers, HandToMessaging(c)
    PROVE  HumansIInv'
  <1>0. RowsOK
    BY DEF HumansIInv
  <1>1. PICK outcome \in {"CONSUMED", "FAILED", "AMBIGUOUS"} :
          Goes(c, [op |-> "finalize", key |-> call[c].key, state |-> outcome])
    BY DEF HandToMessaging
  <1> DEFINE what == [op |-> "finalize", key |-> call[c].key, state |-> outcome]
  <1>2. call[c].key \in Sends
    BY <1>0, CallKinds DEF HandToMessaging, Sending
  <1>3. what \in Calls
    BY <1>2 DEF Calls, Finalizing
  <1>4. call'[c] = what /\ UNCHANGED <<work, asg, own, enabled, handoff, raced>>
    <2>1. Goes(c, what) /\ UNCHANGED <<work, asg, own, enabled, handoff, raced>>
      BY <1>1 DEF HandToMessaging, tables
    <2> HIDE DEF what
    <2> QED BY <1>0, <2>1, GoesOn
  <1>5. CallHolds(c)'
    <2>1. call'[c].op = "finalize"
      BY <1>4
    <2> QED BY <2>1 DEF CallHolds, ProbeHolds, CancelHolds, AnswerHolds
  <1> QED BY <1>1, <1>3, <1>4, <1>5, TurnsTo, Zenon

\* The answer of the agent runtime is there: the rows are read.
LEMMA AnswerProbeStep ==
    ASSUME HumansIInv, NEW c \in Callers, AnswerProbe(c)
    PROVE  HumansIInv'
  <1>0. RowsOK /\ ReturnsAreBehind /\ CallHolds(c) /\ call[c].op = "returning"
    BY DEF HumansIInv, AnswerProbe
  <1>1. call[c].key \in Returns /\ handoff[call[c].key].state # "none"
    <2>1. call[c].key \in Returns
      BY <1>0, CallKinds DEF Returning
    <2> QED BY <1>0, <2>1 DEF CallHolds, AnswerHolds
  <1>2. PICK k \in Returns : k = call[c].key
    BY <1>1
  <1>3. PICK answer \in {"bind", "reject"} :
          Goes(c, [op |-> answer, key |-> k, h |-> handoff[k], w |-> work[handoff[k].work]])
    BY <1>2, Zenon DEF AnswerProbe
  <1> DEFINE what == [op |-> answer, key |-> k, h |-> handoff[k], w |-> work[handoff[k].work]]
  <1>4. /\ handoff[k].state # "none" /\ handoff[k].work \in Works
        /\ handoff[k].state = "ACCEPTED" => handoff[k].gen < Gen(handoff[k].work)
    BY <1>0, <1>1, <1>2 DEF ReturnsAreBehind
  <1>5. what \in Calls
    BY <1>0, <1>4 DEF RowsOK, Calls, Answered
  <1>6. call'[c] = what /\ UNCHANGED <<work, asg, own, enabled, handoff, raced>>
    <2>1. Goes(c, what) /\ UNCHANGED <<work, asg, own, enabled, handoff, raced>>
      BY <1>3 DEF AnswerProbe, tables
    <2> HIDE DEF what
    <2> QED BY <1>0, <2>1, GoesOn
  <1>7. CallHolds(c)'
    <2>1. handoff[k].gen \in Nat /\ Gen(handoff[k].work) \in Nat
      BY <1>0, <1>4, HumansAssumption DEF RowsOK, Handoffs, Owners, Gen
    <2>2. /\ call'[c].op = answer /\ call'[c].key = k /\ call'[c].h = handoff'[k]
          /\ call'[c].w = work'[handoff'[k].work]
      BY <1>6
    <2> HIDE DEF what
    <2>3. ProbeHolds(c)' /\ CancelHolds(c)'
      BY <2>2 DEF ProbeHolds, CancelHolds
    <2>4. Gen(handoff[k].work)' = Gen(handoff[k].work)
      BY <1>6, Zenon DEF Gen
    <2>5. AnswerHolds(c)'
      BY <1>4, <1>6, <2>1, <2>2, <2>4 DEF AnswerHolds, Gen
    <2> QED BY <2>3, <2>5 DEF CallHolds
  <1> QED BY <1>3, <1>5, <1>6, <1>7, TurnsTo

\* The agent runtime's answer is recorded: the session owns, or the item is queued.
LEMMA AnswerStep ==
    ASSUME HumansIInv, NEW c \in Callers, BindAiReturn(c) \/ RejectAiReturn(c)
    PROVE  HumansIInv'
  <1>1. RowsOK /\ ReturnsAreBehind /\ AnswerHolds(c) /\ call[c].op \in {"bind", "reject"}
    BY DEF HumansIInv, CallHolds, BindAiReturn, RejectAiReturn
  <1>2. call[c].key \in Returns /\ call[c].h \in Handoffs /\ call[c].w \in Items
    BY <1>1, CallKinds DEF Answered
  <1>3. PICK k \in Returns : k = call[c].key
    BY <1>2
  <1>4. /\ handoff[k].state # "none" /\ call[c].h.work = handoff[k].work /\ call[c].h.gen = handoff[k].gen
        /\ Gen(call[c].h.work) = call[c].h.gen => work[call[c].h.work] = call[c].w /\ call[c].h.state # "ACCEPTED"
    BY <1>1, <1>3 DEF AnswerHolds
  <1>5. handoff[k].work \in Works /\ handoff[k].gen \in Nat
    BY <1>1, <1>4, Zenon DEF ReturnsAreBehind, RowsOK, Handoffs
  <1>6. PICK w \in Works : w = handoff[k].work
    BY <1>5
  <1>7. own[ConvOf[w]].gen = handoff[k].gen => work[w] = call[c].w /\ call[c].h.state # "ACCEPTED"
    BY <1>4, <1>6, Zenon DEF Gen
  <1>8. PICK s \in {"ACCEPTED", "P13_REJECTED"}, item \in Items, who \in {"agent", "other"},
             mode \in {"AI", "UNASSIGNED"}, j \in {k, NoReturn} :
          /\ Answers(c, s, item, who) /\ item.current \in {0, call[c].w.current}
          /\ Passes(ConvOf[w], mode, 0, j)
          /\ \/ mode = "UNASSIGNED" /\ who = "other" /\ j = NoReturn
             \/ mode = "AI" /\ j = k /\ s = "ACCEPTED" /\ own[ConvOf[w]].gen = handoff[k].gen
    <2>1. CASE BindAiReturn(c)
      <3> DEFINE item == [call[c].w EXCEPT !.state = "COMPLETED"]
      <3>1. /\ Answers(c, "ACCEPTED", item, "agent") /\ own[ConvOf[w]].gen = handoff[k].gen
            /\ Passes(ConvOf[w], "AI", 0, k)
        BY <1>3, <1>4, <1>6, <2>1, Zenon DEF BindAiReturn
      <3>2. item \in Items /\ item.current = call[c].w.current
        BY <1>2 DEF Items, WorkStates
      <3> HIDE DEF item
      <3> QED BY <3>1, <3>2
    <2>2. CASE RejectAiReturn(c)
      <3> DEFINE item == [call[c].w EXCEPT !.state = "QUEUED", !.current = 0]
      <3>1. /\ Answers(c, "P13_REJECTED", item, "other")
            /\ Passes(ConvOf[w], "UNASSIGNED", 0, NoReturn)
        BY <1>4, <1>6, <2>2 DEF RejectAiReturn
      <3>2. item \in Items /\ item.current = 0
        BY <1>2, Zenon DEF Items, WorkStates
      <3> HIDE DEF item
      <3> QED BY <3>1, <3>2
    <2> QED BY <2>1, <2>2, Zenon
  <1> DEFINE y == Flush(work[w], call[c].w, item)
             h == Flush(handoff[k], call[c].h, [call[c].h EXCEPT !.state = s])
  <1>9. work' = [work EXCEPT ![w] = y]
    BY <1>3, <1>4, <1>6, <1>8, Zenon DEF Answers
  <1>10. handoff' = [handoff EXCEPT ![k] = h]
    BY <1>3, <1>8 DEF Answers
  <1>11. /\ Goes(c, NoCall) /\ UNCHANGED <<asg, enabled>>
         /\ raced' = IF work[w] # call[c].w THEN raced \cup {who} ELSE raced
    BY <1>4, <1>6, <1>8 DEF Answers, Races
  <1>12. work[w] \in Items /\ handoff[k] \in Handoffs
    BY <1>1 DEF RowsOK
  <1>13. y \in Items /\ y.current \in {0, work[w].current}
    <2>1. y \in Items /\ y.current = IF item.current = call[c].w.current THEN work[w].current ELSE item.current
      BY <1>2, <1>12, FlushItem
    <2> HIDE DEF y
    <2> QED BY <1>8, <2>1
  <1>14. /\ h \in Handoffs /\ h.work = handoff[k].work /\ h.gen = handoff[k].gen /\ h.state # "none"
         /\ call[c].h.state # "ACCEPTED" /\ s = "ACCEPTED" => h.state = "ACCEPTED"
    <2>1. s \in HandoffStates
      BY DEF HandoffStates
    <2>2. h = [handoff[k] EXCEPT !.state = IF s = call[c].h.state THEN @ ELSE s]
      BY <1>2, <1>12, <2>1, FlushHandoff
    <2> HIDE DEF h
    <2> QED BY <1>4, <1>12, <2>2 DEF Handoffs, HandoffStates
  <1> HIDE DEF y, h
  <1>15. handoff'[k] = h /\ \A j2 \in Returns : j2 # k => handoff'[j2] = handoff[j2]
    BY <1>1, <1>10 DEF RowsOK
  <1>16. WritesRows(w, y)
    BY <1>1, <1>9, <1>11, <1>13, Zenon DEF WritesRows, RowsOK
  <1>17. WritesOwner(w, mode, 0, j)
    BY <1>6, <1>7, <1>8, <1>14, <1>15, Zenon DEF WritesOwner, Modes, Holders, Sessions
  <1>18. WritesReturns(w)
    BY <1>1, <1>4, <1>6, <1>10, <1>14, <1>15, Zenon DEF WritesReturns, KeepsReturns, RowsOK
  <1>19. KnownCalls
    BY <1>1, <1>11, Returned
  <1>20. Fenced
    BY <1>7, <1>8, <1>11, Zenon DEF Fenced
  <1> QED BY <1>13, <1>16, <1>17, <1>18, <1>19, <1>20, ItemStep, Zenon

\* The empty tables satisfy the invariant.
LEMMA HumansInitIInv == HumansInit => HumansIInv
  <1> SUFFICES ASSUME HumansInit PROVE HumansIInv
    OBVIOUS
  <1>1. NoWork \in Items /\ NoAssignment \in Assignments /\ NoHandoff \in Handoffs
    BY DEF NoWork, Items, WorkStates, NoAssignment, Assignments, AssignmentStates, NoHandoff,
           Handoffs, HandoffStates
  <1>2. [mode |-> "UNASSIGNED", gen |-> 1, asg |-> 0, session |-> NoReturn] \in Owners
    BY DEF Owners, Modes, Holders, Sessions
  <1>3. RowsOK
    BY <1>1, <1>2 DEF HumansInit, RowsOK, Calls
  <1>4. References /\ ReturnsAreBehind /\ AgentsAreFenced
    BY DEF HumansInit, References, ReturnsAreBehind, AgentsAreFenced, NoAssignment, NoWork, NoHandoff
  <1>5. ASSUME NEW c \in Callers PROVE CallHolds(c)
    BY Zenon DEF HumansInit, CallHolds, ProbeHolds, CancelHolds, AnswerHolds, NoCall
  <1>6. ASSUME NEW v \in Conversations PROVE OwnerHolds(v)
    BY Zenon DEF HumansInit, OwnerHolds
  <1> QED BY <1>3, <1>4, <1>5, <1>6 DEF HumansIInv

\* Every step preserves the invariant.
LEMMA HumansNextIInv == HumansIInv /\ [HumansNext]_humanVars => HumansIInv'
  <1> SUFFICES ASSUME HumansIInv, [HumansNext]_humanVars PROVE HumansIInv'
    OBVIOUS
  <1>1. CASE UNCHANGED <<work, asg, own, handoff, call, raced>> /\ enabled' \subseteq Queues
    <2>1. RowsOK' /\ KeepsReturns /\ Stays
      BY <1>1 DEF HumansIInv, RowsOK, KeepsReturns, Stays
    <2>2. /\ \A k \in Returns : handoff'[k] = handoff[k]
          /\ \A d \in Callers : call'[d] = call[d]
          /\ raced' = raced
      BY <1>1
    <2> QED BY <2>1, <2>2, OnlyCalls
  <1>2. CASE UNCHANGED humanVars
    BY <1>1, <1>2 DEF humanVars, tables, HumansIInv, RowsOK
  <1>3. ASSUME NEW a \in Agents, SetPresence(a) PROVE HumansIInv'
    BY <1>1, <1>3 DEF SetPresence, HumansIInv, RowsOK
  <1>4. ASSUME NEW q \in Queues, UpdateQueue(q) PROVE HumansIInv'
    BY <1>1, <1>4 DEF UpdateQueue, HumansIInv, RowsOK
  <1>5. ASSUME NEW c \in Callers, MarkAiReturnAmbiguous(c) PROVE HumansIInv'
    <2>1. RowsOK /\ call[c].op = "returning" /\ Goes(c, NoCall)
      BY <1>5 DEF HumansIInv, MarkAiReturnAmbiguous
    <2>2. PICK k \in Returns : k = call[c].key
      BY <2>1, CallKinds DEF Returning
    <2>3. /\ handoff' = [handoff EXCEPT ![k].state = IF @ = "AI_RETURN_PENDING" THEN "AMBIGUOUS" ELSE @]
          /\ Stays /\ raced' = raced /\ enabled' = enabled
      BY <1>5, <2>2 DEF MarkAiReturnAmbiguous, Stays
    <2>4. handoff' \in [Returns -> Handoffs] /\ KeepsReturns
      BY <2>1, <2>3 DEF RowsOK, Handoffs, HandoffStates, KeepsReturns
    <2>5. \A j \in Returns : /\ handoff[j].state = "none" => handoff'[j] = handoff[j]
                             /\ handoff[j].state = "ACCEPTED" => handoff'[j] = handoff[j]
                             /\ handoff'[j].state = "ACCEPTED" => handoff[j].state = "ACCEPTED"
      BY <2>1, <2>3 DEF RowsOK, Handoffs
    <2>6. KnownCalls
      BY <2>1, Returned
    <2>7. RowsOK'
      BY <2>1, <2>3, <2>4, <2>6 DEF RowsOK, Stays, KnownCalls
    <2> QED BY <2>3, <2>4, <2>5, <2>6, <2>7, OnlyCalls DEF KnownCalls
  <1>6. ASSUME NEW c \in Callers, AgentCommit(c) \/ OtherCommit(c) PROVE HumansIInv'
    BY <1>6, AcceptStep, CloseSteps, HandOverStep, ReturnStep, SendStep, CancelStep, AnswerStep
    DEF AgentCommit, OtherCommit
  <1>7. CASE HumansNext
    BY <1>3, <1>4, <1>5, <1>6, <1>7, RequestStep, ClaimStep, ProbeStep,
       CancelProbeStep, ReturnAgainStep, SendStep, EndStep, MessagingStep, AnswerProbeStep DEF HumansNext
  <1> QED BY <1>2, <1>7

(* Whatever an agent's request or an accepted return commits, it commits on    *)
(* rows that have not changed since it read them, for any number of requests,  *)
(* items and agents: the comparison of generations makes up for the rows that  *)
(* the session does not read again.                                            *)
THEOREM AgentsFenced == HumansSpec => []AgentsAreFenced
  <1>1. HumansIInv => AgentsAreFenced
    BY DEF HumansIInv
  <1> QED BY <1>1, HumansInitIInv, HumansNextIInv, PTL DEF HumansSpec

(* No release, transfer, cancellation or late answer leaves a conversation     *)
(* with an owner whose assignment is closed or whose return was not accepted.  *)
THEOREM OwnersLive == HumansSpec => []OwnerIsLive
  <1>1. HumansIInv => OwnerIsLive
    BY Zenon DEF HumansIInv, OwnerHolds, OwnerIsLive
  <1> QED BY <1>1, HumansInitIInv, HumansNextIInv, PTL DEF HumansSpec

(* Authority over a conversation holds for any number of items, agents and     *)
(* requests (humans/service.py): its owner is live, and agents are fenced.     *)
THEOREM OwnershipAlwaysHolds == HumansSpec => []OwnershipHolds
  BY OwnersLive, AgentsFenced, PTL DEF OwnershipHolds
=============================================================================
