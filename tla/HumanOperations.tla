--------------------------- MODULE HumanOperations ---------------------------
(* Work for human agents: queues, presence, claims, the ownership of a         *)
(* conversation, supervision, the return of a conversation to an AI agent and  *)
(* the authorization of messages.                                              *)
(*                                                                             *)
(* Almost every operation reads the assignment and its work item without a     *)
(* lock, to learn which rows to lock, and then selects them again FOR UPDATE.  *)
(* The session's identity map already holds both objects, so the second select *)
(* waits for the lock and leaves their attributes as the first one read them.  *)
(* An operation is therefore two steps, Probe and its commit, and the commit   *)
(* sees the probed assignment and work item beside the current presence,       *)
(* ownership and queue; what it writes is what differs from what it saw.       *)
EXTENDS Naturals, FiniteSets

CONSTANTS
    Works,          \* possible work items, each with the conversation ConvOf
    Conversations,
    ConvOf,
    Queues,
    QueueLimit,     \* max_active_assignments of a queue
    Agents,
    Capacities,     \* the capacities an agent may set
    Callers,        \* requests in progress at one time
    Returns,        \* idempotency keys of return_to_ai
    Sends,          \* idempotency keys of send_message
    MaxAssignments, \* bound: claims and transfers of the whole run
    MaxGeneration   \* bound: changes of a conversation's authority

ASSUME HumansAssumption ==
    /\ ConvOf \in [Works -> Conversations]
    /\ QueueLimit \in [Queues -> Nat] /\ Capacities \subseteq Nat
    /\ MaxAssignments \in Nat /\ MaxGeneration \in Nat

Ids == 1..MaxAssignments
NoReturn == "none"

VARIABLES
    work,      \* human_work_items
    asg,       \* human_assignments
    own,       \* conversation_ownership
    presence,  \* human_agent_presence
    enabled,   \* the enabled human_queues
    handoff,   \* human_handoffs in direction HUMAN_TO_AI, by key
    auth,      \* human_action_authorizations, by key
    sent,      \* the keys messaging has delivered a message for
    call,      \* what each caller is doing, and the rows it has read
    raced      \* history: whose commits wrote rows that had changed after their probe

tables == <<work, asg, own, presence, enabled, handoff, auth>>
humanVars == <<tables, sent, call, raced>>

\* accept_assignment and complete_assignment pass through ACCEPTED and WRAP_UP
\* in memory only: no row is ever stored with them.
WorkStates ==
    {"none", "QUEUED", "CLAIMED", "ACTIVE", "AI_RETURN_PENDING", "COMPLETED", "CANCELLED"}
WorkTerminal == {"COMPLETED", "CANCELLED"}
AssignmentStates == {"none", "CLAIMED", "ACTIVE", "RELEASED", "TRANSFERRED", "COMPLETED"}
Open == {"CLAIMED", "ACTIVE"}

\* The columns the operations read; a model value stands for NULL.
WorkRow == [state : WorkStates, current : Ids \cup {0}, lease : 0..MaxAssignments, queue : Queues \cup {"none"}]
AssignmentRow ==
    [state : AssignmentStates, work : Works \cup {"none"}, owner : Agents \cup {"none"}, lease : 0..MaxAssignments]
OwnershipRow ==
    [mode : {"AI", "HUMAN", "UNASSIGNED"}, gen : 1..MaxGeneration, asg : Ids \cup {0}, session : Returns \cup {NoReturn}]
PresenceRow == [ready : BOOLEAN, capacity : Capacities \cup {0}, count : Nat]
HandoffRow ==
    [state : {"none", "AI_RETURN_PENDING", "ACCEPTED", "P13_REJECTED", "AMBIGUOUS"},
     work : Works \cup {"none"}, gen : 0..MaxGeneration]
AuthorizationRow ==
    [state : {"none", "AUTHORIZED", "CONSUMED", "FAILED", "AMBIGUOUS"}, asg : Ids \cup {0}, gen : 0..MaxGeneration]

NoWork == [state |-> "none", current |-> 0, lease |-> 0, queue |-> "none"]
NoAssignment == [state |-> "none", work |-> "none", owner |-> "none", lease |-> 0]
NoHandoff == [state |-> "none", work |-> "none", gen |-> 0]
NoAuthorization == [state |-> "none", asg |-> 0, gen |-> 0]
NoCall == [op |-> "idle"]

\* An absent ownership row is UNASSIGNED, as ensure_ownership creates it; an
\* absent presence row is that of an agent who takes no work.
HumansInit ==
    /\ work = [w \in Works |-> NoWork]
    /\ asg = [i \in Ids |-> NoAssignment]
    /\ own = [v \in Conversations |-> [mode |-> "UNASSIGNED", gen |-> 1, asg |-> 0, session |-> NoReturn]]
    /\ presence = [a \in Agents |-> [ready |-> FALSE, capacity |-> 0, count |-> 0]]
    /\ enabled = Queues
    /\ handoff = [k \in Returns |-> NoHandoff]
    /\ auth = [k \in Sends |-> NoAuthorization]
    /\ sent = {} /\ raced = {}
    /\ call = [c \in Callers |-> NoCall]

-----------------------------------------------------------------------------
(* Rows.                                                                       *)

\* A flush writes the attributes that differ from what the session loaded.
Flush(row, seen, new) == [f \in DOMAIN row |-> IF new[f] = seen[f] THEN row[f] ELSE new[f]]

CanMove(v) == own[v].gen < MaxGeneration

\* Authority over conversation v passes to the given mode in a new generation.
Passes(v, mode, i, session) ==
    own' = [own EXCEPT ![v] = [mode |-> mode, gen |-> @.gen + 1, asg |-> i, session |-> session]]

\* The same in the operations that leave ai_session_id as it is: the CHECK
\* authority_shape refuses the row if it holds one.
Unassigns(v) == own[v].session = NoReturn /\ Passes(v, "UNASSIGNED", 0, NoReturn)

\* The CHECK active_count_bounds.
Frees(a) ==
    /\ presence[a].count > 0
    /\ presence' = [presence EXCEPT ![a].count = @ - 1]

NewId == CHOOSE i \in Ids : asg[i].state = "none"
CanAssign == \E i \in Ids : asg[i].state = "none"

\* The partial unique index uq_human_assignments_active_work.
NoOtherOpen(w, i) == \A j \in Ids \ {i} : asg[j].work = w => asg[j].state \notin Open

Ready(a) == presence[a].ready /\ presence[a].count < presence[a].capacity

-----------------------------------------------------------------------------
(* Operations that read each row once, under its lock.                         *)

\* A repeated request finds its work item, and its handoff key refuses any change.
RequestAiHandoff(w, q) ==
    /\ work[w].state = "none" /\ q \in enabled
    /\ own[ConvOf[w]].mode \in {"AI", "UNASSIGNED"} /\ CanMove(ConvOf[w])
    /\ work' = [work EXCEPT ![w] = [state |-> "QUEUED", current |-> 0, lease |-> 0, queue |-> q]]
    /\ Passes(ConvOf[w], "UNASSIGNED", 0, NoReturn)
    /\ UNCHANGED <<asg, presence, enabled, handoff, auth, sent, call, raced>>

SetPresence(a) ==
    /\ \E ready \in BOOLEAN, n \in Capacities :
         /\ n >= presence[a].count
         /\ presence' = [presence EXCEPT ![a] = [@ EXCEPT !.ready = ready, !.capacity = n]]
    /\ UNCHANGED <<work, asg, own, enabled, handoff, auth, sent, call, raced>>

UpdateQueue(q) ==
    /\ enabled' = IF q \in enabled THEN enabled \ {q} ELSE enabled \cup {q}
    /\ UNCHANGED <<work, asg, own, presence, handoff, auth, sent, call, raced>>

\* SKIP LOCKED makes any queued item of the queue a possible choice.
ClaimWork(a, w) ==
    LET v == ConvOf[w]  lease == work[w].lease + 1 IN
    /\ work[w].state = "QUEUED" /\ work[w].queue \in enabled
    /\ Ready(a) /\ presence[a].count < QueueLimit[work[w].queue]
    /\ own[v].mode # "HUMAN" /\ CanMove(v)
    /\ CanAssign /\ NoOtherOpen(w, 0)
    /\ asg' = [asg EXCEPT ![NewId] = [state |-> "CLAIMED", work |-> w, owner |-> a, lease |-> lease]]
    /\ work' = [work EXCEPT ![w] = [@ EXCEPT !.state = "CLAIMED", !.current = NewId, !.lease = lease]]
    /\ presence' = [presence EXCEPT ![a].count = @ + 1]
    /\ Passes(v, "UNASSIGNED", 0, NoReturn)
    /\ UNCHANGED <<enabled, handoff, auth, sent, call, raced>>

-----------------------------------------------------------------------------
(* Operations on an assignment: the probe, and then the commit.                *)

Goes(c, what) == call' = [call EXCEPT ![c] = what]

\* All of them begin alike, so which one it is shows at the commit. A closed
\* assignment is refused or answered as a replay. The request carries the
\* generation its sender knows: the one current now is the only one that can
\* still be current at the commit.
Probe(c, i) ==
    /\ call[c] = NoCall /\ asg[i].state \in Open
    /\ Goes(c, [op |-> "probed", id |-> i, a |-> asg[i], w |-> work[asg[i].work],
                g |-> own[ConvOf[asg[i].work]].gen])
    /\ UNCHANGED <<tables, sent, raced>>

\* The error paths, a lost connection and a crash: the transaction rolls back.
RollBack(c) == call[c] # NoCall /\ Goes(c, NoCall) /\ UNCHANGED <<tables, sent, raced>>

ItemOf(c) == call[c].a.work
TalkOf(c) == ConvOf[ItemOf(c)]
Stale(c) == asg[call[c].id] # call[c].a \/ work[ItemOf(c)] # call[c].w

\* who is "agent" where the generation is compared, "other" where it is not.
Races(who, stale) == raced' = IF stale THEN raced \cup {who} ELSE raced

\* The assignment is written as new, the work item as item.
Writes(c, new, item, who) ==
    /\ asg' = [asg EXCEPT ![call[c].id] = Flush(@, call[c].a, [call[c].a EXCEPT !.state = new])]
    /\ work' = [work EXCEPT ![ItemOf(c)] = Flush(@, call[c].w, item)]
    /\ Races(who, Stale(c))

\* validate_authority: everything of the assignment and the item is as probed.
ValidAuthority(c) ==
    /\ call[c].a.state \in Open
    /\ call[c].w.current = call[c].id /\ call[c].w.lease = call[c].a.lease
    /\ own[TalkOf(c)].gen = call[c].g /\ own[TalkOf(c)].asg = call[c].id

AcceptAssignment(c) ==
    /\ call[c].op = "probed" /\ CanMove(TalkOf(c))
    /\ own[TalkOf(c)].gen = call[c].g /\ own[TalkOf(c)].mode = "UNASSIGNED"
    /\ call[c].w.current = call[c].id /\ call[c].w.lease = call[c].a.lease
    /\ call[c].a.state = "CLAIMED" /\ call[c].w.state = "CLAIMED"
    /\ Writes(c, "ACTIVE", [call[c].w EXCEPT !.state = "ACTIVE"], "agent")
    /\ Passes(TalkOf(c), "HUMAN", call[c].id, NoReturn)
    /\ Goes(c, NoCall)
    /\ UNCHANGED <<presence, enabled, handoff, auth, sent>>

CompleteAssignment(c) ==
    /\ call[c].op = "probed" /\ CanMove(TalkOf(c))
    /\ call[c].a.state = "ACTIVE" /\ call[c].w.state = "ACTIVE"
    /\ own[TalkOf(c)].mode = "HUMAN" /\ own[TalkOf(c)].asg = call[c].id
    /\ own[TalkOf(c)].gen = call[c].g
    /\ Writes(c, "COMPLETED", [call[c].w EXCEPT !.state = "COMPLETED"], "agent")
    /\ Frees(call[c].a.owner) /\ Unassigns(TalkOf(c))
    /\ Goes(c, NoCall)
    /\ UNCHANGED <<enabled, handoff, auth, sent>>

TransferToQueue(c) ==
    /\ call[c].op = "probed" /\ ValidAuthority(c) /\ CanMove(TalkOf(c))
    /\ \E q \in enabled :
         Writes(c, "TRANSFERRED", [call[c].w EXCEPT !.state = "QUEUED", !.current = 0, !.queue = q], "agent")
    /\ Frees(call[c].a.owner) /\ Unassigns(TalkOf(c))
    /\ Goes(c, NoCall)
    /\ UNCHANGED <<enabled, handoff, auth, sent>>

\* The seen assignment closes, and a new one of agent b is ACTIVE at once.
HandsOver(c, b, who) ==
    LET a == call[c].a.owner  lease == call[c].w.lease + 1 IN
    /\ Ready(b) /\ presence[a].count > 0
    /\ CanAssign /\ NoOtherOpen(ItemOf(c), call[c].id)
    /\ asg' = [asg EXCEPT ![call[c].id] = Flush(@, call[c].a, [call[c].a EXCEPT !.state = "TRANSFERRED"]),
                          ![NewId] = [state |-> "ACTIVE", work |-> ItemOf(c), owner |-> b, lease |-> lease]]
    /\ work' = [work EXCEPT ![ItemOf(c)] =
                  Flush(@, call[c].w, [call[c].w EXCEPT !.state = "ACTIVE", !.current = NewId, !.lease = lease])]
    /\ presence' = [x \in Agents |->
                      [presence[x] EXCEPT !.count = @ - (IF x = a THEN 1 ELSE 0) + (IF x = b THEN 1 ELSE 0)]]
    /\ Passes(TalkOf(c), "HUMAN", NewId, NoReturn)
    /\ Races(who, Stale(c))
    /\ Goes(c, NoCall)
    /\ UNCHANGED <<enabled, handoff, auth, sent>>

TransferToAgent(c, b) ==
    /\ call[c].op = "probed" /\ ValidAuthority(c) /\ CanMove(TalkOf(c))
    /\ HandsOver(c, b, "agent")

SupervisorTransferToAgent(c, b) ==
    LET o == own[TalkOf(c)] IN
    /\ call[c].op = "probed" /\ CanMove(TalkOf(c))
    /\ call[c].w.current = call[c].id /\ b # call[c].a.owner
    /\ \/ call[c].a.state = "CLAIMED" /\ o.mode = "UNASSIGNED"
       \/ call[c].a.state = "ACTIVE" /\ o.mode = "HUMAN" /\ o.asg = call[c].id
    /\ HandsOver(c, b, "other")

Bug_ReleaseKeepsOwner(c) ==
    /\ call[c].op = "probed" /\ call[c].a.state \in Open
    /\ \E q \in enabled \cup {call[c].w.queue} :
         Writes(c, "RELEASED", [call[c].w EXCEPT !.state = "QUEUED", !.current = 0, !.queue = q], "other")
    /\ Frees(call[c].a.owner) /\ Goes(c, NoCall)
    /\ UNCHANGED <<own, enabled, handoff, auth, sent>>

\* The target queue is optional; only a named one has to be enabled.
SupervisorRelease(c) ==
    /\ call[c].op = "probed" /\ call[c].a.state \in Open /\ CanMove(TalkOf(c))
    /\ \E q \in enabled \cup {call[c].w.queue} :
         Writes(c, "RELEASED", [call[c].w EXCEPT !.state = "QUEUED", !.current = 0, !.queue = q], "other")
    /\ Frees(call[c].a.owner) /\ Unassigns(TalkOf(c))
    /\ Goes(c, NoCall)
    /\ UNCHANGED <<enabled, handoff, auth, sent>>

-----------------------------------------------------------------------------
(* Cancellation probes the work item only; the assignment it names is read     *)
(* once, under its lock.                                                       *)

CancelProbe(c, w) ==
    /\ call[c] = NoCall /\ work[w].state \notin {"none"} \cup WorkTerminal
    /\ Goes(c, [op |-> "cancel", id |-> w, w |-> work[w]])
    /\ UNCHANGED <<tables, sent, raced>>

CancelWork(c) ==
    LET w == call[c].id  i == call[c].w.current  frees == i # 0 /\ asg[i].state \in Open IN
    /\ call[c].op = "cancel" /\ CanMove(ConvOf[w])
    /\ work' = [work EXCEPT ![w] =
                  Flush(@, call[c].w, [call[c].w EXCEPT !.state = "CANCELLED", !.current = 0])]
    /\ \/ frees /\ asg' = [asg EXCEPT ![i].state = "RELEASED"] /\ Frees(asg[i].owner)
       \/ ~frees /\ UNCHANGED <<asg, presence>>
    /\ Unassigns(ConvOf[w])
    /\ Races("other", work[w] # call[c].w)
    /\ Goes(c, NoCall)
    /\ UNCHANGED <<enabled, handoff, auth, sent>>

-----------------------------------------------------------------------------
(* The return to an AI agent: the human gives up, the agent runtime is asked   *)
(* for a session, and its answer is recorded.                                  *)

Bug_ReturnKeepsCount(c, k) ==
    /\ call[c].op = "probed" /\ handoff[k].state = "none"
    /\ ValidAuthority(c) /\ own[TalkOf(c)].mode = "HUMAN" /\ CanMove(TalkOf(c))
    /\ Writes(c, "RELEASED", [call[c].w EXCEPT !.state = "AI_RETURN_PENDING"], "agent")
    /\ Passes(TalkOf(c), "UNASSIGNED", 0, NoReturn)
    /\ handoff' = [handoff EXCEPT ![k] = [state |-> "AI_RETURN_PENDING", work |-> ItemOf(c),
                                          gen |-> own[TalkOf(c)].gen + 1]]
    /\ Goes(c, [op |-> "returning", key |-> k])
    /\ UNCHANGED <<presence, enabled, auth, sent>>

ReturnToAi(c, k) ==
    /\ call[c].op = "probed" /\ handoff[k].state = "none"
    /\ ValidAuthority(c) /\ own[TalkOf(c)].mode = "HUMAN" /\ CanMove(TalkOf(c))
    /\ Writes(c, "RELEASED", [call[c].w EXCEPT !.state = "AI_RETURN_PENDING"], "agent")
    /\ Frees(call[c].a.owner) /\ Passes(TalkOf(c), "UNASSIGNED", 0, NoReturn)
    /\ handoff' = [handoff EXCEPT ![k] = [state |-> "AI_RETURN_PENDING", work |-> ItemOf(c),
                                          gen |-> own[TalkOf(c)].gen + 1]]
    /\ Goes(c, [op |-> "returning", key |-> k])
    /\ UNCHANGED <<enabled, auth, sent>>

\* A repeated request that finds the handoff pending asks again, with the same key.
ReturnAgain(c, k) ==
    /\ call[c] = NoCall /\ handoff[k].state = "AI_RETURN_PENDING"
    /\ Goes(c, [op |-> "returning", key |-> k])
    /\ UNCHANGED <<tables, sent, raced>>

\* The session was started, or refused: the next transaction probes its rows.
AnswerProbe(c) ==
    LET h == handoff[call[c].key] IN
    /\ call[c].op = "returning"
    /\ \E answer \in {"bind", "reject"} :
         /\ answer = "reject" => h.state = "AI_RETURN_PENDING"
         /\ Goes(c, [op |-> answer, key |-> call[c].key, h |-> h, w |-> work[h.work]])
    /\ UNCHANGED <<tables, sent, raced>>

\* The answer was lost, or it names another session than the one asked for.
MarkAiReturnAmbiguous(c) ==
    /\ call[c].op = "returning"
    /\ handoff' = [handoff EXCEPT ![call[c].key].state = IF @ = "AI_RETURN_PENDING" THEN "AMBIGUOUS" ELSE @]
    /\ Goes(c, NoCall)
    /\ UNCHANGED <<work, asg, own, presence, enabled, auth, sent, raced>>

Answers(c, state, item, who) ==
    LET k == call[c].key  h == call[c].h IN
    /\ handoff' = [handoff EXCEPT ![k] = Flush(@, h, [h EXCEPT !.state = state])]
    /\ work' = [work EXCEPT ![h.work] = Flush(@, call[c].w, item)]
    /\ Races(who, work[h.work] # call[c].w)
    /\ Goes(c, NoCall)
    /\ UNCHANGED <<asg, presence, enabled, auth, sent>>

BindAiReturn(c) ==
    LET v == ConvOf[call[c].h.work] IN
    /\ call[c].op = "bind" /\ CanMove(v)
    /\ own[v].mode = "UNASSIGNED" /\ own[v].gen = call[c].h.gen
    /\ Answers(c, "ACCEPTED", [call[c].w EXCEPT !.state = "COMPLETED"], "agent")
    /\ Passes(v, "AI", 0, call[c].key)

RejectAiReturn(c) ==
    LET v == ConvOf[call[c].h.work] IN
    /\ call[c].op = "reject" /\ CanMove(v)
    /\ Answers(c, "P13_REJECTED", [call[c].w EXCEPT !.state = "QUEUED", !.current = 0], "other")
    /\ Passes(v, "UNASSIGNED", 0, NoReturn)

-----------------------------------------------------------------------------
(* A message: authorized, handed to messaging, and its outcome recorded.       *)

SendMessage(c, k) ==
    /\ call[c].op = "probed" /\ auth[k].state = "none"
    /\ ValidAuthority(c) /\ own[TalkOf(c)].mode = "HUMAN"
    /\ auth' = [auth EXCEPT ![k] = [state |-> "AUTHORIZED", asg |-> call[c].id, gen |-> call[c].g]]
    /\ Races("agent", Stale(c))
    /\ Goes(c, [op |-> "sending", key |-> k])
    /\ UNCHANGED <<work, asg, own, presence, enabled, handoff, sent>>

SendAgain(c, k) ==
    /\ call[c] = NoCall /\ auth[k].state = "AUTHORIZED"
    /\ Goes(c, [op |-> "sending", key |-> k])
    /\ UNCHANGED <<tables, sent, raced>>

\* Messaging delivers once per key; a refusal is final, a lost answer is not.
HandToMessaging(c) ==
    /\ call[c].op = "sending"
    /\ \E outcome \in {"CONSUMED", "FAILED", "AMBIGUOUS"} :
         /\ Goes(c, [op |-> "finalize", key |-> call[c].key, state |-> outcome])
         /\ \/ outcome # "FAILED" /\ sent' = sent \cup {call[c].key}
            \/ outcome # "CONSUMED" /\ UNCHANGED sent
    /\ UNCHANGED <<tables, raced>>

Bug_FinalizeAgain(c) ==
    /\ call[c].op = "finalize"
    /\ auth' = [auth EXCEPT ![call[c].key].state = call[c].state]
    /\ Goes(c, NoCall)
    /\ UNCHANGED <<work, asg, own, presence, enabled, handoff, sent, raced>>

\* _finalize_authorization refreshes its rows after locking them.
FinalizeAuthorization(c) ==
    /\ call[c].op = "finalize"
    /\ auth' = [auth EXCEPT ![call[c].key].state = IF @ = "AUTHORIZED" THEN call[c].state ELSE @]
    /\ Goes(c, NoCall)
    /\ UNCHANGED <<work, asg, own, presence, enabled, handoff, sent, raced>>

AgentCommit(c) ==
    \/ AcceptAssignment(c) \/ CompleteAssignment(c) \/ TransferToQueue(c)
    \/ \E b \in Agents : TransferToAgent(c, b)
    \/ \E k \in Returns : ReturnToAi(c, k)
    \/ \E k \in Sends : SendMessage(c, k)

OtherCommit(c) ==
    \/ SupervisorRelease(c) \/ CancelWork(c) \/ BindAiReturn(c) \/ RejectAiReturn(c)
    \/ \E b \in Agents : SupervisorTransferToAgent(c, b)

HumansNext ==
    \/ \E w \in Works, q \in Queues : RequestAiHandoff(w, q)
    \/ \E a \in Agents : SetPresence(a)
    \/ \E q \in Queues : UpdateQueue(q)
    \/ \E a \in Agents, w \in Works : ClaimWork(a, w)
    \/ \E c \in Callers :
         \/ \E i \in Ids : Probe(c, i)
         \/ \E w \in Works : CancelProbe(c, w)
         \/ \E k \in Returns : ReturnAgain(c, k)
         \/ \E k \in Sends : SendAgain(c, k)
         \/ AgentCommit(c) \/ OtherCommit(c) \/ RollBack(c)
         \/ AnswerProbe(c) \/ MarkAiReturnAmbiguous(c)
         \/ HandToMessaging(c) \/ FinalizeAuthorization(c)

HumansSpec == HumansInit /\ [][HumansNext]_humanVars

-----------------------------------------------------------------------------
(* Properties.                                                                 *)

\* The rows hold values of their columns' types.
HumansTypeOK ==
    /\ work \in [Works -> WorkRow] /\ asg \in [Ids -> AssignmentRow]
    /\ own \in [Conversations -> OwnershipRow] /\ presence \in [Agents -> PresenceRow]
    /\ handoff \in [Returns -> HandoffRow] /\ auth \in [Sends -> AuthorizationRow]
    /\ enabled \subseteq Queues /\ sent \subseteq Sends

(* The constraints of the tables.                                              *)
ActiveCountBounds == \A a \in Agents : presence[a].count \in 0..presence[a].capacity
WorkRefers ==
    \A w \in Works :
        /\ work[w].state # "none" => work[w].queue \in Queues
        /\ work[w].current # 0 => asg[work[w].current].state # "none"
AuthorityShape ==
    \A v \in Conversations :
        /\ own[v].mode = "HUMAN" <=> own[v].asg # 0
        /\ own[v].mode = "AI" <=> own[v].session # NoReturn
ActiveWorkUnique ==
    \A i, j \in Ids : asg[i].state \in Open /\ asg[j].state \in Open /\ asg[i].work = asg[j].work => i = j
HandoffRefers == \A k \in Returns : handoff[k].state # "none" => work[handoff[k].work].state # "none"
AuthorizationRefers == \A k \in Sends : auth[k].state # "none" => asg[auth[k].asg].state # "none"

(* A conversation owned by a human is owned through an ACTIVE assignment of    *)
(* one of its own work items, and one owned by the AI through an accepted      *)
(* return whose generation is the one before: no release, transfer or          *)
(* rejection, however late, leaves a dead owner behind.                        *)
OwnerIsLive ==
    \A v \in Conversations :
        /\ own[v].mode = "HUMAN" =>
             asg[own[v].asg].state = "ACTIVE" /\ ConvOf[asg[own[v].asg].work] = v
        /\ own[v].mode = "AI" =>
             /\ handoff[own[v].session].state = "ACCEPTED"
             /\ own[v].gen = handoff[own[v].session].gen + 1

(* Whatever an agent's request or an accepted return commits, it commits on    *)
(* rows that have not changed since it probed them: the generation, which is   *)
(* read under the lock, makes up for the stale assignment and work item.       *)
AgentsAreFenced == "agent" \notin raced

OpenOf(a) == {i \in Ids : asg[i].owner = a /\ asg[i].state \in Open}

(* Unless a commit wrote rows that had changed since its probe, the counters   *)
(* agree with the assignments, and the work items with both: an agent's count  *)
(* is the number of open assignments, an item is CLAIMED or ACTIVE exactly     *)
(* with its current assignment, and no other assignment of it is open.         *)
RowsAgree ==
    /\ \A a \in Agents : presence[a].count = Cardinality(OpenOf(a))
    /\ \A w \in Works :
         /\ work[w].state \in Open => asg[work[w].current].state = work[w].state
         /\ \A i \in Ids : asg[i].work = w /\ asg[i].state \in Open => work[w].current = i
         /\ work[w].state \in {"QUEUED", "CANCELLED"} => work[w].current = 0
RowsAgreeUnlessRaced == raced = {} => RowsAgree

(* An authorization is decided once: of two callers that sent the same key,    *)
(* the later to report cannot turn a message recorded as sent into a failed or *)
(* an ambiguous one, nor the other way round.                                  *)
AuthorizationIsFinal ==
    [][\A k \in Sends :
         auth[k].state \notin {"none", "AUTHORIZED"} => auth'[k] = auth[k]]_humanVars

-----------------------------------------------------------------------------
(* What the documents say and the code does not keep.                          *)

\* "Completed and cancelled work items ... cannot be resurrected."
\* The code does not keep it (README, Divergences).
WorkIsAbsorbed ==
    [][\A w \in Works : work[w].state \in WorkTerminal => work'[w].state = work[w].state]_humanVars

\* "The active count is transactionally maintained and reconcilable from assignment rows."
\* The code does not keep it (README, Divergences).
CountsAgree == \A a \in Agents : presence[a].count = Cardinality(OpenOf(a))

\* An agent whose assignment is ACTIVE owns the conversation.
\* The code does not keep it (README, Divergences).
ActiveOwns ==
    \A i \in Ids : asg[i].state = "ACTIVE" =>
        own[ConvOf[asg[i].work]].mode = "HUMAN" /\ own[ConvOf[asg[i].work]].asg = i

(* The owner of a conversation is live, and what an agent commits was decided  *)
(* on rows that still hold.                                                    *)
OwnershipHolds == OwnerIsLive /\ AgentsAreFenced

(* The rows have their types and satisfy the constraints of their tables in    *)
(* every state, also after a race, and agree with each other unless one raced. *)
WorkRowsAgree ==
    /\ HumansTypeOK /\ ActiveCountBounds /\ WorkRefers /\ AuthorityShape /\ ActiveWorkUnique
    /\ HandoffRefers /\ AuthorizationRefers /\ RowsAgreeUnlessRaced
=============================================================================
