----------------------------- MODULE AgentTurns -----------------------------
(***************************************************************************)
(* Turns of one agent session, run by several workers (agents/service.py,  *)
(* agents/runtime.py, domain/agents).                                      *)
(*                                                                         *)
(* submit_turn opens a turn in one transaction under the session row lock, *)
(* runs the bounded model / tool loop outside any transaction, and commits *)
(* the outcome in a last one.  Every model call and every tool dispatch is *)
(* preceded by a transaction that takes the same row lock and inserts a    *)
(* unique permit.  stop, cancel and the absolute lifetime end the session  *)
(* in transactions of their own, from any worker, at any moment in between.*)
(* An asyncio lock serialises the turns of one worker only.                *)
(*                                                                         *)
(* Requests that are refused without a write (a busy session, a conflicting*)
(* key, a terminal session) are steps that change nothing, and left out.   *)
(***************************************************************************)
EXTENDS Integers, Sequences, FiniteSets, FiniteSetsExt, Common

CONSTANTS
    AgentWorkers,        \* processes that run AgentService
    TurnKeys,            \* idempotency keys callers use
    Contents,            \* request contents; the fingerprint of a request
    Calls,               \* semantic tool calls: tool key and argument hash
    AllowedCalls,        \* those whose tool is on the agent's allow-list
    MaxToolIterations,   \* max_tool_iterations
    MaxCallsPerTurn,     \* max_tool_calls_per_turn
    MaxCallsPerResponse, \* max_tool_calls_per_response
    MaxTurns,            \* bound: turns opened
    MaxStops,            \* bound: stop / cancel requests
    MaxLost              \* bound: workers that vanish in the middle of a turn

ASSUME AgentBounds ==
    /\ AllowedCalls \subseteq Calls
    /\ {MaxToolIterations, MaxCallsPerTurn, MaxCallsPerResponse, MaxTurns} \subseteq Nat

NoKey == "no key"

VARIABLES
    parts,    \* which of the agent, its profile and its account are ACTIVE
    session,  \* the ai_agent_sessions row; its state is None before start_session
    late,     \* started_at + max_session_seconds has passed
    turns,    \* the ai_agent_turns rows, by sequence
    permits,  \* the rows of the two permit tables
    usage,    \* the ai_model_usage row; its turn_count is -1 before the first
    proc,     \* what each worker is doing inside submit_turn
    ending,   \* the terminal state a worker is waiting to write
    work,     \* how often each unit of external work was really begun
    replies,  \* <<key, response>> handed to callers
    stops, lost

aVars == <<parts, session, late, turns, permits, usage, proc, ending,
           work, replies, stops, lost>>

Configured == {"agent", "profile", "account"}

SessionTerminal == {"COMPLETED", "FAILED", "CANCELLED", "EXPIRED"}
TurnTerminal == {"COMPLETED", "FAILED", "CANCELLED"}

(* the live-transition graph of the session; a turn leaves it ACTIVE *)
SessionEdges == [PENDING |-> {"ACTIVE", "RESPONDING"},
                 ACTIVE |-> {"WAITING_TOOL", "RESPONDING"},
                 WAITING_TOOL |-> {"ACTIVE", "RESPONDING"},
                 RESPONDING |-> {"ACTIVE"}]

FoldSession(current, proposed) ==
    IF current \in SessionTerminal THEN current
    ELSE IF proposed \in SessionTerminal \cup SessionEdges[current] THEN proposed
    ELSE current

Started == session.state # None
Live == Started /\ session.state \notin SessionTerminal

SessionRow == [state : {"ACTIVE"} \cup SessionTerminal,
               error_code : {None, "EXPIRED", "CANCELLED"},
               turn_count : 0..MaxTurns, tokens : Nat, tool_calls : Nat]

TurnRow == [state : {"RUNNING"} \cup TurnTerminal,
            key : TurnKeys \cup {NoKey}, content : Contents,
            owner : AgentWorkers, error_code : STRING,
            tokens : Nat, iterations : Nat, tool_calls : Nat]

NoSession == [state |-> None, error_code |-> None, turn_count |-> 0, tokens |-> 0, tool_calls |-> 0]

UsageRow == [tokens : Nat, tool_calls : Nat, turn_count : 0..MaxTurns]

NoUsage == [tokens |-> 0, tool_calls |-> 0, turn_count |-> -1]

ModelWork(t, i) == <<"model", t, i>>
ToolWork(t, c) == <<"tool", t, c>>
Work == {ModelWork(t, i) : t \in 1..MaxTurns, i \in 0..MaxToolIterations}
        \cup {ToolWork(t, c) : t \in 1..MaxTurns, c \in Calls}

Idle == [pc |-> "idle", turn |-> 0, iteration |-> 0, queue |-> <<>>,
         requested |-> 0, executed |-> {}, tokens |-> 0, code |-> None,
         cancelled |-> FALSE]

(* the points of submit_turn at which its task exists and can be cancelled *)
InTask == {"ready", "model", "tools", "dispatch", "record"}

Begin(w, pc) == proc' = [proc EXCEPT ![w].pc = pc]

(* an exception unwinds run_turn: all it knew but the turn is gone *)
Unwind(w, pc, code, cancelled) ==
    proc' = [proc EXCEPT ![w] = [Idle EXCEPT !.pc = pc, !.turn = proc[w].turn,
                                             !.code = code, !.cancelled = cancelled]]
Fail(w, code) == Unwind(w, "fail", code, FALSE)
Cancel(w, pc, code) == Unwind(w, pc, code, TRUE)

AgentsInit ==
    /\ parts = Configured
    /\ session = NoSession /\ late = FALSE /\ turns = <<>> /\ permits = {}
    /\ usage = NoUsage /\ replies = {}
    /\ proc = [w \in AgentWorkers |-> Idle]
    /\ ending = [w \in AgentWorkers |-> None]
    /\ work = [d \in Work |-> 0]
    /\ stops = 0 /\ lost = 0

-----------------------------------------------------------------------------
(* configuration and the start of the session *)

(* update_agent, update_profile and update_account switch a part on or off; *)
(* nothing reads a status once the session has started                      *)
SetStatus(x) ==
    /\ ~Started
    /\ parts' = IF x \in parts THEN parts \ {x} ELSE parts \cup {x}
    /\ UNCHANGED <<session, late, turns, permits, usage, proc, ending, work, replies, stops, lost>>

StartSession ==
    /\ ~Started /\ parts = Configured
    /\ session' = [NoSession EXCEPT !.state = "ACTIVE"]
    /\ UNCHANGED <<parts, late, turns, permits, usage, proc, ending, work, replies, stops, lost>>

LifetimePasses ==
    /\ Started /\ ~late
    /\ late' = TRUE
    /\ UNCHANGED <<parts, session, turns, permits, usage, proc, ending, work, replies, stops, lost>>

-----------------------------------------------------------------------------
(* the end of the session *)

RecordUsage(row) ==
    usage' = [tokens |-> row.tokens, tool_calls |-> row.tool_calls, turn_count |-> row.turn_count]

TerminalizeExpired ==
    LET row == [session EXCEPT !.state = FoldSession(@, "EXPIRED"), !.error_code = "EXPIRED"]
    IN  session' = row /\ RecordUsage(row)

(* stop_session and cancel_session first cancel the worker's own turn task *)
RequestEnd(w, target) ==
    /\ Started /\ ending[w] = None /\ stops < MaxStops
    /\ ending' = [ending EXCEPT ![w] = target]
    /\ stops' = stops + 1
    /\ IF proc[w].pc \in InTask THEN Cancel(w, "fail", "CANCELLED") ELSE UNCHANGED proc
    /\ UNCHANGED <<parts, session, late, turns, permits, usage, work, replies, lost>>

(* and write the terminal state once they hold the worker's lock *)
Terminalize(w) ==
    /\ ending[w] # None /\ proc[w].pc = "idle"
    /\ ending' = [ending EXCEPT ![w] = None]
    /\ IF Live
       THEN LET row == [session EXCEPT !.state = FoldSession(@, ending[w]),
                                       !.error_code = IF ending[w] = "CANCELLED"
                                                      THEN "CANCELLED" ELSE None]
            IN  session' = row /\ RecordUsage(row)
       ELSE UNCHANGED <<session, usage>>
    /\ UNCHANGED <<parts, late, turns, permits, proc, work, replies, stops, lost>>

-----------------------------------------------------------------------------
(* opening a turn *)

TurnsWithKey(k) == {t \in DOMAIN turns : k # NoKey /\ turns[t].key = k}

ActiveTurns == {t \in DOMAIN turns : turns[t].state \notin TurnTerminal}

ResponseOf(t) ==
    [turn |-> t, tool_calls |-> turns[t].tool_calls, tokens |-> turns[t].tokens]

(* a key that names a COMPLETED turn is answered from its row, whatever has *)
(* happened to the session since                                            *)
ReplayTurn(w, k, c) ==
    /\ Started /\ proc[w].pc = "idle"
    /\ \E t \in TurnsWithKey(k) :
         /\ turns[t].content = c /\ turns[t].state = "COMPLETED"
         /\ replies' = replies \cup {<<k, ResponseOf(t)>>}
    /\ UNCHANGED <<parts, session, late, turns, permits, usage, proc, ending, work, stops, lost>>

OpenExpired(w, k) ==
    /\ proc[w].pc = "idle" /\ TurnsWithKey(k) = {}
    /\ Live /\ late
    /\ TerminalizeExpired
    /\ UNCHANGED <<parts, late, turns, permits, proc, ending, work, replies, stops, lost>>

(* under the session row lock: no turn of the session is running *)
OpenTurn(w, k, c) ==
    /\ proc[w].pc = "idle" /\ TurnsWithKey(k) = {}
    /\ Live /\ ~late /\ ActiveTurns = {} /\ Len(turns) < MaxTurns
    /\ turns' = Append(turns, [state |-> "RUNNING", key |-> k, content |-> c, owner |-> w,
                               error_code |-> None, tokens |-> 0, iterations |-> 0,
                               tool_calls |-> 0])
    /\ session' = [session EXCEPT !.turn_count = @ + 1]
    /\ proc' = [proc EXCEPT ![w] = [Idle EXCEPT !.pc = "opened", !.turn = Len(turns) + 1]]
    /\ UNCHANGED <<parts, late, permits, usage, ending, work, replies, stops, lost>>

-----------------------------------------------------------------------------
(* the bounded loop of AgentRuntime.run_turn *)

(* the task is created; profile, account, context and tool specs are read *)
StartTask(w) ==
    /\ proc[w].pc = "opened"
    /\ Begin(w, "ready")
    /\ UNCHANGED <<parts, session, late, turns, permits, usage, ending, work, replies, stops, lost>>

(* what _assert_turn_authority demands of the turn row *)
TurnAuthority(w) ==
    LET row == turns[proc[w].turn]
    IN  row.state \notin TurnTerminal /\ row.owner = w

(* the code of the error a turn that lost its session ends with *)
StaleCode == IF session.error_code # None THEN session.error_code ELSE "INVALID_STATE"

(* the unique indexes of the two permit tables *)
PermitTaken(d) == d \in permits

(* _authorize_model_dispatch and _authorize_tool_dispatch: revoked by a    *)
(* terminal session, refused to a second owner or a second attempt         *)
Authorize(w, d, pc) ==
    \/ /\ ~Live
       /\ Cancel(w, "fail", StaleCode) /\ UNCHANGED permits
    \/ /\ Live /\ (~TurnAuthority(w) \/ PermitTaken(d))
       /\ Fail(w, "INVALID_STATE") /\ UNCHANGED permits
    \/ /\ Live /\ TurnAuthority(w) /\ ~PermitTaken(d)
       /\ permits' = permits \cup {d}
       /\ Begin(w, pc)

AuthorizeModel(w) ==
    /\ proc[w].pc = "ready"
    /\ Authorize(w, ModelWork(proc[w].turn, proc[w].iteration), "model")
    /\ UNCHANGED <<parts, session, late, turns, usage, ending, work, replies, stops, lost>>

(* what the model may answer: a final text, or up to one call too many *)
Responses == UNION {[1..n -> Calls] : n \in 0..MaxCallsPerResponse + 1}

CallModel(w) ==
    LET p == proc[w] IN
    /\ p.pc = "model"
    /\ work' = [work EXCEPT ![ModelWork(p.turn, p.iteration)] = @ + 1]
    /\ \/ Fail(w, "PROVIDER_ERROR")   \* timeout, transport, status or invalid output
       \/ \E r \in Responses :
            LET used == p.tokens + 1 IN
            IF r = <<>>
            THEN proc' = [proc EXCEPT ![w].pc = "finish", ![w].tokens = used]
            ELSE IF p.iteration >= MaxToolIterations
            THEN Fail(w, "TOOL_LOOP_LIMIT")
            ELSE IF Len(r) > MaxCallsPerResponse
            THEN Fail(w, "OUTPUT_INVALID")
            ELSE proc' = [proc EXCEPT ![w].pc = "tools", ![w].tokens = used, ![w].queue = r]
    /\ UNCHANGED <<parts, session, late, turns, permits, usage, ending, replies, stops, lost>>

(* the head of the queue: counted, then answered from the turn's own       *)
(* outcomes, or authorised; an empty queue starts the next iteration       *)
NextCall(w) ==
    LET p == proc[w] IN
    /\ p.pc = "tools"
    /\ IF p.queue = <<>>
       THEN /\ proc' = [proc EXCEPT ![w].pc = "ready", ![w].iteration = @ + 1]
            /\ UNCHANGED permits
       ELSE IF p.requested + 1 > MaxCallsPerTurn
       THEN Fail(w, "TOOL_LOOP_LIMIT") /\ UNCHANGED permits
       ELSE IF Head(p.queue) \in p.executed
       THEN /\ proc' = [proc EXCEPT ![w].requested = @ + 1, ![w].queue = Tail(@)]
            /\ UNCHANGED permits
       ELSE Authorize(w, ToolWork(p.turn, Head(p.queue)), "dispatch")
    /\ UNCHANGED <<parts, session, late, turns, usage, ending, work, replies, stops, lost>>

(* AgentToolBridge.execute: a call off the allow-list never reaches the    *)
(* engine; denied, failed and successful calls all give an outcome         *)
ExecuteTool(w) ==
    LET p == proc[w] c == Head(p.queue) IN
    /\ p.pc = "dispatch"
    /\ work' = [work EXCEPT ![ToolWork(p.turn, c)] = IF c \in AllowedCalls THEN @ + 1 ELSE @]
    /\ Begin(w, "record")
    /\ UNCHANGED <<parts, session, late, turns, permits, usage, ending, replies, stops, lost>>

(* _record_tool_call, then the outcome is kept for the rest of the turn *)
RecordToolCall(w) ==
    LET p == proc[w] IN
    /\ p.pc = "record"
    /\ proc' = [proc EXCEPT ![w].pc = "tools", ![w].executed = @ \cup {Head(p.queue)},
                            ![w].requested = @ + 1, ![w].queue = Tail(@)]
    /\ UNCHANGED <<parts, session, late, turns, permits, usage, ending, work, replies, stops, lost>>

-----------------------------------------------------------------------------
(* the end of the turn *)

(* asyncio.timeout in submit_turn: the smaller of the turn deadline and    *)
(* what is left of the session's lifetime                                  *)
TurnTimeout(w) ==
    /\ proc[w].pc \in InTask
    /\ IF late
       THEN Cancel(w, "expire", "EXPIRED")
       ELSE Fail(w, "TURN_TIMEOUT")
    /\ UNCHANGED <<parts, session, late, turns, permits, usage, ending, work, replies, stops, lost>>

ExpireSession(w) ==
    /\ proc[w].pc = "expire"
    /\ IF Live THEN TerminalizeExpired ELSE UNCHANGED <<session, usage>>
    /\ Begin(w, "fail")
    /\ UNCHANGED <<parts, late, turns, permits, ending, work, replies, stops, lost>>

FailTurn(w) ==
    LET p == proc[w] IN
    /\ p.pc = "fail"
    /\ turns' = IF turns[p.turn].state \in TurnTerminal THEN turns
                ELSE [turns EXCEPT ![p.turn].error_code = p.code,
                        ![p.turn].state = IF p.cancelled THEN "CANCELLED" ELSE "FAILED"]
    /\ session' = IF Live THEN [session EXCEPT !.state = "ACTIVE"] ELSE session
    /\ proc' = [proc EXCEPT ![w] = Idle]
    /\ UNCHANGED <<parts, late, permits, usage, ending, work, replies, stops, lost>>

(* _finish_turn: absorbed by a session that ended meanwhile *)
DiscardStaleTurn(w) ==
    /\ turns' = [turns EXCEPT ![proc[w].turn].state = "CANCELLED",
                              ![proc[w].turn].error_code = StaleCode]
    /\ UNCHANGED <<session, usage, replies>>

CompleteTurn(w) ==
    LET p == proc[w]
        done == Cardinality(p.executed)
        row == [session EXCEPT !.state = FoldSession(@, "ACTIVE"),
                               !.tokens = @ + p.tokens, !.tool_calls = @ + done]
    IN
    /\ turns' = [turns EXCEPT ![p.turn].state = "COMPLETED", ![p.turn].tokens = p.tokens,
                              ![p.turn].iterations = p.iteration, ![p.turn].tool_calls = done]
    /\ session' = row
    /\ RecordUsage(row)
    /\ replies' = replies \cup {<<turns[p.turn].key,
                                  [turn |-> p.turn, tool_calls |-> done, tokens |-> p.tokens]>>}

Bug_FinishTurn(w) ==
    /\ proc[w].pc = "finish"
    /\ CompleteTurn(w)
    /\ proc' = [proc EXCEPT ![w] = Idle]
    /\ UNCHANGED <<parts, late, permits, ending, work, stops, lost>>

FinishTurn(w) ==
    /\ proc[w].pc = "finish"
    /\ IF Live THEN CompleteTurn(w) ELSE DiscardStaleTurn(w)
    /\ proc' = [proc EXCEPT ![w] = Idle]
    /\ UNCHANGED <<parts, late, permits, ending, work, stops, lost>>

(* the worker dies, its last transaction fails and _fail_turn swallows the  *)
(* error, or _finish_turn raises: the row stays RUNNING, nothing takes over *)
LoseTurn(w) ==
    /\ proc[w].pc # "idle" /\ lost < MaxLost
    /\ lost' = lost + 1
    /\ proc' = [proc EXCEPT ![w] = Idle]
    /\ UNCHANGED <<parts, session, late, turns, permits, usage, ending, work, replies, stops>>

-----------------------------------------------------------------------------
TurnStep(w) ==
    \/ StartTask(w) \/ AuthorizeModel(w) \/ CallModel(w) \/ NextCall(w)
    \/ ExecuteTool(w) \/ RecordToolCall(w) \/ TurnTimeout(w)
    \/ ExpireSession(w) \/ FailTurn(w) \/ FinishTurn(w)

AgentsNext ==
    \/ \E x \in Configured : SetStatus(x)
    \/ StartSession
    \/ LifetimePasses
    \/ \E w \in AgentWorkers :
         \/ \E target \in {"COMPLETED", "CANCELLED"} : RequestEnd(w, target)
         \/ Terminalize(w)
         \/ \E k \in TurnKeys \cup {NoKey} : OpenExpired(w, k)
         \/ \E k \in TurnKeys \cup {NoKey}, c \in Contents : OpenTurn(w, k, c)
         \/ \E k \in TurnKeys, c \in Contents : ReplayTurn(w, k, c)
         \/ TurnStep(w)
         \/ LoseTurn(w)

AgentsSpec == AgentsInit /\ [][AgentsNext]_aVars

-----------------------------------------------------------------------------
AgentsTypeOK ==
    /\ parts \subseteq Configured
    /\ session \in SessionRow \cup {NoSession}
    /\ turns \in Seq(TurnRow)
    /\ permits \subseteq Work
    /\ usage \in UsageRow \cup {NoUsage}

(* ai_agent_turns: consecutive sequences by construction, and the partial  *)
(* unique index on the keys of a session's turns                           *)
TurnKeysUnique ==
    \A s, t \in DOMAIN turns : turns[s].key = turns[t].key /\ turns[s].key # NoKey => s = t

(* a permit is of a turn of the same session                               *)
PermitRefers == \A d \in permits : d[2] \in DOMAIN turns

(* No unit of external work is begun twice, and none without its permit:   *)
(* one model call per turn and iteration, one engine invocation per turn   *)
(* and semantic call, across repeated requests of the model, timeouts and  *)
(* workers (run_turn, _authorize_model_dispatch, _authorize_tool_dispatch) *)
DispatchedOnce == \A d \in Work : work[d] <= 1 /\ (work[d] = 1 => d \in permits)

(* A session has one running turn, and at most one worker is inside it     *)
(* (_open_turn under the session row lock).                                *)
OneTurnRuns ==
    /\ Cardinality(ActiveTurns) <= 1
    /\ \A v, w \in AgentWorkers :
         v # w /\ proc[v].pc # "idle" => proc[w].pc = "idle"

Consumed == MapThenSumSet(LAMBDA t : turns[t].tokens,
                          {t \in DOMAIN turns : turns[t].state = "COMPLETED"})

(* Once a session has ended, nothing revives it or is added to it: its row *)
(* and its usage are frozen, the usage states what its completed turns     *)
(* consumed, no permit is granted and no turn completes (_terminalize,     *)
(* _finish_turn, _record_usage).                                           *)
EndIsFinal ==
    [][~Live /\ Started =>
         /\ usage.tokens = Consumed /\ usage.turn_count = Len(turns)
         /\ session' = session /\ usage' = usage /\ permits' = permits
         /\ Consumed' = Consumed]_aVars

(* Every answer given under one key is the same answer: the one returned by*)
(* the turn that ran and the ones replayed from its row, also after the    *)
(* session ended (_resolve_existing_turn, _response_from_turn).            *)
ReplayIsExact ==
    \A a, b \in replies : a[1] = b[1] /\ a[1] # NoKey => a[2] = b[2]

(* A turn happens once: one runs at a time, its external work is begun at  *)
(* most once, and every repetition of its key gets the one answer; the     *)
(* rows written on the way are ones the tables accept; and an ended session*)
(* stays as it ended.                                                      *)
TurnsRunOnce ==
    /\ [](OneTurnRuns /\ DispatchedOnce /\ ReplayIsExact)
    /\ [](AgentsTypeOK /\ TurnKeysUnique /\ PermitRefers)
    /\ EndIsFinal
=============================================================================
