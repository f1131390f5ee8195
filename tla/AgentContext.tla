---------------------------- MODULE AgentContext ----------------------------
(***************************************************************************)
(* What reaches the model: the history window of a turn                    *)
(* (AgentService._run_turn, AgentContextBuilder.build, build_messages) and *)
(* the tool results fed back to it (bound_reinjection, _fit_value).        *)
(* Texts are their sizes: a turn is the bytes of its clipped input and     *)
(* response, a tool output the serialised width of each of its code        *)
(* points. The binary search of _fit_value is modelled probe by probe.     *)
(***************************************************************************)
EXTENDS Integers, Sequences, SequencesExt

CONSTANTS
    MaxMessages,    \* max_context_messages
    MaxBytes,       \* max_context_bytes
    TurnSizes,      \* sizes of the texts of a turn; 0 is a missing text
    MaxPrior,       \* bound: turns before the current one
    Widths,         \* serialised width of a code point
    MaxOutput,      \* bound: code points of a tool output
    Skeleton,       \* width of the result object around the output
    Preview,        \* width of {"truncated": true, "preview": ""}
    Envelope,       \* width of {"truncated": true, "ok": false}
    Flag,           \* width of {"truncated": true}
    Limits          \* values of max_tool_result_bytes

ASSUME ContextBounds ==
    /\ {MaxMessages, MaxBytes, MaxPrior, MaxOutput, Skeleton, Preview, Envelope, Flag}
         \subseteq Nat
    /\ TurnSizes \subseteq Nat /\ Widths \subseteq Nat \ {0} /\ Limits \subseteq Nat

VARIABLES
    rows,      \* the session's earlier turns, oldest first
    history,   \* the messages of the assembled context
    output,    \* the widths of the code points of a tool output
    limit,
    low, high, \* the bounds of the search in _fit_value
    stage,     \* "context", "bound", "search", "done"
    sent       \* the width of the object that is fed back

cVars == <<rows, history, output, limit, low, high, stage, sent>>

PriorTurn == [done : BOOLEAN, input : TurnSizes \ {0}, response : TurnSizes]

ContextInit ==
    /\ rows \in {s \in UNION {[1..n -> PriorTurn] : n \in 0..MaxPrior} :
                   \A t \in DOMAIN s : s[t].done \/ s[t].response = 0}
    /\ history = <<>> /\ low = 0 /\ high = 0 /\ sent = 0
    /\ \/ stage = "context" /\ output = <<>> /\ limit = 0
       \/ /\ stage = "bound" /\ rows = <<>> /\ limit \in Limits
          /\ output \in UNION {[1..n -> Widths] : n \in 0..MaxOutput}

-----------------------------------------------------------------------------
(* AgentTurnRepository.list_for_session: ascending sequence, at most n rows *)
ListForSession(n) == [t \in 1..(IF Len(rows) < n THEN Len(rows) ELSE n) |-> t]

PriorTurns == SelectSeq(ListForSession(MaxMessages + 1), LAMBDA t : rows[t].done)

LastOf(s, n) == SubSeq(s, IF Len(s) > n THEN Len(s) - n + 1 ELSE 1, Len(s))

(* one text of turn t: dropped with all that follows once the budget is used *)
AddText(acc, t, size) ==
    IF acc.budget <= 0 \/ size = 0 THEN acc
    ELSE [budget |-> acc.budget - size,
          texts |-> IF acc.budget - size <= 0 THEN acc.texts
                    ELSE Append(acc.texts, [turn |-> t, size |-> size])]

AddTurn(acc, t) == AddText(AddText(acc, t, rows[t].input), t, rows[t].response)

History(window) == FoldLeft(AddTurn, [texts |-> <<>>, budget |-> MaxBytes], window).texts

BuildContext ==
    /\ stage = "context"
    /\ history' = History(LastOf(PriorTurns, MaxMessages))
    /\ stage' = "done"
    /\ UNCHANGED <<rows, output, limit, low, high, sent>>

-----------------------------------------------------------------------------
Width(n) == FoldLeft(LAMBDA a, b : a + b, 0, SubSeq(output, 1, n))
Null == 4   \* len("null")

(* a result that fits is sent as it is; otherwise its output is cut *)
BoundReinjection ==
    LET budget == limit - (Skeleton + Null) + Null IN
    /\ stage = "bound"
    /\ IF Skeleton + Width(Len(output)) <= limit
       THEN stage' = "done" /\ sent' = Skeleton + Width(Len(output)) /\ low' = Len(output) /\ UNCHANGED high
       ELSE IF budget <= 0 \/ Preview > budget
       THEN /\ sent' = IF Skeleton + Flag <= limit THEN Skeleton + Flag
                      ELSE IF Envelope <= limit THEN Envelope ELSE Flag
            /\ stage' = "done" /\ UNCHANGED <<low, high>>
       ELSE stage' = "search" /\ low' = 0 /\ high' = Len(output) /\ UNCHANGED sent
    /\ UNCHANGED <<rows, history, output, limit>>

Bug_FitValue ==
    LET budget == limit - Skeleton
        mid == (low + high + 1) \div 2
    IN
    /\ stage = "search"
    /\ IF low < high
       THEN /\ IF Width(mid) <= budget
               THEN low' = mid /\ UNCHANGED high
               ELSE high' = mid - 1 /\ UNCHANGED low
            /\ UNCHANGED <<stage, sent>>
       ELSE stage' = "done" /\ sent' = Skeleton + Preview + Width(low) /\ UNCHANGED <<low, high>>
    /\ UNCHANGED <<rows, history, output, limit>>

(* one probe of the binary search for the longest preview that fits *)
FitValue ==
    LET budget == limit - Skeleton
        mid == (low + high + 1) \div 2
    IN
    /\ stage = "search"
    /\ IF low < high
       THEN /\ IF Preview + Width(mid) <= budget
               THEN low' = mid /\ UNCHANGED high
               ELSE high' = mid - 1 /\ UNCHANGED low
            /\ UNCHANGED <<stage, sent>>
       ELSE stage' = "done" /\ sent' = Skeleton + Preview + Width(low) /\ UNCHANGED <<low, high>>
    /\ UNCHANGED <<rows, history, output, limit>>

ContextNext == BuildContext \/ BoundReinjection \/ FitValue

ContextSpec == ContextInit /\ [][ContextNext]_cVars

-----------------------------------------------------------------------------
HistoryBytes == FoldLeft(LAMBDA a, text : a + text.size, 0, history)

(* The history stays inside its byte budget and its window                 *)
(* (AgentContextBuilder.build). A tool result stays inside its limit       *)
(* whenever the smallest envelope does, and keeps the longest preview that *)
(* fits (bound_reinjection, _fit_value).                                   *)
WhatTheModelSeesFits ==
    /\ HistoryBytes <= MaxBytes
    /\ \A i, j \in DOMAIN history : history[j].turn - history[i].turn <= MaxMessages
    /\ stage = "done" /\ limit >= Flag => sent <= limit
    /\ stage = "done" /\ sent >= Skeleton + Preview /\ low < Len(output) =>
         Skeleton + Preview + Width(low + 1) > limit

(* docs/adr/0092-context-and-prompt-trust-boundaries.md:38: "a fixed       *)
(* window over prior turns (`prior_turns[-N:]`), oldest dropped first". A  *)
(* completed turn is left out only if every older one is.                  *)
(* The code does not keep it (README, Divergences).                        *)
OldestDroppedFirst ==
    stage = "done" =>
      \A i \in DOMAIN history : \A t \in history[i].turn..Len(rows) :
        rows[t].done => \E j \in DOMAIN history : history[j].turn = t

=============================================================================
