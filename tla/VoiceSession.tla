---------------------------- MODULE VoiceSession ----------------------------
(***************************************************************************)
(* Live voice sessions: an AI voice stream attached to the media session   *)
(* of a telephone call (nexus_ai/voice/service.py, runtime.py,             *)
(* webhooks.py).  A start request claims the media session with a PENDING  *)
(* row and spawns a background task; the task opens the provider session,  *)
(* connects the stream, pumps it, and writes the end of the session.       *)
(* Stop and hand-off cancel the task of THIS process and write CANCELLED;  *)
(* the provider's post-call callback corrects the usage afterwards.  Every *)
(* tenant transaction is one step.  A start is named by the session id it  *)
(* would create, and that id also names the provider's conversation.       *)
(* Requests refused without a write change nothing and are left out.       *)
(***************************************************************************)
EXTENDS Integers, FiniteSets, Common

CONSTANTS Voices,        \* start requests, and the sessions they create
          VoiceStops,    \* stop and hand-off requests
          VoiceKeys,     \* idempotency keys, possibly None
          VoicePrints,   \* request fingerprints
          MediaIds,      \* telephony media sessions
          MaxVoiceAdmin, \* configuration changes and media ends
          MaxVoiceFaults \* failed secret reads, dead tasks, restarts

VARIABLES vAccount, vMedia, vSession, vUsage, vReceipts, vEndings,
          vStart, vTask, vStop, vAdmin, vFaults

voiceRows == <<vSession, vUsage, vReceipts, vEndings>>
voiceSetup == <<vAccount, vMedia, vAdmin>>
voiceVars == <<vAccount, vMedia, vSession, vUsage, vReceipts, vEndings,
               vStart, vTask, vStop, vAdmin, vFaults>>

VoiceTerminal == {"COMPLETED", "FAILED", "CANCELLED"}

VoiceLive == {"PENDING", "CONNECTING", "CONNECTED", "STREAMING", "ENDING"}

VoiceRank(s) ==
  CASE s = "PENDING" -> 0 [] s = "CONNECTING" -> 1 [] s = "CONNECTED" -> 2
    [] s = "STREAMING" -> 3 [] s = "ENDING" -> 4 [] OTHER -> 5

\* The proposals of the service carry neither a timestamp nor a sequence, so
\* the provider order never decides.
FoldVoice(current, proposed) ==
  IF current \in VoiceTerminal \/ VoiceRank(proposed) <= VoiceRank(current)
  THEN current ELSE proposed

HandoffStates == {"AI", "PENDING_HUMAN", "HUMAN"}

VoiceRow == [state: VoiceLive \union VoiceTerminal, handoff: HandoffStates,
             key: VoiceKeys \union {None}, print: VoicePrints \union {None},
             media: MediaIds, known: BOOLEAN, usage: {"none", "local", "provider"}]

\* No row: compared by its state only, which no stored row has.
NoVoice == [state |-> "absent", handoff |-> "AI", key |-> None,
            print |-> None, media |-> None, known |-> FALSE, usage |-> "none"]

UsageRecord == {"none", "local", "provider"}

IdleStart == [pc |-> "idle", key |-> None, print |-> None, media |-> None]

IdleStop == [pc |-> "idle", voice |-> None]

Stored == {v \in Voices : vSession[v].state # "absent"}

VoiceLives == {v \in Stored : vSession[v].state \in VoiceLive}

VoiceInit ==
  /\ vAccount = [active |-> TRUE, profile |-> TRUE]
  /\ vMedia = [m \in MediaIds |-> "ACTIVE"]
  /\ vSession = [v \in Voices |-> NoVoice]
  /\ vUsage = [v \in Voices |-> "none"]
  /\ vReceipts = {}
  /\ vEndings = [v \in Voices |-> 0]
  /\ vStart = [v \in Voices |-> IdleStart]
  /\ vTask = [v \in Voices |-> "none"]
  /\ vStop = [t \in VoiceStops |-> IdleStop]
  /\ vAdmin = 0
  /\ vFaults = 0

-----------------------------------------------------------------------------
(* Starting a session. *)

\* The account and the profile are usable and the media session is ACTIVE when
\* read; nothing re-reads them afterwards.
ResolveMedia(m) == vMedia[m] = "ACTIVE"

VoiceBegin(v) ==
  /\ vStart[v] = IdleStart
  /\ vAccount.active /\ vAccount.profile
  /\ \E k \in VoiceKeys, p \in VoicePrints, m \in MediaIds :
       /\ ResolveMedia(m)
       /\ vStart' = [vStart EXCEPT ![v] =
            [pc |-> "persist", key |-> k, print |-> p, media |-> m]]
  /\ UNCHANGED <<voiceSetup, voiceRows, vTask, vStop, vFaults>>

VoiceWithKey(k) == {v \in Stored : k # None /\ vSession[v].key = k}

LiveForMedia(m) == {v \in VoiceLives : vSession[v].media = m}

VoiceGoto(v, pc) == vStart' = [vStart EXCEPT ![v].pc = pc]

VoiceLeaves(v) == vStart' = [vStart EXCEPT ![v] = [IdleStart EXCEPT !.pc = "done"]]

\* A used key answers with the stored session or with a conflict, whatever the
\* read before the transaction saw: the unique constraint on the key decides.
VoiceReplay(v) ==
  /\ vStart[v].pc = "persist"
  /\ VoiceWithKey(vStart[v].key) # {}
  /\ VoiceLeaves(v)
  /\ UNCHANGED <<voiceSetup, voiceRows, vTask, vStop, vFaults>>

NewVoice(c) ==
  [state |-> "PENDING", handoff |-> "AI", key |-> c.key,
   print |-> IF c.key = None THEN None ELSE c.print, media |-> c.media,
   known |-> FALSE, usage |-> "none"]

VoicePersist(v) ==
  /\ vStart[v].pc = "persist"
  /\ VoiceWithKey(vStart[v].key) = {}
  /\ IF LiveForMedia(vStart[v].media) = {}
     THEN /\ vSession' = [vSession EXCEPT ![v] = NewVoice(vStart[v])]
          /\ VoiceGoto(v, "secret")
     ELSE VoiceLeaves(v) /\ UNCHANGED vSession
  /\ UNCHANGED <<voiceSetup, vUsage, vReceipts, vEndings, vTask, vStop, vFaults>>

VoiceFault == vFaults < MaxVoiceFaults /\ vFaults' = vFaults + 1

\* The vault cannot read the credential: the request fails and the row stays.
VoiceResolveSecret(v) ==
  /\ vStart[v].pc = "secret"
  /\ \/ VoiceGoto(v, "connecting") /\ UNCHANGED vFaults
     \/ VoiceFault /\ VoiceLeaves(v)
  /\ UNCHANGED <<voiceSetup, voiceRows, vTask, vStop>>

Transition(v, target, known) ==
  vSession' = IF vSession[v].state \in VoiceTerminal
                 \/ FoldVoice(vSession[v].state, target) = vSession[v].state
              THEN vSession
              ELSE [vSession EXCEPT ![v].state = FoldVoice(@, target),
                                    ![v].known = @ \/ known]

VoiceConnecting(v) ==
  /\ vStart[v].pc = "connecting"
  /\ Transition(v, "CONNECTING", FALSE)
  /\ VoiceGoto(v, "spawn")
  /\ UNCHANGED <<voiceSetup, vUsage, vReceipts, vEndings, vTask, vStop, vFaults>>

\* The task is created whatever the transition found.
VoiceSpawn(v) ==
  /\ vStart[v].pc = "spawn"
  /\ vTask' = [vTask EXCEPT ![v] = "opening"]
  /\ VoiceLeaves(v)
  /\ UNCHANGED <<voiceSetup, voiceRows, vStop, vFaults>>

-----------------------------------------------------------------------------
(* The background task. *)

TaskGoto(v, pc) == vTask' = [vTask EXCEPT ![v] = pc]

TaskStays == UNCHANGED <<voiceSetup, vUsage, vReceipts, vEndings, vStart, vStop>>

\* adapter.open_session, bounded by provider_timeout_seconds: a refusal or a
\* timeout is an NxsError and ends the session as FAILED.
OpenSession(v) ==
  /\ vTask[v] = "opening"
  /\ TaskGoto(v, "connect") \/ TaskGoto(v, "FAILED")
  /\ TaskStays /\ UNCHANGED <<vSession, vFaults>>

\* transport.connect, then the CONNECTED hook.
Connect(v) ==
  /\ vTask[v] = "connect"
  /\ \/ TaskGoto(v, "attached") /\ Transition(v, "CONNECTED", FALSE)
     \/ TaskGoto(v, "FAILED") /\ UNCHANGED vSession
  /\ TaskStays /\ UNCHANGED vFaults

\* The reader dispatches one provider frame.  Audio, keep-alives, transcripts and
\* interruptions touch no row of the session.
FrameEffect(kind) ==
  CASE kind = "SESSION_STARTED" -> "streams"
    [] kind = "SESSION_ENDED" -> "COMPLETED"
    [] kind = "ERROR" -> "FAILED"
    [] OTHER -> "nothing"

FrameKinds == {"SESSION_STARTED", "SESSION_ENDED", "ERROR", "AUDIO_OUTPUT",
               "KEEPALIVE", "INTERRUPTION", "TRANSCRIPT", "AGENT_TEXT"}

Frame(v) ==
  /\ vTask[v] = "attached"
  /\ \E kind \in FrameKinds :
       \/ /\ FrameEffect(kind) = "streams"
          /\ Transition(v, "STREAMING", TRUE)
          /\ UNCHANGED vTask
       \/ /\ FrameEffect(kind) \in VoiceTerminal
          /\ TaskGoto(v, FrameEffect(kind))
          /\ UNCHANGED vSession
  /\ TaskStays /\ UNCHANGED vFaults

\* Either pump stops: the media side ended or idled, or a peer closed the stream
\* (COMPLETED); the provider idled, broke the protocol, or the session reached
\* max_session_seconds (FAILED).
PumpEnds(v) ==
  /\ vTask[v] = "attached"
  /\ TaskGoto(v, "COMPLETED") \/ TaskGoto(v, "FAILED")
  /\ TaskStays /\ UNCHANGED <<vSession, vFaults>>

\* A StreamClosed raised by the first send, or a database error in a hook, is no
\* NxsError: the task dies and nothing writes the end.
TaskDies(v) ==
  /\ vTask[v] \in {"connect", "attached"}
  /\ VoiceFault
  /\ TaskGoto(v, "none")
  /\ TaskStays /\ UNCHANGED vSession

Bug_Finalize(v) ==
  /\ vTask[v] \in {"COMPLETED", "FAILED"}
  /\ TaskGoto(v, "none")
  /\ vSession' = [vSession EXCEPT ![v].state = vTask[v], ![v].usage = "local"]
  /\ vUsage' = [vUsage EXCEPT ![v] = "local"]
  /\ vEndings' = [vEndings EXCEPT ![v] = @ + 1]
  /\ UNCHANGED <<voiceSetup, vReceipts, vStart, vStop, vFaults>>

Finalize(v) ==
  /\ vTask[v] \in {"COMPLETED", "FAILED"}
  /\ TaskGoto(v, "none")
  /\ IF vSession[v].state \in VoiceTerminal
     THEN UNCHANGED <<vSession, vUsage, vEndings>>
     ELSE /\ vSession' = [vSession EXCEPT ![v].state = vTask[v],
                                          ![v].usage = "local"]
          /\ vUsage' = [vUsage EXCEPT ![v] = "local"]
          /\ vEndings' = [vEndings EXCEPT ![v] = @ + 1]
  /\ UNCHANGED <<voiceSetup, vReceipts, vStart, vStop, vFaults>>

-----------------------------------------------------------------------------
(* Stop and hand-off. *)

StopGoto(t, pc) == vStop' = [vStop EXCEPT ![t].pc = pc]

StopSession(t) ==
  /\ vStop[t] = IdleStop
  /\ \E v \in Stored : vStop' = [vStop EXCEPT ![t] = [pc |-> "cancel", voice |-> v]]
  /\ UNCHANGED <<voiceSetup, voiceRows, vStart, vTask, vFaults>>

RequestHandoff(t) ==
  /\ vStop[t] = IdleStop
  /\ \E v \in VoiceLives :
       /\ vSession[v].handoff = "AI"
       /\ vSession' = [vSession EXCEPT ![v].handoff = "PENDING_HUMAN"]
       /\ vStop' = [vStop EXCEPT ![t] = [pc |-> "cancel", voice |-> v]]
  /\ UNCHANGED <<voiceSetup, vUsage, vReceipts, vEndings, vStart, vTask, vFaults>>

\* Under the session's terminalize lock.  The awaited task has closed its
\* transport and its media channel when it is gone.
CancelTask(t) ==
  /\ vStop[t].pc = "cancel"
  /\ \A u \in VoiceStops : vStop[u].pc = "write" => vStop[u].voice # vStop[t].voice
  /\ vTask' = [vTask EXCEPT ![vStop[t].voice] = "none"]
  /\ StopGoto(t, "write")
  /\ UNCHANGED <<voiceSetup, voiceRows, vStart, vFaults>>

VoiceTerminalize(t) ==
  /\ vStop[t].pc = "write"
  /\ LET v == vStop[t].voice IN
       IF vSession[v].state \in VoiceTerminal
       THEN UNCHANGED <<vSession, vEndings>>
       ELSE /\ vSession' = [vSession EXCEPT ![v].state = "CANCELLED"]
            /\ vEndings' = [vEndings EXCEPT ![v] = @ + 1]
  /\ StopGoto(t, "done")
  /\ UNCHANGED <<voiceSetup, vUsage, vReceipts, vStart, vTask, vFaults>>

ConfirmHandoff(v) ==
  /\ vSession[v].handoff = "PENDING_HUMAN"
  /\ vSession' = [vSession EXCEPT ![v].handoff = "HUMAN"]
  /\ UNCHANGED <<voiceSetup, vUsage, vReceipts, vEndings, vStart, vTask, vStop, vFaults>>

\* The process stops: shutdown cancels every task and writes nothing, and the
\* requests in flight are gone with it.
VoiceShutdown ==
  /\ VoiceFault
  /\ vTask' = [v \in Voices |-> "none"]
  /\ vStart' = [v \in Voices |->
                 IF vStart[v].pc \in {"idle", "done"} THEN vStart[v]
                 ELSE [IdleStart EXCEPT !.pc = "done"]]
  /\ vStop' = [t \in VoiceStops |->
                IF vStop[t].pc = "idle" THEN vStop[t] ELSE [vStop[t] EXCEPT !.pc = "lost"]]
  /\ UNCHANGED <<voiceSetup, voiceRows>>

-----------------------------------------------------------------------------
(* The post-call callback, and administration. *)

ByProviderSession(c) == {v \in Stored : v = c /\ vSession[v].known}

\* The receipt, the corrected usage and the event commit together; a second
\* delivery finds the receipt.  A session that has no usage yet keeps none, and
\* one whose row never learned the provider's id is not found.
PostCall(c) ==
  /\ vAccount.active
  /\ c \notin vReceipts
  /\ vSession[c].state \in {"STREAMING", "ENDING"} \union VoiceTerminal
  /\ vReceipts' = vReceipts \union {c}
  /\ LET found == {v \in ByProviderSession(c) : vSession[v].usage # "none"} IN
       /\ vSession' = [v \in Voices |->
            IF v \in found THEN [vSession[v] EXCEPT !.usage = "provider"]
            ELSE vSession[v]]
       /\ vUsage' = [v \in Voices |-> IF v \in found THEN "provider" ELSE vUsage[v]]
  /\ UNCHANGED <<voiceSetup, vEndings, vStart, vTask, vStop, vFaults>>

VoiceAdministers == vAdmin < MaxVoiceAdmin /\ vAdmin' = vAdmin + 1

SetVoiceAccount ==
  /\ VoiceAdministers
  /\ vAccount' = [vAccount EXCEPT !.active = ~@]
  /\ UNCHANGED <<vMedia, voiceRows, vStart, vTask, vStop, vFaults>>

SetVoiceProfile ==
  /\ VoiceAdministers
  /\ vAccount' = [vAccount EXCEPT !.profile = ~@]
  /\ UNCHANGED <<vMedia, voiceRows, vStart, vTask, vStop, vFaults>>

\* The telephony side ends the media session; the voice side is not told.
MediaEnds(m) ==
  /\ VoiceAdministers
  /\ vMedia' = [vMedia EXCEPT ![m] = "STOPPED"]
  /\ UNCHANGED <<vAccount, voiceRows, vStart, vTask, vStop, vFaults>>

StartStep(v) ==
  \/ VoiceBegin(v) \/ VoiceReplay(v) \/ VoicePersist(v)
  \/ VoiceResolveSecret(v) \/ VoiceConnecting(v) \/ VoiceSpawn(v)

RunStep(v) ==
  \/ OpenSession(v) \/ Connect(v) \/ Frame(v) \/ PumpEnds(v)
  \/ TaskDies(v) \/ Finalize(v)

StopStep(t) ==
  StopSession(t) \/ RequestHandoff(t) \/ CancelTask(t) \/ VoiceTerminalize(t)

VoiceNext ==
  \/ \E v \in Voices : StartStep(v) \/ RunStep(v) \/ ConfirmHandoff(v) \/ PostCall(v)
  \/ \E t \in VoiceStops : StopStep(t)
  \/ VoiceShutdown
  \/ SetVoiceAccount
  \/ SetVoiceProfile
  \/ \E m \in MediaIds : MediaEnds(m)

VoiceSpec == VoiceInit /\ [][VoiceNext]_voiceVars

-----------------------------------------------------------------------------
(* The rows, and what the tables demand of them. *)

VoiceTypeOK ==
  /\ vSession \in [Voices -> VoiceRow \union {NoVoice}]
  /\ vUsage \in [Voices -> UsageRecord]

\* voice_sessions: a rank in bounds, one session per key, and the partial unique
\* index of the live sessions of a media session.
VoiceRowsUnique ==
  /\ \A v \in Stored : VoiceRank(vSession[v].state) \in 0..5
  /\ \A v, w \in Stored : v # w => vSession[v].key = None \/ vSession[v].key # vSession[w].key
  /\ \A v, w \in VoiceLives : vSession[v].media = vSession[w].media => v = w

\* voice_usage_records: usage is of a stored session.
UsageRefers == {v \in Voices : vUsage[v] # "none"} \subseteq Stored

-----------------------------------------------------------------------------
(* Properties. *)

\* At most one session is live on a media session and at most one is stored per
\* key, whatever starts, replays, stops and restarts race (start_session,
\* _persist_created), and the rows are ones the tables accept.
OneVoicePerMedia == VoiceTypeOK /\ VoiceRowsUnique /\ UsageRefers

\* The end of a session is announced exactly once: the terminal write of the
\* task, of a stop and of a hand-off exclude each other (_finalize,
\* _cancel_and_terminalize), and a session still live announced none.
VoiceEndsOnce ==
  \A v \in Voices :
    vEndings[v] = IF vSession[v].state \in VoiceTerminal THEN 1 ELSE 0

\* The usage on the session row and the usage record agree, and only a session
\* that its own task ended has any (_finalize, the post-call webhook).
UsageAgrees ==
  \A v \in Voices :
    /\ vUsage[v] = vSession[v].usage
    /\ vUsage[v] # "none" => vSession[v].state \in {"COMPLETED", "FAILED"}

\* What the service says of a stop or a hand-off that has returned: the AI
\* stream is detached.  A start still between its insert and its create_task is
\* not seen by the stop, and spawns the task afterwards.
\* The code does not keep it (README, Divergences).
StoppedIsDetached ==
  \A t \in VoiceStops :
    vStop[t].pc = "done" => vTask[vStop[t].voice] = "none"

\* A media session carries one voice session at a time, which ends once and is
\* charged as it ended.
VoiceIsSingle == OneVoicePerMedia /\ VoiceEndsOnce /\ UsageAgrees
=============================================================================
