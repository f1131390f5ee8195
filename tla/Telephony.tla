----------------------------- MODULE Telephony -----------------------------
(***************************************************************************)
(* Outbound and inbound calls: TelephonyService.create_call with its       *)
(* admission fence and one-use SIP egress permit, the SIP edge that spends *)
(* the permit, hangup, and the provider's callbacks.                       *)
(*                                                                         *)
(* A create_call request inserts at most one row, so an outbound call is   *)
(* named after the request (Callers).  Every database transaction is one   *)
(* action; the request can die between two of them.  A request refused     *)
(* before it writes anything leaves no trace and is left out.              *)
(***************************************************************************)
EXTENDS Integers, Sequences, FiniteSets, Common

CONSTANTS Callers,       \* create_call requests
          Inbounds,      \* calls that arrive from the carrier
          CallKeys,      \* idempotency keys a request may carry; None for no key
          CallPrints,    \* request fingerprints
          Boots,         \* boots of SIP edges that ask to spend a permit
          Dialogs,       \* SIP dialogs an edge can report
          MaxCallRows,   \* calls stored
          MaxNews,       \* events the provider emits for one call
          MaxTelAdmin,   \* account and number changes
          MaxTelFaults   \* lost requests, lost replies, failed transactions

VARIABLES trunk,      \* the account and its number
          call,       \* telephony_calls
          media,      \* telephony_media_sessions of the call's bridge
          admission,  \* sip_call_admissions
          permit,     \* sip_egress_permits
          caller,     \* what each create_call request is doing
          hanging,    \* calls whose provider hangup is still to be sent
          leg,        \* what the provider did for the call
          news,       \* events the provider emitted, <<call, event>>
          telSeen,    \* telephony_call_events: receipts of events
          relays,     \* initial relays the resolver granted
          telAdmin, telFaults

telVars == <<trunk, call, media, admission, permit, caller, hanging, leg, news,
             telSeen, relays, telAdmin, telFaults>>
edgeVars == <<permit, relays>>
carrierVars == <<leg, news, telSeen, media>>

AllCalls == Callers \cup Inbounds

LiveStates == <<"CREATED", "RINGING", "EARLY_MEDIA", "ANSWERED", "BRIDGED", "ENDING">>
CallTerminal == {"COMPLETED", "FAILED", "CANCELLED", "BUSY", "NO_ANSWER"}
CallStates == {LiveStates[i] : i \in 1..Len(LiveStates)} \cup CallTerminal

CallRank(s) ==
  IF s \in CallTerminal THEN Len(LiveStates)
  ELSE (CHOOSE i \in 1..Len(LiveStates) : LiveStates[i] = s) - 1

CallRow ==
  [state : CallStates \cup {"absent"}, key : CallKeys \cup {None},
   print : CallPrints \cup {None}, ref : BOOLEAN, seq : 0..MaxNews,
   error : {None, "UNCONFIRMED", "TIMEOUT", "PROVIDER", "ADMISSION"}]

NoCall == [state |-> "absent", key |-> None, print |-> None, ref |-> FALSE,
           seq |-> 0, error |-> None]

AdmissionRow == [state : {"none", "PENDING", "DISPATCHED", "REVOKED"}, lapsed : BOOLEAN]

PermitRow ==
  [state : {"none", "AUTHORIZED", "CONSUMED", "ENDED", "AMBIGUOUS", "REVOKED"},
   lapsed : BOOLEAN, boot : Boots \cup {None}, dialog : Dialogs \cup {None}]

MediaStates == {"none", "ACTIVE", "STOPPED"}

TrunkRow == [status : {"ACTIVE", "DISABLED"}, verified : BOOLEAN, inbound : BOOLEAN]

\* A normalized provider event: a state change or a media change, with the
\* provider's own sequence number.
CallEvent(s, n) == [kind |-> "STATE", state |-> s, seq |-> n]
MediaEvent(s, n) == [kind |-> "MEDIA", state |-> s, seq |-> n]

IdleCaller == [at |-> "idle", key |-> None, print |-> None, found |-> None]

TelephonyInit ==
  /\ trunk = [status |-> "ACTIVE", verified |-> TRUE, inbound |-> TRUE]
  /\ call = [c \in AllCalls |-> NoCall]
  /\ media = [c \in AllCalls |-> "none"]
  /\ admission = [c \in Callers |-> [state |-> "none", lapsed |-> FALSE]]
  /\ permit = [c \in Callers |-> [state |-> "none", lapsed |-> FALSE, boot |-> None,
                                  dialog |-> None]]
  /\ caller = [c \in Callers |-> IdleCaller]
  /\ hanging = {}
  /\ leg = [c \in AllCalls |-> [asked |-> 0, up |-> FALSE, sent |-> 0]]
  /\ news = {} /\ telSeen = {}
  /\ relays = [c \in Callers |-> 0]
  /\ telAdmin = 0 /\ telFaults = 0

CallerGoto(c, l) == caller' = [caller EXCEPT ![c].at = l]
CallerEnds(c) == caller' = [caller EXCEPT ![c] = [IdleCaller EXCEPT !.at = "done"]]
TelFault == telFaults < MaxTelFaults /\ telFaults' = telFaults + 1

-----------------------------------------------------------------------------
(* create_call: the account and its number are checked, then the key.       *)

BeginCall(c, k, p) ==
  /\ caller[c].at = "idle"
  /\ trunk.status = "ACTIVE" /\ trunk.verified
  /\ caller' = [caller EXCEPT ![c] = [at |-> IF k = None THEN "persist" ELSE "replay",
                                      key |-> k, print |-> p, found |-> None]]
  /\ UNCHANGED <<trunk, call, admission, edgeVars, hanging, carrierVars, telAdmin, telFaults>>

StoredCalls == {d \in AllCalls : call[d].state # "absent"}

WithKey(k) == {d \in Callers : k # None /\ call[d].state # "absent" /\ call[d].key = k}

\* _replay: the call this key already made, for the same fingerprint only.
ReplayCall(c) ==
  /\ caller[c].at = "replay"
  /\ \/ WithKey(caller[c].key) = {} /\ CallerGoto(c, "persist")
     \/ \E d \in WithKey(caller[c].key) :
          IF call[d].print # caller[c].print THEN CallerEnds(c)
          ELSE caller' = [caller EXCEPT ![c].at = "reconcile", ![c].found = d]
  /\ UNCHANGED <<trunk, call, admission, edgeVars, hanging, carrierVars, telAdmin, telFaults>>

\* _persist_created: call, PENDING admission and event in one transaction.  The
\* key is unique per organization: a request that finds it taken ends (it read
\* the winner first) or looks the winner up again (its insert collided).
PersistCreated(c) ==
  /\ caller[c].at = "persist"
  /\ LET k == caller[c].key IN
     \/ /\ WithKey(k) = {} /\ Cardinality(StoredCalls) < MaxCallRows
        /\ CallerGoto(c, "permit")
        /\ call' = [call EXCEPT ![c] = [NoCall EXCEPT !.state = "CREATED", !.key = k,
                        !.print = IF k = None THEN None ELSE caller[c].print]]
        /\ admission' = [admission EXCEPT ![c] = [state |-> "PENDING", lapsed |-> FALSE]]
     \/ /\ WithKey(k) # {}
        /\ CallerEnds(c) \/ CallerGoto(c, "replay")
        /\ UNCHANGED <<call, admission>>
  /\ UNCHANGED <<trunk, edgeVars, hanging, carrierVars, telAdmin, telFaults>>

-----------------------------------------------------------------------------
(* The admission fence (telephony/admission.py) under the call's row lock.  *)

Failed(row, why) == [row EXCEPT !.state = "FAILED", !.error = why]

Bug_Revoke(d) ==
  /\ admission[d].state = "PENDING"
  /\ admission' = [admission EXCEPT ![d].state = "REVOKED"]
  /\ call' = IF call[d].state \in CallTerminal THEN call
             ELSE [call EXCEPT ![d] = Failed(call[d], "ADMISSION")]
  /\ permit' = permit

\* fence without dispatch: the admission is revoked with the permit it may
\* hold, and the call fails unless it already ended.
Revoke(d) ==
  /\ admission[d].state = "PENDING"
  /\ permit[d].state \in {"none", "AUTHORIZED", "REVOKED"}
  /\ admission' = [admission EXCEPT ![d].state = "REVOKED"]
  /\ permit' = IF permit[d].state = "AUTHORIZED"
                 THEN [permit EXCEPT ![d].state = "REVOKED"] ELSE permit
  /\ call' = IF call[d].state \in CallTerminal THEN call
             ELSE [call EXCEPT ![d] = Failed(call[d], "ADMISSION")]

\* _reconcile_admission without an owner: only a lapsed PENDING admission.
Reconcile(d) ==
  IF admission[d].state = "PENDING" /\ admission[d].lapsed
    THEN Revoke(d) ELSE UNCHANGED <<admission, permit, call>>

ReconcileFound(c) ==
  /\ caller[c].at = "reconcile"
  /\ Reconcile(caller[c].found)
  /\ CallerEnds(c)
  /\ UNCHANGED <<trunk, relays, hanging, carrierVars, telAdmin, telFaults>>

\* get_call, list_calls and recover_pending_admissions settle what lapsed.
ReadCall(d) ==
  /\ admission[d].state = "PENDING" /\ admission[d].lapsed
  /\ Revoke(d)
  /\ UNCHANGED <<trunk, caller, relays, hanging, carrierVars, telAdmin, telFaults>>

\* _abort_admission, by the owner; its transaction can fail too, and then the
\* admission stays PENDING until it lapses.
AbortAdmission(c) ==
  /\ caller[c].at = "abort"
  /\ CallerEnds(c)
  /\ \/ /\ IF admission[c].state = "PENDING"
             THEN Revoke(c) ELSE UNCHANGED <<admission, permit, call>>
        /\ UNCHANGED telFaults
     \/ TelFault /\ UNCHANGED <<admission, permit, call>>
  /\ UNCHANGED <<trunk, relays, hanging, carrierVars, telAdmin>>

\* revalidate_call: the call may still be carried.
Carriable(c) ==
  /\ trunk.status = "ACTIVE"
  /\ call[c].state \in {"CREATED", "RINGING", "ANSWERED", "BRIDGED"}

\* nxs_sip_permit_admission_fence: what a permit's admission must be.
AdmissionAllows(c, permitState) ==
  CASE permitState = "AUTHORIZED" -> admission[c].state = "PENDING" /\ ~admission[c].lapsed
    [] permitState = "CONSUMED"   -> admission[c].state = "DISPATCHED"
    [] OTHER -> TRUE

\* issue_for_call and authorize.  The timeout around it can fire after the
\* permit was committed, so an aborting request may leave one behind.
IssuePermit(c) ==
  /\ caller[c].at = "permit"
  /\ \/ /\ Carriable(c) /\ AdmissionAllows(c, "AUTHORIZED") /\ permit[c].state = "none"
        /\ permit' = [permit EXCEPT ![c].state = "AUTHORIZED"]
        /\ \/ CallerGoto(c, "fence") /\ UNCHANGED telFaults
           \/ CallerGoto(c, "abort") /\ TelFault
     \/ /\ CallerGoto(c, "abort")
        /\ UNCHANGED permit
        /\ \/ ~(Carriable(c) /\ AdmissionAllows(c, "AUTHORIZED")) /\ UNCHANGED telFaults
           \/ TelFault
  /\ UNCHANGED <<trunk, call, admission, relays, hanging, carrierVars, telAdmin>>

Dispatchable(c) ==
  /\ admission[c].state = "PENDING" /\ ~admission[c].lapsed
  /\ call[c].state \notin CallTerminal
  /\ permit[c].state = "AUTHORIZED" /\ ~permit[c].lapsed

\* fence(dispatch=True): only a committed DISPATCHED reaches the provider.  A
\* commit whose acknowledgement is lost leaves DISPATCHED and an aborting owner.
FenceDispatch(c) ==
  /\ caller[c].at = "fence"
  /\ \/ /\ Dispatchable(c)
        /\ admission' = [admission EXCEPT ![c].state = "DISPATCHED"]
        /\ call' = [call EXCEPT ![c].error = "UNCONFIRMED"]
        /\ \/ CallerGoto(c, "dial") /\ UNCHANGED telFaults
           \/ CallerGoto(c, "abort") /\ TelFault
     \/ /\ CallerGoto(c, "abort")
        /\ UNCHANGED <<admission, call>>
        /\ \/ ~Dispatchable(c) /\ UNCHANGED telFaults
           \/ TelFault
  /\ UNCHANGED <<trunk, edgeVars, hanging, carrierVars, telAdmin>>

AdmissionLapses(c) ==
  /\ admission[c].state # "none" /\ ~admission[c].lapsed
  /\ admission' = [admission EXCEPT ![c].lapsed = TRUE]
  /\ UNCHANGED <<trunk, call, caller, edgeVars, hanging, carrierVars, telAdmin, telFaults>>

\* The permit was issued later and lives as long, so it lapses later.
PermitLapses(c) ==
  /\ permit[c].state = "AUTHORIZED" /\ ~permit[c].lapsed /\ admission[c].lapsed
  /\ permit' = [permit EXCEPT ![c].lapsed = TRUE]
  /\ UNCHANGED <<trunk, call, admission, caller, relays, hanging, carrierVars, telAdmin,
                 telFaults>>

-----------------------------------------------------------------------------
(* The provider is asked once; its answer may be lost.                      *)

\* provider_call_failure and _call: how an answer that is not a channel id is read.
Answers == {[up |-> TRUE,  next |-> "link"],
            [up |-> TRUE,  next |-> "ambiguous"], [up |-> FALSE, next |-> "ambiguous"],
            [up |-> TRUE,  next |-> "failed"],    [up |-> FALSE, next |-> "failed"]}

Dial(c) ==
  /\ caller[c].at = "dial"
  /\ \E a \in Answers :
       /\ CallerGoto(c, a.next)
       /\ leg' = [leg EXCEPT ![c].asked = @ + 1, ![c].up = a.up]
       /\ IF a.next = "link" THEN UNCHANGED telFaults ELSE TelFault
  /\ UNCHANGED <<trunk, call, admission, edgeVars, hanging, news, telSeen, media, telAdmin>>

LinkProviderCall(c) ==
  /\ caller[c].at = "link"
  /\ call' = [call EXCEPT ![c].ref = TRUE,
                          ![c].error = IF @ = "UNCONFIRMED" THEN None ELSE @]
  /\ CallerEnds(c)
  /\ UNCHANGED <<trunk, admission, edgeVars, hanging, carrierVars, telAdmin, telFaults>>

MarkAmbiguous(c) ==
  /\ caller[c].at = "ambiguous"
  /\ call' = IF call[c].state \in CallTerminal THEN call
             ELSE [call EXCEPT ![c].error = "TIMEOUT"]
  /\ CallerEnds(c)
  /\ UNCHANGED <<trunk, admission, edgeVars, hanging, carrierVars, telAdmin, telFaults>>

MarkCallFailed(c) ==
  /\ caller[c].at = "failed"
  /\ call' = IF call[c].state \in CallTerminal THEN call
             ELSE [call EXCEPT ![c] = Failed(call[c], "PROVIDER")]
  /\ CallerEnds(c)
  /\ UNCHANGED <<trunk, admission, edgeVars, hanging, carrierVars, telAdmin, telFaults>>

\* The process serving the request dies.
LoseCaller(c) ==
  /\ caller[c].at \notin {"idle", "done"}
  /\ TelFault
  /\ CallerEnds(c)
  /\ UNCHANGED <<trunk, call, admission, edgeVars, hanging, carrierVars, telAdmin>>

-----------------------------------------------------------------------------
(* hangup_call: ENDING first, then the provider, best effort.               *)

HangupCall(d) ==
  /\ call[d].state \notin CallTerminal \cup {"absent"}
  /\ call' = [call EXCEPT ![d].state = "ENDING", ![d].error = None]
  /\ hanging' = IF call[d].ref THEN hanging \cup {d} ELSE hanging
  /\ UNCHANGED <<trunk, admission, edgeVars, caller, carrierVars, telAdmin, telFaults>>

ProviderHangup(d) ==
  /\ d \in hanging
  /\ hanging' = hanging \ {d}
  /\ \/ leg' = [leg EXCEPT ![d].up = FALSE] /\ UNCHANGED telFaults
     \/ TelFault /\ UNCHANGED leg
  /\ UNCHANGED <<trunk, call, admission, edgeVars, caller, news, telSeen, media, telAdmin>>

-----------------------------------------------------------------------------
(* The SIP edge: the provider's INVITE spends the permit, once.             *)

\* consume: AUTHORIZED becomes CONSUMED and grants the relay; the same edge boot
\* asking again gets the route without a grant (no change), any other is refused.
Consume(c, b) ==
  /\ leg[c].asked > 0
  /\ Carriable(c) /\ AdmissionAllows(c, "CONSUMED")
  /\ permit[c].state = "AUTHORIZED" /\ ~permit[c].lapsed
  /\ permit' = [permit EXCEPT ![c].state = "CONSUMED", ![c].boot = b]
  /\ relays' = [relays EXCEPT ![c] = @ + 1]
  /\ UNCHANGED <<trunk, call, admission, caller, hanging, carrierVars, telAdmin, telFaults>>

\* record_result: the dialog is pinned when it is established, and only the
\* pinned dialog ends it; FAILED is stored as ENDED and only before that.
RecordResult(c, b, s, d) ==
  /\ permit[c].state = "CONSUMED" /\ permit[c].boot = b
  /\ \/ /\ s = "ESTABLISHED" /\ permit[c].dialog = None
        /\ permit' = [permit EXCEPT ![c].dialog = d]
     \/ /\ s = "ENDED" /\ permit[c].dialog = d
        /\ permit' = [permit EXCEPT ![c].state = "ENDED"]
     \/ /\ s = "FAILED" /\ permit[c].dialog = None
        /\ permit' = [permit EXCEPT ![c].state = "ENDED"]
     \/ /\ s = "AMBIGUOUS"
        /\ permit' = [permit EXCEPT ![c].state = "AMBIGUOUS"]
  /\ UNCHANGED <<trunk, call, admission, caller, relays, hanging, carrierVars, telAdmin,
                 telFaults>>

-----------------------------------------------------------------------------
(* The provider's callbacks: emitted in order, delivered in any order and   *)
(* any number of times.                                                     *)

Emit(c, e) ==
  /\ leg[c].up /\ leg[c].sent < MaxNews
  /\ news' = news \cup {<<c, e>>}
  /\ leg' = [leg EXCEPT ![c].sent = @ + 1, ![c].up = ~(e.state \in CallTerminal)]
  /\ UNCHANGED <<trunk, call, admission, edgeVars, caller, hanging, telSeen, media, telAdmin,
                 telFaults>>

\* fold_state: a terminal call never moves; a live event must not precede what
\* is recorded and must advance; a terminal event always wins.
FoldApplies(row, e) ==
  /\ row.state \notin CallTerminal
  /\ e.state \notin CallTerminal => e.seq >= row.seq
  /\ CallRank(e.state) > CallRank(row.state)

FoldMedia(m, s) ==
  CASE s = "ACTIVE" /\ m = "none"    -> "ACTIVE"
    [] s = "STOPPED" /\ m = "ACTIVE" -> "STOPPED"
    [] OTHER -> m

\* receive and _process_event.  The receipt and the fold are one transaction; a
\* call whose provider id is not known yet rolls the receipt back (deferred) and
\* the callback is still answered as accepted, which changes nothing here.
ProcessEvent(c, e) ==
  /\ trunk.status = "ACTIVE"
  /\ <<c, e>> \in news \ telSeen
  /\ call[c].ref
  /\ telSeen' = telSeen \cup {<<c, e>>}
  /\ IF e.kind = "STATE"
       THEN /\ UNCHANGED media
            /\ call' = IF ~FoldApplies(call[c], e) THEN call
                       ELSE [call EXCEPT ![c].state = e.state, ![c].seq = e.seq]
       ELSE /\ media' = [media EXCEPT ![c] = FoldMedia(@, e.state)]
            /\ UNCHANGED call
  /\ UNCHANGED <<trunk, admission, edgeVars, caller, hanging, leg, news, telAdmin, telFaults>>

\* _ingest_inbound: the dialled number must take inbound calls; the receipt and
\* the provider id make a repeated callback a no-op.
IngestInbound(i) ==
  /\ trunk.status = "ACTIVE" /\ trunk.inbound
  /\ call[i].state = "absent" /\ Cardinality(StoredCalls) < MaxCallRows
  /\ call' = [call EXCEPT ![i] = [NoCall EXCEPT !.state = "RINGING", !.ref = TRUE]]
  /\ leg' = [leg EXCEPT ![i].up = TRUE]
  /\ UNCHANGED <<trunk, admission, edgeVars, caller, hanging, news, telSeen, media, telAdmin,
                 telFaults>>

\* set_account_status and set_number_verified.
SetTrunk(t) ==
  /\ telAdmin < MaxTelAdmin /\ telAdmin' = telAdmin + 1
  /\ t # trunk /\ t.inbound = trunk.inbound
  /\ t.status = trunk.status \/ t.verified = trunk.verified
  /\ trunk' = t
  /\ UNCHANGED <<call, admission, edgeVars, caller, hanging, carrierVars, telFaults>>

-----------------------------------------------------------------------------
Emitted(n) == {CallEvent(s, n) : s \in {"RINGING", "ANSWERED", "COMPLETED"}}
                \cup {MediaEvent(s, n) : s \in {"ACTIVE", "STOPPED"}}

CallerStep(c) ==
  \/ \E k \in CallKeys, p \in CallPrints : BeginCall(c, k, p)
  \/ ReplayCall(c) \/ PersistCreated(c) \/ ReconcileFound(c) \/ AbortAdmission(c)
  \/ IssuePermit(c) \/ FenceDispatch(c) \/ Dial(c) \/ LinkProviderCall(c)
  \/ MarkAmbiguous(c) \/ MarkCallFailed(c) \/ LoseCaller(c)

TelephonyNext ==
  \/ \E c \in Callers : CallerStep(c) \/ ReadCall(c) \/ AdmissionLapses(c) \/ PermitLapses(c)
  \/ \E c \in Callers, b \in Boots :
       \/ Consume(c, b)
       \/ \E s \in {"ESTABLISHED", "ENDED", "FAILED", "AMBIGUOUS"}, d \in Dialogs :
            RecordResult(c, b, s, d)
  \/ \E d \in AllCalls : HangupCall(d) \/ ProviderHangup(d)
  \/ \E d \in AllCalls : \E e \in Emitted(leg[d].sent + 1) : Emit(d, e)
  \/ \E ev \in news : ProcessEvent(ev[1], ev[2])
  \/ \E i \in Inbounds : IngestInbound(i)
  \/ \E t \in TrunkRow : SetTrunk(t)

TelephonySpec == TelephonyInit /\ [][TelephonyNext]_telVars

-----------------------------------------------------------------------------
(* The rows, and what the tables and their triggers demand of them.         *)

TelephonyTypeOK ==
  /\ trunk \in TrunkRow
  /\ call \in [AllCalls -> CallRow]
  /\ media \in [AllCalls -> MediaStates]
  /\ admission \in [Callers -> AdmissionRow]
  /\ permit \in [Callers -> PermitRow]
  /\ telSeen \subseteq news

\* telephony_calls: the rank's bounds, and one call of an organization per key.
CallsUnique ==
  /\ \A c \in StoredCalls : CallRank(call[c].state) \in 0..6
  /\ \A c, d \in StoredCalls : c # d => call[c].key = None \/ call[c].key # call[d].key

MediaRefers == {c \in AllCalls : media[c] # "none"} \subseteq StoredCalls

AdmissionRefers == {c \in Callers : admission[c].state # "none"} \subseteq StoredCalls

\* sip_egress_permits: a permit is of a stored call.
PermitRefers == {c \in Callers : permit[c].state # "none"} \subseteq StoredCalls

\* nxs_sip_admission_fence: an admission starts PENDING and leaves it once; it is
\* dispatched in time, over a permit that is still live.
AdmissionFence(c) ==
  \/ admission[c].state = "none" /\ admission'[c].state = "PENDING"
  \/ admission[c].state = "PENDING" /\ admission'[c].state = "REVOKED"
  \/ /\ admission[c].state = "PENDING" /\ admission'[c].state = "DISPATCHED"
     /\ ~admission[c].lapsed
     /\ permit[c].state = "AUTHORIZED" /\ ~permit[c].lapsed

\* nxs_sip_permit_fence: a permit is issued unbound, bound to the edge that spends
\* it in time, and keeps that binding to its end.
PermitFence(c) ==
  \/ permit[c].state = "none" /\ permit'[c].state = "AUTHORIZED" /\ permit'[c].boot = None
  \/ /\ permit[c].state = "AUTHORIZED" /\ permit'[c].state = "CONSUMED"
     /\ ~permit[c].lapsed /\ permit'[c].boot # None
  \/ permit[c].state = "AUTHORIZED" /\ permit'[c].state = "REVOKED"
  \/ /\ permit[c].state = "CONSUMED" /\ permit'[c].state \in {"ENDED", "AMBIGUOUS"}
     /\ permit'[c].boot = permit[c].boot

\* nxs_sip_egress_dialog_fence: a dialog is bound once, to a CONSUMED permit.
DialogFence(c) == permit[c].dialog = None /\ permit[c].state = "CONSUMED"

FencesHold ==
  \A c \in Callers :
    /\ admission'[c].state # admission[c].state => AdmissionFence(c)
    /\ permit'[c].state # permit[c].state => PermitFence(c)
    /\ permit'[c].dialog # permit[c].dialog => DialogFence(c)

-----------------------------------------------------------------------------
(* Properties. *)

\* However requests with one key interleave, retry or die, the provider is asked
\* for at most one call under it, and the edge relays that call at most once
\* (unique key, owner fence before the provider, one-use permit).
OneDialPerKey ==
  /\ \A c \in Callers : leg[c].asked <= 1 /\ relays[c] <= leg[c].asked
  /\ \A c, d \in Callers :
       c # d /\ leg[c].asked > 0 /\ leg[d].asked > 0 => call[c].key = None \/ call[c].key # call[d].key

\* An admission given up (aborted by its owner or recovered after it lapsed) is
\* silent for good: its call ended, the provider was never asked, and no permit
\* is left that an edge could spend.
RevokedIsSilent ==
  \A c \in Callers : admission[c].state = "REVOKED" =>
    /\ call[c].state \in CallTerminal
    /\ leg[c].asked = 0 /\ relays[c] = 0
    /\ permit[c].state \in {"none", "REVOKED"}

\* An ended call never changes its outcome, whether a late callback, a hangup, a
\* failed dial or the admission recovery arrives after the end.
CallEndIsFinal ==
  [][\A c \in AllCalls : call[c].state \in CallTerminal => call'[c].state = call[c].state]_telVars

\* Requests, recovery and deliveries keep going.
TelephonyFair ==
  /\ TelephonySpec
  /\ \A c \in Callers : WF_telVars(CallerStep(c) /\ ~LoseCaller(c)) /\ WF_telVars(ReadCall(c))
  /\ WF_telVars(\E ev \in news : ProcessEvent(ev[1], ev[2]))

\* ADR 0086: after a restart between the provider's answer and its persistence
\* "the next provider callback re-links ... or the call expires unlinked".
\* The code does not keep it (README, Divergences).
RelinkedOrEnded ==
  \A c \in Callers : leg[c].asked > 0 ~> call[c].ref \/ call[c].state \in CallTerminal

\* What the service and the edge write fits the tables, and no step asks for a
\* transition that the triggers on admissions, permits and dialogs refuse.
TelephonyFits ==
  TelephonyTypeOK /\ CallsUnique /\ MediaRefers /\ AdmissionRefers /\ PermitRefers

\* A call happens at most once: one dial per key, none after its admission was
\* given up, one outcome, and at every step rows the database accepts.
CallsHappenOnce ==
  /\ [](OneDialPerKey /\ RevokedIsSilent /\ TelephonyFits)
  /\ CallEndIsFinal
  /\ [][FencesHold]_telVars
============================================================================
