----------------------------- MODULE Messaging -----------------------------
(***************************************************************************)
(* Channel messaging: sending a message once per idempotency key, and      *)
(* folding the provider's webhooks (inbound messages and delivery          *)
(* statuses) into the stored rows.  One account of one organization.       *)
(*                                                                         *)
(* A send runs several transactions around one provider call; a fault may  *)
(* end it between any two of them (MaxMsgFaults).  A status callback runs  *)
(* one transaction of two statements that matter: it reads the message     *)
(* without locking it, and later writes it.  Requests refused before any   *)
(* write change nothing and are left out.                                  *)
(***************************************************************************)
EXTENDS Integers, Sequences, FiniteSets, Common

CONSTANTS MsgSenders,     \* concurrent callers of MessagingService.send
          MsgHandlers,    \* concurrent webhook requests
          MsgKeys,        \* idempotency keys
          MsgPrints,      \* request fingerprints
          InboundIds,     \* provider ids of the messages customers send
          Channel,        \* the account's channel: "SMS", "EMAIL" or "WHATSAPP"
          MaxOutbound,    \* outbound rows in a behaviour
          MaxCallbacks,   \* receipts in a behaviour
          MaxAdmin,       \* changes of the account in a behaviour
          MaxMsgFaults    \* crashes and failed transactions in a behaviour

VARIABLES account,    \* the messaging account's row
          secret,     \* is its secret in the vault?
          mclaims,    \* messaging_send_idempotency, by key
          outbound,   \* messaging_messages sent by us, in insertion order
          inbound,    \* how many stored rows each inbound provider id has
          receipts,   \* messaging_inbound_receipts: event ids
          sender,     \* the local state of each send call
          handler,    \* the local state of each webhook transaction
          accepted,   \* the outbound rows the provider took
          deleting,   \* is delete_account between its two transactions?
          admin,      \* changes made to the account so far
          unacked,    \* was a callback answered with success and not stored?
          msgFaults

accountVars == <<account, secret, deleting, admin>>
hookVars == <<inbound, receipts, handler, unacked>>
mVars == <<account, secret, deleting, admin, mclaims, outbound, sender, accepted,
           inbound, receipts, handler, unacked, msgFaults>>
-----------------------------------------------------------------------------
(* The stored rows and the delivery state machine. *)

MsgStatuses == {"RECEIVED", "QUEUED", "SENDING", "SENT", "DELIVERED", "READ", "FAILED"}

AccountRow == [exists: BOOLEAN, status: {"ACTIVE", "DISABLED"}, ref: BOOLEAN]

MessageRow == [status: MsgStatuses, provider_id: BOOLEAN, key: MsgKeys \cup {None},
               delivered: BOOLEAN, read: BOOLEAN, failed: BOOLEAN]

SendClaimRow == [status: {None, "PENDING", "COMPLETED", "FAILED"},
                 print: MsgPrints \cup {None}, message: 0..MaxOutbound]

FreeSendClaim == [status |-> None, print |-> None, message |-> 0]

MsgRank == [RECEIVED |-> 0, QUEUED |-> 1, SENDING |-> 2, SENT |-> 3,
            DELIVERED |-> 4, READ |-> 5, FAILED |-> 5]

MsgTerminal == {"READ", "FAILED"}

\* The fold: does a reported status move the current one?
Advances(current, reported) ==
    /\ reported # current
    /\ current \notin MsgTerminal
    /\ reported = "FAILED" \/ MsgRank[reported] > MsgRank[current]

\* A provider's status words and the canonical status of each.
SmsStatus == [queued |-> "QUEUED", accepted |-> "QUEUED", sending |-> "SENDING",
              sent |-> "SENT", delivered |-> "DELIVERED", undelivered |-> "FAILED",
              failed |-> "FAILED"]
EmailStatus == [queued |-> "QUEUED", sent |-> "SENT", delivered |-> "DELIVERED",
                opened |-> "READ", read |-> "READ", bounced |-> "FAILED",
                failed |-> "FAILED", dropped |-> "FAILED"]
WhatsAppStatus == [sent |-> "SENT", delivered |-> "DELIVERED", read |-> "READ",
                   failed |-> "FAILED"]
StatusMap == CASE Channel = "SMS" -> SmsStatus
               [] Channel = "EMAIL" -> EmailStatus
               [] Channel = "WHATSAPP" -> WhatsAppStatus

StatusEvent(m, word) == <<"st", m, word>>
MessageEvent(id) == <<"msg", id>>

IdleSender == [pc |-> "idle", key |-> None, print |-> None, message |-> 0, ref |-> FALSE]
IdleHandler == [pc |-> "idle", message |-> 0, word |-> None, seen |-> None, id |-> None]

MessagingInit ==
    /\ account = [exists |-> TRUE, status |-> "ACTIVE", ref |-> TRUE]
    /\ secret = TRUE
    /\ mclaims = [k \in MsgKeys |-> FreeSendClaim]
    /\ outbound = << >>
    /\ inbound = [i \in InboundIds |-> 0]
    /\ receipts = {}
    /\ sender = [s \in MsgSenders |-> IdleSender]
    /\ handler = [h \in MsgHandlers |-> IdleHandler]
    /\ accepted = {}
    /\ unacked = FALSE
    /\ admin = 0
    /\ deleting = FALSE
    /\ msgFaults = 0

MsgGoto(s, pc) == sender' = [sender EXCEPT ![s].pc = pc]
-----------------------------------------------------------------------------
(* Sending. *)

\* send reads the account once and works with what it read; a request with a
\* key goes on to claim it, one without a key to the queue.
BeginSend(s) ==
    /\ sender[s].pc = "idle" /\ account.exists /\ account.status = "ACTIVE"
    /\ \E k \in MsgKeys \cup {None}, p \in MsgPrints :
          sender' = [sender EXCEPT ![s] =
              [pc |-> IF k = None THEN "persist" ELSE "claim", key |-> k, print |-> p,
               message |-> 0, ref |-> account.ref]]
    /\ UNCHANGED <<accountVars, mclaims, outbound, hookVars, accepted, msgFaults>>

\* What a caller who finds the key taken is told.  No answer sends again.
ReplayOrRaise(row, print) ==
    CASE row.print # print -> "conflict"
      [] row.status = "COMPLETED" -> "replay"
      [] row.status = "FAILED" -> "failed"
      [] OTHER -> "in_progress"

Bug_MsgClaim(s) ==
    LET k == sender[s].key IN
    /\ sender[s].pc = "claim"
    /\ IF account.exists /\ mclaims[k].status \in {None, "FAILED"}
       THEN /\ mclaims' = [mclaims EXCEPT ![k] =
                 [status |-> "PENDING", print |-> sender[s].print, message |-> 0]]
            /\ MsgGoto(s, "persist")
       ELSE /\ ReplayOrRaise(mclaims[k], sender[s].print)
                 \in {"conflict", "replay", "failed", "in_progress"}
            /\ sender' = [sender EXCEPT ![s] = IdleSender]
            /\ UNCHANGED mclaims
    /\ UNCHANGED <<accountVars, outbound, hookVars, accepted, msgFaults>>

\* The unique index on (organization, account, key) picks one owner; without
\* the account's row the insert fails and no owner is found.
MsgClaim(s) ==
    LET k == sender[s].key IN
    /\ sender[s].pc = "claim"
    /\ IF account.exists /\ mclaims[k].status = None
       THEN /\ mclaims' = [mclaims EXCEPT ![k] =
                 [status |-> "PENDING", print |-> sender[s].print, message |-> 0]]
            /\ MsgGoto(s, "persist")
       ELSE /\ ReplayOrRaise(mclaims[k], sender[s].print)
                 \in {"conflict", "replay", "failed", "in_progress"}
            /\ sender' = [sender EXCEPT ![s] = IdleSender]
            /\ UNCHANGED mclaims
    /\ UNCHANGED <<accountVars, outbound, hookVars, accepted, msgFaults>>

QueuedMessage(key) ==
    [status |-> "QUEUED", provider_id |-> FALSE, key |-> key,
     delivered |-> FALSE, read |-> FALSE, failed |-> FALSE]

\* The row, the conversation's activity and the queued event in one
\* transaction; the foreign key needs the account's row.
PersistQueued(s) ==
    /\ sender[s].pc = "persist" /\ Len(outbound) < MaxOutbound
    /\ IF account.exists
       THEN /\ outbound' = Append(outbound, QueuedMessage(sender[s].key))
            /\ sender' = [sender EXCEPT ![s].pc = "secret", ![s].message = Len(outbound) + 1]
       ELSE /\ sender' = [sender EXCEPT ![s] = IdleSender]
            /\ UNCHANGED outbound
    /\ UNCHANGED <<accountVars, mclaims, hookVars, accepted, msgFaults>>

\* A reference whose secret is gone makes the vault raise outside the try of
\* send: the row stays QUEUED and the claim PENDING.
ResolveSendSecret(s) ==
    /\ sender[s].pc = "secret"
    /\ IF sender[s].ref /\ ~secret
       THEN sender' = [sender EXCEPT ![s] = IdleSender]
       ELSE MsgGoto(s, IF sender[s].ref THEN "send" ELSE "mark_failed")
    /\ UNCHANGED <<accountVars, mclaims, outbound, hookVars, accepted, msgFaults>>

\* How a provider call may end: accepted with an id, refused, or ambiguous
\* (a timeout, a 504, a lost connection, an answer without an id), where the
\* provider may have taken the message all the same.
SendEnds == {[took |-> TRUE, pc |-> "mark_sent"], [took |-> FALSE, pc |-> "mark_failed"],
             [took |-> TRUE, pc |-> "mark_failed"]}

ProviderSend(s) ==
    /\ sender[s].pc = "send"
    /\ \E end \in SendEnds :
          /\ accepted' = IF end.took THEN accepted \cup {sender[s].message} ELSE accepted
          /\ MsgGoto(s, end.pc)
    /\ UNCHANGED <<accountVars, mclaims, outbound, hookVars, msgFaults>>

AfterMark(s) == IF sender[s].key = None THEN IdleSender
                ELSE [sender[s] EXCEPT !.pc = "finalize"]

\* Both marks write the status whatever the row's status is by then.
MarkSent(s) ==
    /\ sender[s].pc = "mark_sent"
    /\ outbound' = [outbound EXCEPT ![sender[s].message].status = "SENT",
                                    ![sender[s].message].provider_id = TRUE]
    /\ sender' = [sender EXCEPT ![s] = AfterMark(s)]
    /\ UNCHANGED <<accountVars, mclaims, hookVars, accepted, msgFaults>>

MarkFailed(s) ==
    /\ sender[s].pc = "mark_failed"
    /\ outbound' = [outbound EXCEPT ![sender[s].message].status = "FAILED",
                                    ![sender[s].message].failed = TRUE]
    /\ sender' = [sender EXCEPT ![s] = AfterMark(s)]
    /\ UNCHANGED <<accountVars, mclaims, hookVars, accepted, msgFaults>>

\* The row this call marked decides: only a mark of SENT stores the id.
FinalizeSend(s) ==
    LET m == sender[s].message IN
    /\ sender[s].pc = "finalize"
    /\ mclaims' = [mclaims EXCEPT ![sender[s].key].status =
                      IF outbound[m].provider_id THEN "COMPLETED" ELSE "FAILED",
                      ![sender[s].key].message = m]
    /\ sender' = [sender EXCEPT ![s] = IdleSender]
    /\ UNCHANGED <<accountVars, outbound, hookVars, accepted, msgFaults>>

\* A crash or a failed transaction ends the call where it is.
LoseSend(s) ==
    /\ sender[s].pc # "idle" /\ msgFaults < MaxMsgFaults
    /\ msgFaults' = msgFaults + 1
    /\ sender' = [sender EXCEPT ![s] = IdleSender]
    /\ UNCHANGED <<accountVars, mclaims, outbound, hookVars, accepted>>
-----------------------------------------------------------------------------
(* The provider's webhooks.  verify_webhook comes first: it needs the secret. *)

Verified == account.exists /\ account.ref /\ secret

MsgReceives == Verified /\ account.status = "ACTIVE"

\* by_provider_id: the row is visible once MarkSent stored the id.
ByProviderId(m) == m \in 1..Len(outbound) /\ outbound[m].provider_id

\* The receipt is inserted, then the message is read without a lock.  The
\* insert waits for a concurrent one of the same event and fails once that is
\* committed; a message that is not visible yet rolls the receipt back, and
\* the request is answered with success.
ReadStatus(h) ==
    /\ handler[h].pc = "idle" /\ MsgReceives
    /\ Cardinality(receipts) < MaxCallbacks
    /\ \E m \in accepted, word \in DOMAIN StatusMap :
          /\ StatusEvent(m, word) \notin receipts
          /\ \A g \in MsgHandlers : ~(/\ handler[g].pc = "apply" /\ handler[g].message = m
                                      /\ handler[g].word = word)
          /\ IF ByProviderId(m)
             THEN /\ handler' = [handler EXCEPT ![h] =
                         [IdleHandler EXCEPT !.pc = "apply", !.message = m, !.word = word,
                                             !.seen = outbound[m].status]]
                  /\ UNCHANGED unacked
             ELSE /\ unacked' = TRUE
                  /\ UNCHANGED handler
    /\ UNCHANGED <<accountVars, mclaims, outbound, inbound, receipts, sender,
                   accepted, msgFaults>>

\* The columns a status writes with it.
Stamped(row, status) ==
    [row EXCEPT !.status = status,
                !.delivered = row.delivered \/ status \in {"DELIVERED", "READ"},
                !.read = row.read \/ status = "READ",
                !.failed = row.failed \/ status = "FAILED"]

\* The fold is of the status read before; the write is by primary key.
ApplyStatus(h) ==
    LET m == handler[h].message
        reported == StatusMap[handler[h].word] IN
    /\ handler[h].pc = "apply"
    /\ outbound' = IF Advances(handler[h].seen, reported)
                   THEN [outbound EXCEPT ![m] = Stamped(@, reported)] ELSE outbound
    /\ receipts' = receipts \cup {StatusEvent(m, handler[h].word)}
    /\ handler' = [handler EXCEPT ![h] = IdleHandler]
    /\ UNCHANGED <<accountVars, mclaims, inbound, sender, accepted, unacked, msgFaults>>

\* An inbound message resolves its customer and conversation in transactions of
\* their own before the one that stores it.
ResolveInbound(h) ==
    /\ handler[h].pc = "idle" /\ MsgReceives
    /\ \E i \in InboundIds :
          handler' = [handler EXCEPT ![h] = [IdleHandler EXCEPT !.pc = "store", !.id = i]]
    /\ UNCHANGED <<accountVars, mclaims, outbound, inbound, receipts, sender,
                   accepted, unacked, msgFaults>>

\* The receipt and the message commit together; a receipt that is taken makes
\* the request a replay that stores nothing.
StoreInbound(h) ==
    LET i == handler[h].id
        fresh == account.exists /\ MessageEvent(i) \notin receipts IN
    /\ handler[h].pc = "store"
    /\ inbound' = IF fresh THEN [inbound EXCEPT ![i] = @ + 1] ELSE inbound
    /\ receipts' = IF fresh THEN receipts \cup {MessageEvent(i)} ELSE receipts
    /\ handler' = [handler EXCEPT ![h] = IdleHandler]
    /\ UNCHANGED <<accountVars, mclaims, outbound, sender, accepted, unacked,
                   msgFaults>>

\* A webhook that dies rolls its transaction back.
LoseWebhook(h) ==
    /\ handler[h].pc # "idle" /\ msgFaults < MaxMsgFaults
    /\ msgFaults' = msgFaults + 1
    /\ handler' = [handler EXCEPT ![h] = IdleHandler]
    /\ UNCHANGED <<accountVars, mclaims, outbound, inbound, receipts, sender,
                   accepted, unacked>>
-----------------------------------------------------------------------------
(* The account. *)

Administer == admin < MaxAdmin /\ admin' = admin + 1

SetAccountStatus ==
    /\ account.exists /\ Administer
    /\ account' = [account EXCEPT !.status = IF @ = "ACTIVE" THEN "DISABLED" ELSE "ACTIVE"]
    /\ UNCHANGED <<secret, mclaims, outbound, hookVars, sender, accepted, deleting,
                   msgFaults>>

DeleteAccountCredential ==
    /\ account.exists /\ account.ref /\ Administer
    /\ secret' = FALSE
    /\ account' = [account EXCEPT !.ref = FALSE]
    /\ UNCHANGED <<mclaims, outbound, hookVars, sender, accepted, deleting,
                   msgFaults>>

\* The vault first, then the reference when the row has none.
StoreAccountCredential ==
    /\ account.exists /\ ~secret /\ Administer
    /\ secret' = TRUE
    /\ account' = [account EXCEPT !.ref = TRUE]
    /\ UNCHANGED <<mclaims, outbound, hookVars, sender, accepted, deleting,
                   msgFaults>>

HasHistory == outbound # << >> \/ \E i \in InboundIds : inbound[i] > 0

\* delete_account, first half: no history, so the secret is deleted.
ForgetAccountSecret ==
    /\ account.exists /\ ~HasHistory /\ ~deleting /\ Administer
    /\ deleting' = TRUE
    /\ secret' = (secret /\ ~account.ref)
    /\ UNCHANGED <<account, mclaims, outbound, hookVars, sender, accepted,
                   msgFaults>>

\* delete_account, second half: history written since then refuses the delete
\* (the message's foreign key restricts it); claims and receipts cascade.
DeleteAccount ==
    /\ deleting
    /\ deleting' = FALSE
    /\ IF HasHistory
       THEN UNCHANGED <<account, mclaims, receipts>>
       ELSE /\ account' = [account EXCEPT !.exists = FALSE]
            /\ mclaims' = [k \in MsgKeys |-> FreeSendClaim]
            /\ receipts' = {}
    /\ UNCHANGED <<secret, outbound, inbound, sender, handler, accepted, admin,
                   unacked, msgFaults>>
-----------------------------------------------------------------------------
SendStep(s) == \/ BeginSend(s) \/ MsgClaim(s) \/ PersistQueued(s) \/ ResolveSendSecret(s)
               \/ ProviderSend(s) \/ MarkSent(s) \/ MarkFailed(s) \/ FinalizeSend(s)
               \/ LoseSend(s)

WebhookStep(h) == \/ ReadStatus(h) \/ ApplyStatus(h) \/ ResolveInbound(h)
                  \/ StoreInbound(h) \/ LoseWebhook(h)

MessagingNext ==
    \/ \E s \in MsgSenders : SendStep(s)
    \/ \E h \in MsgHandlers : WebhookStep(h)
    \/ SetAccountStatus \/ DeleteAccountCredential \/ StoreAccountCredential
    \/ ForgetAccountSecret \/ DeleteAccount

MessagingSpec == MessagingInit /\ [][MessagingNext]_mVars
-----------------------------------------------------------------------------
(* The rows, and what the tables demand of them. *)

MessagingTypeOK ==
    /\ account \in AccountRow
    /\ mclaims \in [MsgKeys -> SendClaimRow]
    /\ outbound \in Seq(MessageRow)
    /\ inbound \in [InboundIds -> Nat]

\* messaging_inbound_receipts: the receipts cascade with the account.
ReceiptRefers == receipts # {} => account.exists

\* messaging_send_idempotency: so do the claims, whose message is a stored row.
SendClaimRefers ==
    \A k \in MsgKeys :
        mclaims[k].status # None => account.exists /\ mclaims[k].message \in 0..Len(outbound)

\* messaging_messages: a message restricts the deletion of its account.
MessageRefers == HasHistory => account.exists
-----------------------------------------------------------------------------
(* Properties. *)

\* However many callers share an idempotency key, and wherever they are cut
\* off, one row exists for it: so the provider is asked at most once.  The
\* settled claim tells what became of that row: COMPLETED when the provider's
\* id is stored, FAILED when it never will be, so that no late callback can
\* turn a send reported as failed into a delivered one.
ClaimTellsMessage ==
    \A k \in MsgKeys :
        LET rows == {m \in 1..Len(outbound) : outbound[m].key = k} IN
        /\ Cardinality(rows) <= 1
        /\ mclaims[k].status = "COMPLETED" =>
              mclaims[k].message \in rows \cap accepted /\ outbound[mclaims[k].message].provider_id
        /\ mclaims[k].status = "FAILED" =>
              /\ mclaims[k].message \in rows
              /\ outbound[mclaims[k].message].status = "FAILED"
              /\ ~outbound[mclaims[k].message].provider_id

\* A message a customer sends is stored exactly once, however often and however
\* concurrently the provider delivers it: the receipt and the row are one
\* transaction, and the receipt's unique key lets one of them through.
InboundOnce ==
    \A i \in InboundIds : inbound[i] = IF MessageEvent(i) \in receipts THEN 1 ELSE 0

\* As the delivery module states it: nothing transitions out of READ and FAILED
\* (a late or out-of-order callback is ignored, never applied).
\* The code does not keep it (README, Divergences).
TerminalStays ==
    [][\A m \in 1..Len(outbound) :
          outbound[m].status \in MsgTerminal => outbound'[m].status = outbound[m].status]_mVars

\* As the webhook module states it: no delivery status is lost.  A callback
\* that was answered with success is stored, so the provider need not repeat it.
\* The code does not keep it (README, Divergences).
AcknowledgedIsStored == ~unacked

\* A message is one row with one story: the sends of one key, and the deliveries
\* of one customer message, come to a single row that tells what became of it;
\* and deleting the account leaves no row that refers to it.
MessagesAreSingle ==
    /\ ClaimTellsMessage /\ InboundOnce
    /\ MessagingTypeOK /\ ReceiptRefers /\ SendClaimRefers /\ MessageRefers
=============================================================================
