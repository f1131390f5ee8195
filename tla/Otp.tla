--------------------------------- MODULE Otp ---------------------------------
(* One-time codes for one destination and purpose: issue with its idempotency  *)
(* key, cooldown and throttle, the delivery of the code, verify and purge.     *)
(* A statement of the issuing transaction is an action of its own, because     *)
(* each reads what other transactions have committed by then; a row lock that  *)
(* one of them takes is held until it commits.                                 *)
EXTENDS Integers, FiniteSets

CONSTANTS
    Requests,       \* calls of issue; a challenge is named after its call
    Keys,           \* idempotency keys
    NoKey,          \* a request without one
    KeyOf,          \* [Requests -> Keys \cup {NoKey}]
    PrintOf,        \* the request's fingerprint (purpose, channel, address, account)
    Cooldown, Ttl, Window, Retention,   \* in clock units
    MaxIssues,      \* max_issues_per_window
    OtpAttempts,    \* max_attempts
    OtpHorizon      \* bound on the clock

ASSUME OtpAssumption ==
    /\ KeyOf \in [Requests -> Keys \cup {NoKey}] /\ NoKey \notin Keys
    /\ {Cooldown, Ttl, Window, Retention, MaxIssues, OtpAttempts} \subseteq Nat \ {0}
    /\ OtpHorizon \in Nat

VARIABLES
    otp,        \* the rows: status, attempts, issued_at, updated_at of each challenge
    latest,     \* the challenge inserted last
    issuing,    \* where each call of issue is, or what it answered
    readAt,     \* the instant each call of issue took for "now"
    holds,      \* the challenge each issuing transaction has locked
    arrived,    \* challenges whose code reached the customer
    clock

otpVars == <<otp, latest, issuing, readAt, holds, arrived, clock>>

Nobody == "nobody"

OtpStatuses == {"ACTIVE", "VERIFIED", "EXPIRED", "REVOKED", "LOCKED"}
ChallengeRow ==
    [status : OtpStatuses \cup {"ABSENT", "PURGED"}, attempts : 0..OtpAttempts,
     issued : 0..OtpHorizon, updated : 0..OtpHorizon]
Absent == [status |-> "ABSENT", attempts |-> 0, issued |-> 0, updated |-> 0]
Purged == [Absent EXCEPT !.status = "PURGED"]

Exists(c) == otp[c].status \in OtpStatuses
ActiveRows == {c \in Requests : otp[c].status = "ACTIVE"}
Carrying(k) == {c \in Requests : Exists(c) /\ KeyOf[c] = k /\ k # NoKey}

OtpInit ==
    /\ otp = [c \in Requests |-> Absent] /\ latest = Nobody
    /\ issuing = [r \in Requests |-> "idle"]
    /\ readAt = [r \in Requests |-> 0]
    /\ holds = [r \in Requests |-> Nobody]
    /\ arrived = {} /\ clock = 0

Goto(r, at) == issuing' = [issuing EXCEPT ![r] = at]

\* The transaction ends: its answer is known, and its locks and its clock are gone.
Answer(r, reply) ==
    /\ Goto(r, reply)
    /\ holds' = [holds EXCEPT ![r] = Nobody] /\ readAt' = [readAt EXCEPT ![r] = 0]

SameRequest(r, c) == PrintOf[r] = PrintOf[c]

(* by_idempotency_key: the row that carries the key of r decides the answer; a *)
(* call that finds none goes on to step next.                                  *)
ByKey(r, next) ==
    \/ /\ Carrying(KeyOf[r]) = {}
       /\ next
    \/ \E c \in Carrying(KeyOf[r]) :
          Answer(r, IF SameRequest(r, c) THEN "replayed" ELSE "conflict")

\* issue: the first look at the key, then "now" is read and the code is made.
Issue(r) ==
    /\ issuing[r] = "idle"
    /\ ByKey(r, Goto(r, "prior") /\ readAt' = [readAt EXCEPT ![r] = clock] /\ UNCHANGED holds)
    /\ UNCHANGED <<otp, latest, arrived, clock>>

\* _persist_issued begins by looking for its key again.
CheckPrior(r) ==
    /\ issuing[r] = "prior"
    /\ ByKey(r, Goto(r, "count") /\ UNCHANGED <<holds, readAt>>)
    /\ UNCHANGED <<otp, latest, arrived, clock>>

IssuedSince(since) == {c \in Requests : Exists(c) /\ otp[c].issued >= since}

\* The throttle counts the rows of any status that were issued in the window.
CountIssued(r) ==
    /\ issuing[r] = "count"
    /\ IF Cardinality(IssuedSince(readAt[r] - Window)) >= MaxIssues
       THEN Answer(r, "refused") ELSE Goto(r, "active") /\ UNCHANGED <<holds, readAt>>
    /\ UNCHANGED <<otp, latest, arrived, clock>>

LockedByAnother(r, c) == \E q \in Requests \ {r} : holds[q] = c /\ issuing[q] = "insert"

\* What a call does with the ACTIVE row it has just locked.
WithActive(r, c) ==
    \/ /\ KeyOf[r] # NoKey /\ KeyOf[c] = KeyOf[r]
       /\ Answer(r, "replayed")
    \/ /\ KeyOf[r] = NoKey \/ KeyOf[c] # KeyOf[r]
       /\ readAt[r] < otp[c].issued + Cooldown
       /\ Answer(r, "refused")
    \/ /\ KeyOf[r] = NoKey \/ KeyOf[c] # KeyOf[r]
       /\ readAt[r] >= otp[c].issued + Cooldown
       /\ Goto(r, "insert") /\ holds' = [holds EXCEPT ![r] = c] /\ UNCHANGED readAt

(* active_for_subject FOR UPDATE. Behind another transaction's lock it waits    *)
(* for the row its statement has seen.                                          *)
FindActive(r) ==
    /\ issuing[r] = "active"
    /\ \/ ActiveRows = {} /\ Goto(r, "insert") /\ UNCHANGED <<holds, readAt>>
       \/ \E c \in ActiveRows :
             IF LockedByAnother(r, c)
             THEN /\ Goto(r, "waiting") /\ holds' = [holds EXCEPT ![r] = c]
                  /\ UNCHANGED readAt
             ELSE WithActive(r, c)
    /\ UNCHANGED <<otp, latest, arrived, clock>>

(* The lock is free again. A row that is no longer ACTIVE has dropped out of    *)
(* the statement's result, and a newer one was not in it.                       *)
StopWaiting(r) ==
    /\ issuing[r] = "waiting"
    /\ ~LockedByAnother(r, holds[r])
    /\ IF otp[holds[r]].status = "ACTIVE" THEN WithActive(r, holds[r])
       ELSE Goto(r, "insert") /\ holds' = [holds EXCEPT ![r] = Nobody] /\ UNCHANGED readAt
    /\ UNCHANGED <<otp, latest, arrived, clock>>

Bug_KeyNotUnique(r) == ActiveRows \ {holds[r]} # {}

\* The unique key, and the index that allows one ACTIVE row per subject.
InsertConflicts(r) ==
    \/ Carrying(KeyOf[r]) # {}
    \/ ActiveRows \ {holds[r]} # {}

(* The row that was found is revoked and the new one inserted; or a unique      *)
(* index refuses, and a call with a key looks for the winner.                   *)
Insert(r) ==
    /\ issuing[r] = "insert"
    /\ \/ /\ ~InsertConflicts(r)
          /\ otp' = [c \in Requests |->
                       IF c = r
                       THEN [status |-> "ACTIVE", attempts |-> 0, issued |-> readAt[r],
                             updated |-> 0]
                       ELSE IF c = holds[r]
                            THEN [otp[c] EXCEPT !.status = "REVOKED", !.updated = clock]
                            ELSE otp[c]]
          /\ latest' = r
          /\ Answer(r, "deliver")
       \/ /\ InsertConflicts(r)
          /\ Answer(r, IF KeyOf[r] = NoKey THEN "refused" ELSE "resolve")
          /\ UNCHANGED <<otp, latest>>
    /\ UNCHANGED <<arrived, clock>>

(* _await_idempotency_winner: the row with the key, or after the last look that *)
(* found none the answer to a lost race against another key.                    *)
Resolve(r) ==
    /\ issuing[r] = "resolve"
    /\ ByKey(r, Answer(r, "refused"))
    /\ UNCHANGED <<otp, latest, arrived, clock>>

(* MessagingService.send: accepted, refused, or timed out with the code on its  *)
(* way or not.                                                                  *)
Deliver(r) ==
    /\ issuing[r] = "deliver"
    /\ \/ Goto(r, "link") /\ arrived' = arrived \cup {r}
       \/ Goto(r, "unwind") /\ UNCHANGED arrived
       \/ Goto(r, "over") /\ arrived' \in {arrived, arrived \cup {r}}
    /\ UNCHANGED <<otp, latest, readAt, holds, clock>>

(* The rows after c has ended. (updated_at is kept for ended rows only: no      *)
(* query reads that of an ACTIVE one.)                                          *)
Ended(c, status) == [otp EXCEPT ![c].status = status, ![c].updated = clock]

\* delivery_message_id is stored.
LinkMessage(r) ==
    /\ issuing[r] = "link"
    /\ Goto(r, "over")
    /\ otp' = IF Exists(r) /\ otp[r].status # "ACTIVE" THEN Ended(r, otp[r].status) ELSE otp
    /\ UNCHANGED <<latest, readAt, holds, arrived, clock>>

\* _unwind_failed_delivery revokes the challenge unless it has ended.
Unwind(r) ==
    /\ issuing[r] = "unwind"
    /\ ~LockedByAnother(r, r)
    /\ Goto(r, "delivery_failed")
    /\ otp' = IF otp[r].status = "ACTIVE" THEN Ended(r, "REVOKED") ELSE otp
    /\ UNCHANGED <<latest, readAt, holds, arrived, clock>>

\* The process dies after the challenge was stored; earlier it leaves nothing behind.
OtpCrash(r) ==
    /\ issuing[r] \in {"deliver", "link", "unwind"}
    /\ Goto(r, "over")
    /\ UNCHANGED <<otp, latest, readAt, holds, arrived, clock>>

\* _apply_attempt with a code that does or does not match.
Attempted(c, matches) ==
    LET n == otp[c].attempts + 1
        counted == [otp EXCEPT ![c].attempts = n]
    IN  IF matches THEN [counted EXCEPT ![c].status = "VERIFIED", ![c].updated = clock]
        ELSE IF n >= OtpAttempts
             THEN [counted EXCEPT ![c].status = "LOCKED", ![c].updated = clock]
             ELSE counted

(* verify: an ended challenge is refused, an overdue one expires, and otherwise *)
(* the code of challenge d (or a wrong one) is compared. "Now" was read before  *)
(* the row's lock was waited for.                                               *)
Verify(c, d) ==
    /\ otp[c].status = "ACTIVE"
    /\ \A r \in Requests : ~(holds[r] = c /\ issuing[r] = "insert")
    /\ \E now \in {clock - 1, clock} :
          otp' = IF now >= otp[c].issued + Ttl
                 THEN Ended(c, "EXPIRED") ELSE Attempted(c, d = c)
    /\ UNCHANGED <<latest, issuing, readAt, holds, arrived, clock>>

Overdue == {c \in Requests : /\ Exists(c) /\ otp[c].status # "ACTIVE"
                             /\ otp[c].updated < clock - Retention}

\* purge_expired deletes what ended before the retention window.
Purge ==
    /\ Overdue # {}
    /\ otp' = [c \in Requests |-> IF c \in Overdue THEN Purged ELSE otp[c]]
    /\ UNCHANGED <<latest, issuing, readAt, holds, arrived, clock>>

OtpTick ==
    /\ clock < OtpHorizon
    /\ clock' = clock + 1
    /\ UNCHANGED <<otp, latest, issuing, readAt, holds, arrived>>

OtpNext ==
    \/ \E r \in Requests :
          \/ Issue(r) \/ CheckPrior(r) \/ CountIssued(r) \/ FindActive(r) \/ StopWaiting(r)
          \/ Insert(r) \/ Resolve(r) \/ Deliver(r) \/ LinkMessage(r) \/ Unwind(r)
          \/ OtpCrash(r)
    \/ \E c \in Requests, d \in arrived \cup {Nobody} : Verify(c, d)
    \/ Purge
    \/ OtpTick

OtpSpec == OtpInit /\ [][OtpNext]_otpVars

------------------------------------------------------------------------------

\* Rows, calls and clocks keep their types; attempts never pass the ceiling.
OtpTypeOK ==
    /\ otp \in [Requests -> ChallengeRow]
    /\ latest \in Requests \cup {Nobody} /\ arrived \subseteq Requests
    /\ holds \in [Requests -> Requests \cup {Nobody}]
    /\ readAt \in [Requests -> 0..OtpHorizon]

(* "One live code per subject": whatever races, the only challenge that can be *)
(* verified is the one that was issued last.                                   *)
OnlyTheLatestIsLive == \A c \in ActiveRows : c = latest

(* Of the calls that carry one key only one ever sends a message, as long as   *)
(* its row has not been purged.                                                *)
OneSendPerKey ==
    \A r, q \in Requests :
        (r # q /\ KeyOf[r] = KeyOf[q] /\ KeyOf[r] # NoKey /\ {r, q} \subseteq arrived)
        => \E c \in {r, q} : otp[c].status = "PURGED"

(* "A code that was never sent is never left usable": once issue has answered   *)
(* that delivery failed, the challenge cannot be verified.                      *)
UnsentIsUnusable == \A r \in Requests : issuing[r] = "delivery_failed" => r \notin ActiveRows

(* A challenge ends once: no attempt, unwinding or later issue moves a row that *)
(* was verified, expired, revoked or locked.                                    *)
OtpEndsOnce ==
    [][\A c \in Requests :
          otp[c].status \in OtpStatuses \ {"ACTIVE"}
          => otp'[c].status \in {otp[c].status, "PURGED"}]_otpVars

(* "before any throttle / cooldown / revoke logic can fire against it": a call  *)
(* that repeats an earlier one with its key is not refused on its account.      *)
(* The code does not keep it (README, Divergences).                             *)
ReplayIsNotRefused ==
    [][\A r \in Requests :
          issuing'[r] = "refused" /\ issuing[r] # "refused"
          => \A c \in Carrying(KeyOf[r]) : ~SameRequest(r, c)]_otpVars

(* The throttle: never more than max_issues_per_window codes in one window.     *)
(* The code does not keep it (README, Divergences).                             *)
ThrottleHolds ==
    \A r \in Requests :
        Exists(r) => Cardinality({c \in Requests : Exists(c) /\ otp[c].issued <= otp[r].issued
                                     /\ otp[c].issued >= otp[r].issued - Window}) <= MaxIssues

(* A code is usable only if it is the latest one and was sent, a key sends one *)
(* code, and no call brings back a code that ended.                            *)
CodesAreSound ==
    /\ [](OtpTypeOK /\ OnlyTheLatestIsLive /\ UnsentIsUnusable /\ OneSendPerKey)
    /\ OtpEndsOnce
==============================================================================
