--------------------------- MODULE IntegrationHub ---------------------------
(***************************************************************************)
(* Governed executions of one integration operation (integrations/         *)
(* service.py, executor.py, backoff.py, circuit.py, ratelimit.py) by       *)
(* concurrent calls of one process: the durable idempotency claim, the     *)
(* rate limit, the circuit breaker, credentials, the bounded attempts, the *)
(* receipt and the final state of the claim. Each await is a step: other   *)
(* calls interleave, the database may fail, and the call may be cancelled. *)
(* The far end is external: a request that reaches it may take effect      *)
(* whatever the caller sees of it.                                         *)
(***************************************************************************)
EXTENDS Integers, FiniteSets, Common

CONSTANTS
    HubCalls,         \* concurrent calls
    HubKeys,          \* idempotency keys; None is a call without one
    Prints,           \* request fingerprints
    RetryClass,       \* "SAFE", "IDEMPOTENT" or "NON_IDEMPOTENT"
    MaxAttempts,      \* retry_max_attempts
    Threshold,        \* circuit_failure_threshold
    HalfOpenMax,      \* circuit_half_open_max_calls
    RateLimit,        \* outbound_rate_limit_per_minute
    MaxResets,        \* bound: reset windows of the breaker that elapse
    MaxFaults         \* bound: transactions that fail

VARIABLES
    claims,   \* integration_idempotency rows by key
    breaker,  \* the in-process breaker of the operation
    window,   \* calls counted in the current rate window
    hub,      \* where each call is
    reached,  \* ghost: requests of each key that the far end processed
    runs,     \* ghost: executions admitted for each key
    resets, faults

hubVars == <<claims, breaker, window, hub, reached, runs, resets, faults>>

ClaimStates == {None, "PENDING", "COMPLETED", "FAILED"}
FreeClaim == [status |-> None, print |-> None]
ClaimRow == [status : ClaimStates, print : Prints \cup {None}]
BreakerStates == {"CLOSED", "OPEN", "HALF_OPEN"}
HubIdle == [pc |-> "idle", key |-> None, print |-> None, attempt |-> 0, trial |-> FALSE]

(* what one send comes to: how httpx reports it, and whether the far end    *)
(* may have processed the request                                           *)
Sendings == {[seen |-> "response", processed |-> TRUE],
             [seen |-> "server_error", processed |-> TRUE],
             [seen |-> "rate_limited", processed |-> FALSE],
             [seen |-> "client_error", processed |-> FALSE],
             [seen |-> "invalid", processed |-> TRUE],
             [seen |-> "connect_error", processed |-> FALSE],
             [seen |-> "tls_error", processed |-> FALSE],
             [seen |-> "network_error", processed |-> TRUE],
             [seen |-> "read_timeout", processed |-> TRUE],
             [seen |-> "dropped", processed |-> TRUE],
             [seen |-> "blocked", processed |-> FALSE]}

(* GovernedHttpExecutor._send_once: what is raised before a response comes  *)
SendFailure(seen) ==
    CASE seen \in {"connect_error", "network_error"} -> "PRE_SEND"
      [] seen = "tls_error" -> "TERMINAL"
      [] seen \in {"read_timeout", "dropped"} -> "IN_FLIGHT"

(* IntegrationHubService._attempt: what a response or a refusal comes to    *)
AttemptKind(seen) ==
    CASE seen = "response" -> "OK"
      [] seen = "server_error" -> "UPSTREAM_5XX"
      [] seen = "rate_limited" -> "UPSTREAM_429"
      [] seen \in {"client_error", "invalid", "blocked"} -> "TERMINAL"
      [] OTHER -> SendFailure(seen)

(* RetryPolicy.decide, the time budget apart *)
Retryable(kind, attempt) ==
    /\ attempt < MaxAttempts
    /\ kind # "TERMINAL"
    /\ \/ kind = "PRE_SEND"
       \/ RetryClass = "SAFE"
       \/ RetryClass = "IDEMPOTENT" /\ kind \in {"IN_FLIGHT", "UPSTREAM_5XX", "UPSTREAM_429"}

HubInit ==
    /\ claims = [k \in HubKeys |-> FreeClaim]
    /\ breaker = [state |-> "CLOSED", failures |-> 0, cooled |-> FALSE, trials |-> 0]
    /\ window = 0
    /\ hub = [c \in HubCalls |-> HubIdle]
    /\ reached = [k \in HubKeys |-> 0]
    /\ runs = [k \in HubKeys |-> 0]
    /\ resets = 0 /\ faults = 0

HubGoto(c, pc) == hub' = [hub EXCEPT ![c].pc = pc]
HubRaise(c, code) == hub' = [hub EXCEPT ![c].pc = code]

-----------------------------------------------------------------------------
(* the claim: insert-on-conflict, then what the existing row says *)
HubClaim(c) ==
    LET h == hub[c] row == claims[h.key] IN
    /\ h.pc = "claim"
    /\ \/ /\ h.key = None
          /\ HubGoto(c, "admit") /\ UNCHANGED <<claims, runs>>
       \/ /\ h.key # None /\ row.status = None
          /\ claims' = [claims EXCEPT ![h.key] = [status |-> "PENDING", print |-> h.print]]
          /\ runs' = [runs EXCEPT ![h.key] = @ + 1]
          /\ HubGoto(c, "admit")
       \/ /\ h.key # None /\ row.status # None
          /\ HubRaise(c, IF row.print # h.print THEN "conflict"
                         ELSE IF row.status = "COMPLETED" THEN "returned"
                         ELSE IF row.status = "FAILED" THEN "failed_before"
                         ELSE "in_progress")
          /\ UNCHANGED <<claims, runs>>
    /\ UNCHANGED <<breaker, window, reached, resets, faults>>

(* OutboundRateLimiter.check_and_consume: counted even when refused *)
CheckAndConsume(c) ==
    /\ hub[c].pc = "admit"
    /\ window' = IF window > RateLimit THEN window ELSE window + 1
    /\ HubGoto(c, IF window + 1 > RateLimit THEN "failing" ELSE "breaker")
    /\ UNCHANGED <<claims, breaker, reached, runs, resets, faults>>

WindowPasses ==
    /\ window > 0
    /\ window' = 0
    /\ UNCHANGED <<claims, breaker, hub, reached, runs, resets, faults>>

(* CircuitBreakerRegistry.before_call *)
BeforeCall(c) ==
    LET half == breaker.state = "OPEN" /\ breaker.cooled
        b == IF half THEN [breaker EXCEPT !.state = "HALF_OPEN", !.trials = 0] ELSE breaker
    IN
    /\ hub[c].pc = "breaker"
    /\ IF b.state = "OPEN" \/ (b.state = "HALF_OPEN" /\ b.trials >= HalfOpenMax)
       THEN breaker' = b /\ HubGoto(c, "failing")
       ELSE /\ breaker' = IF b.state = "HALF_OPEN" THEN [b EXCEPT !.trials = @ + 1] ELSE b
            /\ hub' = [hub EXCEPT ![c].pc = "auth", ![c].trial = b.state = "HALF_OPEN"]
    /\ UNCHANGED <<claims, window, reached, runs, resets, faults>>

ResetElapses ==
    /\ breaker.state = "OPEN" /\ ~breaker.cooled /\ resets < MaxResets
    /\ breaker' = [breaker EXCEPT !.cooled = TRUE]
    /\ resets' = resets + 1
    /\ UNCHANGED <<claims, window, hub, reached, runs, faults>>

(* AuthProfileApplier.prepare: a missing credential ends the call here *)
PrepareAuth(c) ==
    /\ hub[c].pc = "auth"
    /\ \E next \in {"send", "failing"} : HubGoto(c, next)
    /\ UNCHANGED <<claims, breaker, window, reached, runs, resets, faults>>

(* one attempt and the decision on the next; the elapsed budget may stop it *)
Attempt(c) ==
    LET h == hub[c] IN
    /\ h.pc = "send"
    /\ \E s \in Sendings :
         LET kind == AttemptKind(s.seen) attempt == h.attempt + 1 IN
         /\ reached' = IF s.processed /\ h.key # None
                       THEN [reached EXCEPT ![h.key] = @ + 1] ELSE reached
         /\ \/ kind = "OK" /\ HubGoto(c, "won")
            \/ /\ kind # "OK" /\ Retryable(kind, attempt)
               /\ hub' = [hub EXCEPT ![c].attempt = attempt]
            \/ kind # "OK" /\ HubGoto(c, "beaten")
    /\ UNCHANGED <<claims, breaker, window, runs, resets, faults>>

RecordSuccess(c) ==
    /\ hub[c].pc = "won"
    /\ breaker' = [state |-> "CLOSED", failures |-> 0, cooled |-> FALSE, trials |-> 0]
    /\ HubGoto(c, "receipt")
    /\ UNCHANGED <<claims, window, reached, runs, resets, faults>>

RecordFailure(c) ==
    LET counted == breaker.failures + 1 IN
    /\ hub[c].pc = "beaten"
    /\ breaker' = IF breaker.state = "HALF_OPEN"
                  THEN [breaker EXCEPT !.state = "OPEN", !.cooled = FALSE]
                  ELSE IF counted >= Threshold
                  THEN [breaker EXCEPT !.state = "OPEN", !.failures = Threshold, !.cooled = FALSE]
                  ELSE [breaker EXCEPT !.failures = counted]
    /\ HubGoto(c, "failing")
    /\ UNCHANGED <<claims, window, reached, runs, resets, faults>>

(* the receipt of a success; when its transaction fails, the error is an    *)
(* NxsError like any other and the claim will be marked FAILED              *)
RecordReceipt(c) ==
    /\ hub[c].pc = "receipt"
    /\ \/ HubGoto(c, "completing") /\ UNCHANGED faults
       \/ faults < MaxFaults /\ faults' = faults + 1 /\ HubGoto(c, "failing")
    /\ UNCHANGED <<claims, breaker, window, reached, runs, resets>>

(* _finalize; when it fails the claim stays PENDING *)
HubFinalize(c) ==
    LET h == hub[c] ok == h.pc = "completing" IN
    /\ h.pc \in {"completing", "failing"}
    /\ \/ /\ claims' = IF h.key = None THEN claims
                       ELSE [claims EXCEPT ![h.key].status = IF ok THEN "COMPLETED" ELSE "FAILED"]
          /\ HubRaise(c, IF ok THEN "returned" ELSE "raised")
          /\ UNCHANGED faults
       \/ /\ h.key # None /\ faults < MaxFaults /\ faults' = faults + 1
          /\ HubRaise(c, "raised") /\ UNCHANGED claims
    /\ UNCHANGED <<breaker, window, reached, runs, resets>>

HubStep(c) ==
    \/ HubClaim(c) \/ CheckAndConsume(c) \/ BeforeCall(c) \/ PrepareAuth(c) \/ Attempt(c)
    \/ RecordSuccess(c) \/ RecordFailure(c) \/ RecordReceipt(c) \/ HubFinalize(c)

HubEnded == {"returned", "raised", "conflict", "failed_before", "in_progress"}
HubRunning(c) == hub[c].pc \notin HubEnded \cup {"idle"}

-----------------------------------------------------------------------------
HubTypeOK ==
    /\ claims \in [HubKeys -> ClaimRow]
    /\ breaker.state \in BreakerStates
    /\ breaker.failures \in 0..Threshold /\ breaker.trials \in 0..HalfOpenMax
    /\ window \in 0..(RateLimit + 1)
=============================================================================
