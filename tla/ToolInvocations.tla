--------------------------- MODULE ToolInvocations --------------------------
(***************************************************************************)
(* ToolEngine.invoke (tools/service.py, tools/idempotency.py, domain/tools)*)
(* on top of the Integration Hub: checks, the tool's own idempotency claim,*)
(* the governed execution under a key derived from the caller's, bounded   *)
(* by the tool's timeout, the receipt and the final state of the claim.    *)
(* The tool may be reconfigured, disabled and enabled meanwhile.           *)
(***************************************************************************)
EXTENDS IntegrationHub

CONSTANTS
    MaxVersion,     \* bound: versions of the tool definition
    MaxInvocations, \* bound: invocations begun
    MaxCancels      \* bound: invocations cancelled or lost with their process

VARIABLES
    tool,     \* the tool definition: status and version
    tclaims,  \* tool_idempotency rows by key
    calls,    \* where each invocation is
    answers,  \* ghost: <<key, print>> of results handed to callers
    begun, cancels

toolVars == <<tool, tclaims, calls, answers, begun, cancels>>
tVars == <<hubVars, toolVars>>

Arguments == Prints
ToolIdle == [pc |-> "idle", key |-> None, args |-> None, version |-> 0]
FreeToolClaim == [status |-> None, print |-> <<>>]

(* request_fingerprint: the resolved version is part of it *)
ToolPrint(v, a) == <<v, a>>

(* tool_idempotency_records *)
ToolClaimRow == [status : {"PENDING", "COMPLETED", "FAILED"},
                 print : {ToolPrint(v, a) : v \in 1..MaxVersion, a \in Arguments}]

ToolsInit ==
    /\ HubInit
    /\ tool = [status |-> "ACTIVE", version |-> 1]
    /\ tclaims = [k \in HubKeys |-> FreeToolClaim]
    /\ calls = [c \in HubCalls |-> ToolIdle]
    /\ answers = {}
    /\ begun = 0 /\ cancels = 0

ToolGoto(c, pc) == calls' = [calls EXCEPT ![c].pc = pc]

-----------------------------------------------------------------------------
(* ToolRegistry.update bumps the version, set_status switches the tool *)
UpdateTool ==
    /\ tool.version < MaxVersion
    /\ tool' = [tool EXCEPT !.version = @ + 1]
    /\ UNCHANGED <<hubVars, tclaims, calls, answers, begun, cancels>>

SetToolStatus ==
    /\ begun < MaxInvocations
    /\ tool' = [tool EXCEPT !.status = IF @ = "ACTIVE" THEN "DISABLED" ELSE "ACTIVE"]
    /\ UNCHANGED <<hubVars, tclaims, calls, answers, begun, cancels>>

(* existence, status, permissions, risk ceiling and argument schema pass *)
Invoke(c, k, a) ==
    /\ calls[c].pc = "idle" /\ begun < MaxInvocations
    /\ tool.status = "ACTIVE"
    /\ begun' = begun + 1
    /\ calls' = [calls EXCEPT ![c] = [pc |-> IF k = None THEN "run" ELSE "claim",
                                      key |-> k, args |-> a, version |-> tool.version]]
    /\ UNCHANGED <<hubVars, tool, tclaims, answers, cancels>>

Bug_ToolClaim(c) ==
    LET t == calls[c] row == tclaims[t.key] print == ToolPrint(t.version, t.args) IN
    /\ t.pc = "claim"
    /\ \/ /\ row.status \in {None, "PENDING"}
          /\ tclaims' = [tclaims EXCEPT ![t.key] = [status |-> "PENDING", print |-> print]]
          /\ ToolGoto(c, "run") /\ UNCHANGED answers
       \/ /\ row.status \in {"FAILED", "COMPLETED"}
          /\ answers' = IF row.print = print /\ row.status = "COMPLETED"
                        THEN answers \cup {<<t.key, t.args>>} ELSE answers
          /\ calls' = [calls EXCEPT ![c] = ToolIdle] /\ UNCHANGED tclaims
    /\ UNCHANGED <<hubVars, tool, begun, cancels>>

(* insert-on-conflict; an existing row is replayed or refused, also a FAILED one *)
ToolClaim(c) ==
    LET t == calls[c] row == tclaims[t.key] print == ToolPrint(t.version, t.args) IN
    /\ t.pc = "claim"
    /\ \/ /\ row.status = None
          /\ tclaims' = [tclaims EXCEPT ![t.key] = [status |-> "PENDING", print |-> print]]
          /\ ToolGoto(c, "run") /\ UNCHANGED answers
       \/ /\ row.status # None   \* replay, conflict, failed before, in progress
          /\ answers' = IF row.print = print /\ row.status = "COMPLETED"
                        THEN answers \cup {<<t.key, t.args>>} ELSE answers
          /\ calls' = [calls EXCEPT ![c] = ToolIdle] /\ UNCHANGED tclaims
    /\ UNCHANGED <<hubVars, tool, begun, cancels>>

(* _run: the hub is called with a key derived from the tool and the key *)
CallHub(c) ==
    LET t == calls[c] IN
    /\ t.pc = "run"
    /\ hub' = [hub EXCEPT ![c] = [HubIdle EXCEPT !.pc = "claim", !.key = t.key, !.print = t.args]]
    /\ ToolGoto(c, "hub")
    /\ UNCHANGED <<claims, breaker, window, reached, runs, resets, faults,
                   tool, tclaims, answers, begun, cancels>>

RunHub(c) ==
    /\ calls[c].pc = "hub"
    /\ HubStep(c)
    /\ UNCHANGED toolVars

(* the hub returned or raised; a success may still have an invalid output *)
HubReturns(c) ==
    /\ calls[c].pc = "hub" /\ hub[c].pc \in HubEnded
    /\ \E next \in IF hub[c].pc = "returned" THEN {"receipt", "failing"} ELSE {"failing"} :
         ToolGoto(c, next)
    /\ hub' = [hub EXCEPT ![c] = HubIdle]
    /\ UNCHANGED <<claims, breaker, window, reached, runs, resets, faults,
                   tool, tclaims, answers, begun, cancels>>

(* _execute_bounded: the tool's timeout cancels the execution where it is *)
ToolTimeout(c) ==
    /\ calls[c].pc = "hub" /\ HubRunning(c)
    /\ hub' = [hub EXCEPT ![c] = HubIdle]
    /\ ToolGoto(c, "failing")
    /\ UNCHANGED <<claims, breaker, window, reached, runs, resets, faults,
                   tool, tclaims, answers, begun, cancels>>

ToolReceipt(c) ==
    /\ calls[c].pc = "receipt"
    /\ \/ ToolGoto(c, "completing") /\ UNCHANGED faults
       \/ faults < MaxFaults /\ faults' = faults + 1 /\ ToolGoto(c, "failing")
    /\ UNCHANGED <<claims, breaker, window, hub, reached, runs, resets,
                   tool, tclaims, answers, begun, cancels>>

ToolFinalize(c) ==
    LET t == calls[c] ok == t.pc = "completing" IN
    /\ t.pc \in {"completing", "failing"}
    /\ \/ /\ tclaims' = IF t.key = None THEN tclaims
                        ELSE [tclaims EXCEPT ![t.key].status = IF ok THEN "COMPLETED" ELSE "FAILED"]
          /\ answers' = IF ok /\ t.key # None THEN answers \cup {<<t.key, t.args>>} ELSE answers
          /\ UNCHANGED faults
       \/ /\ t.key # None /\ faults < MaxFaults /\ faults' = faults + 1
          /\ UNCHANGED <<tclaims, answers>>
    /\ calls' = [calls EXCEPT ![c] = ToolIdle]
    /\ UNCHANGED <<claims, breaker, window, hub, reached, runs, resets, tool, begun, cancels>>

(* the caller is cancelled or its process ends: nothing is finalized *)
AbandonCall(c) ==
    /\ calls[c].pc # "idle" /\ cancels < MaxCancels
    /\ cancels' = cancels + 1
    /\ calls' = [calls EXCEPT ![c] = ToolIdle]
    /\ hub' = [hub EXCEPT ![c] = HubIdle]
    /\ UNCHANGED <<claims, breaker, window, reached, runs, resets, faults,
                   tool, tclaims, answers, begun>>

ToolsNext ==
    \/ UpdateTool \/ SetToolStatus
    \/ (WindowPasses \/ ResetElapses) /\ UNCHANGED toolVars
    \/ \E c \in HubCalls :
         \/ \E k \in HubKeys \cup {None}, a \in Arguments : Invoke(c, k, a)
         \/ ToolClaim(c) \/ CallHub(c) \/ RunHub(c) \/ HubReturns(c) \/ ToolTimeout(c)
         \/ ToolReceipt(c) \/ ToolFinalize(c) \/ AbandonCall(c)

ToolsSpec == ToolsInit /\ [][ToolsNext]_tVars

-----------------------------------------------------------------------------
(* the rows: the definition's status and version, and the claims of keys *)
ToolsTypeOK ==
    /\ HubTypeOK
    /\ tool \in [status : {"ACTIVE", "DISABLED"}, version : 1..MaxVersion]
    /\ tclaims \in [HubKeys -> ToolClaimRow \cup {FreeToolClaim}]

-----------------------------------------------------------------------------
(* A key is executed once, whatever is retried, cancelled, timed out or    *)
(* fails to be recorded, and by one invocation at a time; the answers given*)
(* under it are all to the same request, and an answer means that the far  *)
(* end processed it (ToolEngine.invoke, IntegrationHubService.execute).    *)
OneExecutionPerKey ==
    \A k \in HubKeys :
      /\ runs[k] <= 1
      /\ Cardinality({c \in HubCalls : calls[c].key = k /\ calls[c].pc \notin {"claim", "idle"}}) <= 1
      /\ \A x, y \in answers : x[1] = k /\ y[1] = k => x[2] = y[2] /\ reached[k] > 0

(* The two claims of one key never contradict each other: what the engine  *)
(* recorded as completed the hub has completed, and what the hub still has *)
(* open the engine has not completed.                                      *)
ClaimsAgree ==
    \A k \in HubKeys :
      /\ tclaims[k].status = "COMPLETED" => claims[k].status = "COMPLETED"
      /\ claims[k].status # None => tclaims[k].status # None

(* integrations/circuit.py:11: "HALF_OPEN — a bounded number of trial calls*)
(* are admitted; one success closes the breaker, one failure re-opens it." *)
(* A breaker that refuses because its trials are used up is waiting for    *)
(* one of them.                                                            *)
(* The code does not keep it (README, Divergences).                        *)
HalfOpenAwaitsATrial ==
    breaker.state = "HALF_OPEN" /\ breaker.trials >= HalfOpenMax =>
      \E c \in HubCalls : hub[c].trial /\ hub[c].pc \in {"auth", "send", "won", "beaten"}

(* integrations/backoff.py:13: NON_IDEMPOTENT — "retry ONLY when the       *)
(* request provably never reached the server".                             *)
(* The code does not keep it (README, Divergences).                        *)
NotRepeatedOnceReached ==
    RetryClass = "NON_IDEMPOTENT" => \A k \in HubKeys : reached[k] <= 1

(* A keyed call runs once through both layers, and both layers say so.         *)
CallsRunOnce == ToolsTypeOK /\ OneExecutionPerKey /\ ClaimsAgree
=============================================================================
