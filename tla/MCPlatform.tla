------------------------------ MODULE MCPlatform ------------------------------
(* Small instances of the platform's parts: sessions and the login limiter,    *)
(* provisioning, cells, the SIP edge (routes, signed requests, the dialogs of  *)
(* one edge process), Sentinel, compliance, the life cycle of a process and    *)
(* the tenant scope of its connections. The parts share no rows, so a          *)
(* behaviour is one of either. Sentinel has two parts: one where signals come  *)
(* and go and nothing is proposed, one with few signals where actions run.     *)
(* Processes of one kind are interchangeable, also where parts name them alike.*)
EXTENDS Access, LoginLimiter, Provisioning, CellPlacement, SipRoutes, EdgeReplay, EdgeDialogs,
        Sentinel, Compliance, Lifecycle, TenantScope

CONSTANTS x1, x2, y1, y2, u1

VARIABLE part

FourNonces == 1 :> 0 @@ 2 :> 1 @@ 3 :> 2 @@ 4 :> 4
OneReversible == 1 :> "REVERSIBLE"
Interchangeable == Permutations({x1, x2}) \cup Permutations({y1, y2})

Init ==
    /\ part \in {"sessions", "logins", "provisioning", "cells", "routes", "nonces", "dialogs",
                 "signals", "actions", "compliance", "life", "scope"}
    /\ AccessInit /\ LimitInit /\ ProvInit /\ CellsInit /\ SipInit /\ ReplayInit /\ EdgeInit
    /\ SentinelInit /\ ComplianceInit /\ LifeInit /\ ScopeInit
    /\ part # "life" => answering = Dependencies /\ deployment.hardened /\ ~deployment.bypasses

Next ==
    \/ /\ part = "sessions" /\ AccessNext
       /\ UNCHANGED <<part, limitVars, provVars, cellVars, sipVars,
                       replayVars, edgeVars, sentinelVars, complianceVars,
                       lifeVars, scopeVars>>
    \/ /\ part = "logins" /\ LimitNext
       /\ UNCHANGED <<part, accessVars, provVars, cellVars, sipVars,
                       replayVars, edgeVars, sentinelVars, complianceVars,
                       lifeVars, scopeVars>>
    \/ /\ part = "provisioning" /\ ProvNext
       /\ UNCHANGED <<part, accessVars, limitVars, cellVars, sipVars,
                       replayVars, edgeVars, sentinelVars, complianceVars,
                       lifeVars, scopeVars>>
    \/ /\ part = "cells" /\ CellsNext
       /\ UNCHANGED <<part, accessVars, limitVars, provVars, sipVars,
                       replayVars, edgeVars, sentinelVars, complianceVars,
                       lifeVars, scopeVars>>
    \/ /\ part = "routes" /\ SipNext
       /\ UNCHANGED <<part, accessVars, limitVars, provVars, cellVars,
                       replayVars, edgeVars, sentinelVars, complianceVars,
                       lifeVars, scopeVars>>
    \/ /\ part = "nonces" /\ ReplayNext
       /\ UNCHANGED <<part, accessVars, limitVars, provVars, cellVars,
                       sipVars, edgeVars, sentinelVars, complianceVars,
                       lifeVars, scopeVars>>
    \/ /\ part = "dialogs" /\ EdgeNext
       /\ UNCHANGED <<part, accessVars, limitVars, provVars, cellVars,
                       sipVars, replayVars, sentinelVars, complianceVars,
                       lifeVars, scopeVars>>
    \/ /\ part = "signals" /\ SentinelNext /\ proposals' = <<>> /\ books' = {} /\ UNCHANGED controlState
       /\ UNCHANGED <<part, accessVars, limitVars, provVars, cellVars,
                       sipVars, replayVars, edgeVars, complianceVars, lifeVars,
                       scopeVars>>
    \/ /\ part = "actions" /\ SentinelNext /\ started' + moves' <= 2
       /\ controlState'.revision + runnerFaults' <= 3
       /\ UNCHANGED <<part, accessVars, limitVars, provVars, cellVars,
                       sipVars, replayVars, edgeVars, complianceVars, lifeVars,
                       scopeVars>>
    \/ /\ part = "compliance" /\ ComplianceNext
       /\ UNCHANGED <<part, accessVars, limitVars, provVars, cellVars,
                       sipVars, replayVars, edgeVars, sentinelVars, lifeVars,
                       scopeVars>>
    \/ /\ part = "life" /\ LifeNext
       /\ UNCHANGED <<part, accessVars, limitVars, provVars, cellVars,
                       sipVars, replayVars, edgeVars, sentinelVars,
                       complianceVars, scopeVars>>
    \/ /\ part = "scope" /\ ScopeNext
       /\ UNCHANGED <<part, accessVars, limitVars, provVars, cellVars,
                       sipVars, replayVars, edgeVars, sentinelVars,
                       complianceVars, lifeVars>>

Spec == Init /\ [][Next]_<<part, accessVars, limitVars, provVars, cellVars, sipVars,
                          replayVars, edgeVars, sentinelVars, complianceVars,
                          lifeVars, scopeVars>>
===============================================================================
