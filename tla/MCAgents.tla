------------------------------- MODULE MCAgents -------------------------------
(* Small instances of the AI runtimes and of what organizations configure for  *)
(* them: the turns of one agent session, run by two workers; the tool          *)
(* invocations of two callers through the integration hub; the texts assembled *)
(* for one model call; two voice sessions on one media session; the workflow   *)
(* catalog; and the integration registry. The parts share no rows, so a        *)
(* behaviour is one of either. The catalog has two parts, one where drafts are *)
(* edited and published and one where published versions are started; so has   *)
(* the registry: calls on the integration, and webhooks; so have the tools:    *)
(* three invocations of one version, and two while the tool is revised; and so *)
(* have the turns: two of them, and one whose responses ask for two calls.     *)
(* Requests of one kind are interchangeable, also where parts name them alike. *)
EXTENDS AgentTurns, ToolInvocations, AgentContext, VoiceSession, WorkflowCatalog,
        IntegrationRegistry, TLC

CONSTANTS p1, p2, d1, d2

VARIABLE part

Interchangeable == Permutations({p1, p2})
TwoDrafts == d1 :> (1 :> {} @@ 2 :> {1}) @@ d2 :> (1 :> {2} @@ 2 :> {})
OneRepeated == d1 :> 1 @@ d2 :> 1

Init ==
    /\ part \in {"turns", "calls", "tools", "versions", "context", "voice", "drafts", "starts",
                 "registry", "webhooks"}
    /\ AgentsInit /\ ToolsInit /\ ContextInit /\ VoiceInit /\ CatalogInit /\ RegistryInit
    /\ part # "context" => rows = <<>> /\ stage = "context"

Next ==
    \/ /\ part \in {"turns", "calls"} /\ AgentsNext
       /\ IF part = "turns" THEN \A w \in AgentWorkers : Len(proc'[w].queue) <= 1
          ELSE Len(turns') <= 1
       /\ UNCHANGED <<part, tVars, cVars, voiceVars, catalogVars, registryVars>>
    \/ /\ part \in {"tools", "versions"} /\ ToolsNext
       /\ IF part = "tools" THEN tool'.version = 1 ELSE begun' <= 2
       /\ UNCHANGED <<part, aVars, cVars, voiceVars, catalogVars, registryVars>>
    \/ /\ part = "context" /\ ContextNext
       /\ UNCHANGED <<part, aVars, tVars, voiceVars, catalogVars, registryVars>>
    \/ /\ part = "voice" /\ VoiceNext
       /\ UNCHANGED <<part, aVars, tVars, cVars, catalogVars, registryVars>>
    \/ /\ part \in {"drafts", "starts"} /\ CatalogNext
       /\ IF part = "drafts" THEN starter' = starter ELSE editor' = editor
       /\ UNCHANGED <<part, aVars, tVars, cVars, voiceVars, registryVars>>
    \/ /\ part \in {"registry", "webhooks"} /\ RegistryNext
       /\ IF part = "registry" THEN endpoint' = endpoint ELSE regCalls' <= 1
       /\ UNCHANGED <<part, aVars, tVars, cVars, voiceVars, catalogVars>>

Spec == Init /\ [][Next]_<<part, aVars, tVars, cVars, voiceVars, catalogVars, registryVars>>
===============================================================================
