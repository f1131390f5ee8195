------------------------------ MODULE Lifecycle ------------------------------
(***************************************************************************)
(* The application process: startup, readiness and shutdown                *)
(* (core/lifecycle.py, core/health.py, events/service.py and the adapters  *)
(* of infrastructure/).                                                    *)
(*                                                                         *)
(* The database engine and the cache client are created without touching   *)
(* the network; only the broker is connected at startup, and JetStream is  *)
(* detected then and never again.  Dependencies go down and come back at   *)
(* any moment.  Every dependency is configured and required.               *)
(***************************************************************************)
EXTENDS Naturals, Common

CONSTANTS MaxOutages       \* bound on dependencies going down

VARIABLES deployment, \* hardened (staging, production); the database role bypasses RLS
          answering,  \* the dependencies that answer
          app,        \* the process: its stage, clients, tasks and last readiness report
          outages

lifeVars == <<deployment, answering, app, outages>>

Dependencies == {"postgresql", "valkey", "nats", "jetstream"}
Stages == {"open_database", "open_cache", "open_broker", "verify_role", "topology", "start_relay",
           "running", "failed", "drain_tasks", "stop_platform", "close_nats", "close_cache",
           "close_database", "stopped"}
AppRow == [stage: Stages, engine: BOOLEAN, cache: BOOLEAN,
           broker: {None, "connected", "disconnected"}, jetstream: BOOLEAN, relay: BOOLEAN,
           tasks: BOOLEAN, readiness: {None, "READY", "NOT_READY"}]

LifeInit ==
  /\ deployment \in [hardened: BOOLEAN, bypasses: BOOLEAN]
  /\ answering \in SUBSET Dependencies
  /\ app = [stage |-> "open_database", engine |-> FALSE, cache |-> FALSE, broker |-> None,
            jetstream |-> FALSE, relay |-> FALSE, tasks |-> FALSE, readiness |-> None]
  /\ outages = 0

EnvUnchanged == UNCHANGED <<deployment, answering, outages>>
Durable == app.broker = "connected" /\ app.jetstream

-----------------------------------------------------------------------------
(* Startup *)

OpenDatabase ==
  /\ app.stage = "open_database"
  /\ app' = [app EXCEPT !.stage = "open_cache", !.engine = TRUE]
  /\ EnvUnchanged

OpenCache ==
  /\ app.stage = "open_cache"
  /\ app' = [app EXCEPT !.stage = "open_broker", !.cache = TRUE]
  /\ EnvUnchanged

\* A connection that fails is logged and left: the client stays None.
OpenBroker ==
  /\ app.stage = "open_broker"
  /\ app' = IF "nats" \in answering
            THEN [app EXCEPT !.stage = "verify_role", !.broker = "connected",
                             !.jetstream = "jetstream" \in answering]
            ELSE [app EXCEPT !.stage = "verify_role"]
  /\ EnvUnchanged

\* A hardened process fails closed, also when the role cannot be read.
RoleRefused == deployment.hardened /\ ("postgresql" \notin answering \/ deployment.bypasses)
VerifyRole ==
  /\ app.stage = "verify_role"
  /\ app' = [app EXCEPT !.stage = IF RoleRefused THEN "failed" ELSE "topology"]
  /\ EnvUnchanged

\* EventPlatform.start: a hardened process needs the durable transport and its
\* streams; another one goes on without them.
TopologyRefused ==
  deployment.hardened /\ (~Durable \/ {"nats", "jetstream"} \ answering # {})
EstablishTopology ==
  /\ app.stage = "topology"
  /\ app' = [app EXCEPT !.stage = IF TopologyRefused THEN "failed" ELSE "start_relay"]
  /\ EnvUnchanged

StartRelay ==
  /\ app.stage = "start_relay"
  /\ app' = [app EXCEPT !.stage = "running", !.relay = Durable]
  /\ EnvUnchanged

-----------------------------------------------------------------------------
(* Running *)

\* A voice session or an agent turn starts its background task.
StartTask ==
  /\ app.stage = "running" /\ "postgresql" \in answering
  /\ ~app.tasks /\ app' = [app EXCEPT !.tasks = TRUE]
  /\ EnvUnchanged

\* Every required probe must be UP.  Without JetStream nats is DEGRADED and the
\* event platform DOWN.
AllUp ==
  /\ app.engine /\ "postgresql" \in answering
  /\ app.cache /\ "valkey" \in answering
  /\ Durable /\ {"nats", "jetstream"} \subseteq answering

\* evaluate, once the cached report has been kept for its time.
Evaluate ==
  /\ app.stage = "running"
  /\ app' = [app EXCEPT !.readiness = IF AllUp THEN "READY" ELSE "NOT_READY"]
  /\ EnvUnchanged

GoesDown(d) ==
  /\ d \in answering
  /\ outages < MaxOutages /\ outages' = outages + 1
  /\ answering' = answering \ {d}
  /\ app' = IF d = "nats" /\ app.broker = "connected"
            THEN [app EXCEPT !.broker = "disconnected"] ELSE app
  /\ UNCHANGED deployment

ComesBack(d) ==
  /\ d \notin answering
  /\ answering' = answering \union {d}
  /\ UNCHANGED <<deployment, app, outages>>

\* The broker client reconnects a connection it once had.
Reconnect ==
  /\ app.broker = "disconnected" /\ "nats" \in answering
  /\ app' = [app EXCEPT !.broker = "connected"]
  /\ EnvUnchanged

-----------------------------------------------------------------------------
(* Shutdown: each stage runs although the one before it failed *)

BeginShutdown ==
  /\ app.stage = "running"
  /\ app' = [app EXCEPT !.stage = "drain_tasks"]
  /\ EnvUnchanged

Bug_ShutdownStep(from, to) ==
  <<from, to>> \in {<<"drain_tasks", "close_nats">>, <<"close_nats", "stop_platform">>,
                    <<"stop_platform", "close_cache">>, <<"close_cache", "close_database">>,
                    <<"close_database", "stopped">>}
\* The order of the stages.
ShutdownStep(from, to) ==
  <<from, to>> \in {<<"drain_tasks", "stop_platform">>, <<"stop_platform", "close_nats">>,
                    <<"close_nats", "close_cache">>, <<"close_cache", "close_database">>,
                    <<"close_database", "stopped">>}

Shutdown ==
  /\ \E next \in Stages :
       /\ ShutdownStep(app.stage, next)
       /\ app' = [app EXCEPT !.stage = next,
                             !.tasks = @ /\ app.stage # "drain_tasks",
                             !.relay = @ /\ app.stage # "stop_platform",
                             !.broker = IF app.stage = "close_nats" THEN None ELSE @,
                             !.jetstream = @ /\ app.stage # "close_nats",
                             !.cache = @ /\ app.stage # "close_cache",
                             !.engine = @ /\ app.stage # "close_database"]
  /\ EnvUnchanged

-----------------------------------------------------------------------------
ProcessNext ==
  OpenDatabase \/ OpenCache \/ OpenBroker \/ VerifyRole \/ EstablishTopology \/ StartRelay \/ Shutdown

LifeNext ==
  \/ ProcessNext
  \/ StartTask \/ Evaluate \/ Reconnect \/ BeginShutdown
  \/ \E d \in Dependencies : GoesDown(d) \/ ComesBack(d)

LifeSpec == LifeInit /\ [][LifeNext]_lifeVars

\* The process takes its steps, the broker client keeps reconnecting, the probe
\* is called again and again, and dependencies come back.
LifeFair ==
  /\ LifeSpec
  /\ WF_lifeVars(ProcessNext) /\ WF_lifeVars(Reconnect) /\ WF_lifeVars(Evaluate)
  /\ \A d \in Dependencies : WF_lifeVars(ComesBack(d))

-----------------------------------------------------------------------------
(* Work never outlives what it works with: at every moment of startup, outage  *)
(* and shutdown a running relay has its database and its broker client, and a  *)
(* session task its database; and a hardened process that came up had a role   *)
(* without bypass and a durable transport (core/lifecycle.py shutdown,         *)
(* _verify_runtime_role; events/service.py start).                             *)
WorkHasItsClients ==
  /\ app \in AppRow
  /\ app.relay => app.engine /\ app.broker # None
  /\ app.tasks => app.engine
  /\ (deployment.hardened /\ app.stage = "running") => ~deployment.bypasses /\ app.jetstream

(* "the instance stays live and reports NOT_READY until the dependency         *)
(* recovers" (core/lifecycle.py): once every dependency stays up, a process    *)
(* that keeps running reports READY.  It does not hold: a broker that was down *)
(* at startup is never connected, and JetStream is never detected again.       *)
RecoversWithDependency ==
  (<>[](answering = Dependencies /\ app.stage = "running")) => <>[](app.readiness = "READY")
=============================================================================
