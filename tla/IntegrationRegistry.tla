-------------------------- MODULE IntegrationRegistry --------------------------
(***************************************************************************)
(* The registry of one integration (integrations/registry.py), the local   *)
(* vault behind it and the inbound webhooks (integrations/webhooks.py).    *)
(*                                                                         *)
(* A call reads in one transaction, checks outside any, and writes in      *)
(* another; the row it read may have changed.  A configuration is the base *)
(* URL and the credential reference; the destination rule, names and the   *)
(* events of the registry are left out, and so is an execution between its *)
(* start and its record (IntegrationHub).  Secrets are numbers, and 0 is a *)
(* reference without one.                                                  *)
(***************************************************************************)
EXTENDS Naturals, Sequences, FiniteSets, SequencesExt, Common

CONSTANTS RegistryCalls,   \* concurrent registry operations and executions
          OperationKeys,
          BaseUrls,
          Refs,            \* credential references
          Deliveries,      \* inbound webhook requests
          ExternalId,      \* delivery -> the id it carries
          MaxConfigs,      \* bound on config_revision
          MaxSecrets,      \* secrets a credential may be given
          MaxRegistry      \* bound on registry calls

VARIABLES integration,  \* the row, or none
          configs,      \* history: the configuration each revision was written with
          operations,   \* operation key -> its row, or none
          vault,        \* reference -> the secret stored
          endpoint,     \* the webhook endpoint, or none
          receipts,     \* external ids with a receipt
          inbound,      \* webhook events handed to the outbox, in order
          executions,   \* execution records
          regCall,      \* call -> its state
          delivery,     \* delivery -> its state
          regCalls

rowVars == <<integration, configs, operations, executions>>
hookVars == <<endpoint, receipts, inbound, delivery>>
registryVars == <<integration, configs, operations, vault, endpoint, receipts, inbound,
                  executions, regCall, delivery, regCalls>>

Config == [url: BaseUrls, ref: Refs \cup {None}]
IntegrationRow == [status: {"DRAFT", "ACTIVE", "DISABLED", "ERROR"}, revision: 1..MaxConfigs, config: Config]
NoIntegration == [status |-> None, revision |-> 0, config |-> [url |-> None, ref |-> None]]
OperationRow == [revision: 1..MaxConfigs, url: BaseUrls]
NoOperation == [revision |-> 0, url |-> None]
ExecutionRow == [revision: 1..MaxConfigs, config: Config, ok: BOOLEAN]
SecretRow == 0..MaxSecrets
EndpointRow == [scheme: {"NONE", "HMAC_SHA256"}, ref: Refs \cup {None}]
NoEndpoint == [scheme |-> None, ref |-> None]
IdleCall == [pc |-> "idle", key |-> None, row |-> NoIntegration, config |-> NoIntegration.config]
IdleDelivery == [pc |-> "new", signed |-> 0, verified |-> 0]

RegistryInit ==
  /\ integration = NoIntegration /\ configs = <<>>
  /\ operations = [k \in OperationKeys |-> NoOperation]
  /\ vault = [r \in Refs |-> 0]
  /\ endpoint = NoEndpoint /\ receipts = {} /\ inbound = <<>>
  /\ executions = {}
  /\ regCall = [c \in RegistryCalls |-> IdleCall]
  /\ delivery = [d \in Deliveries |-> IdleDelivery]
  /\ regCalls = 0

RegistryEnds(c) == regCall' = [regCall EXCEPT ![c] = IdleCall]
Enters(c, pc, key, config) ==
  /\ regCall[c] = IdleCall
  /\ regCalls < MaxRegistry /\ regCalls' = regCalls + 1
  /\ regCall' = [regCall EXCEPT ![c] = [pc |-> pc, key |-> key, row |-> integration, config |-> config]]
  /\ UNCHANGED <<rowVars, vault, hookVars>>

-----------------------------------------------------------------------------
(* Integrations *)

RequireCredential(ref) == ref # None => vault[ref] # 0

BeginCreate(c, config) == RequireCredential(config.ref) /\ Enters(c, "create", None, config)

\* The slug is unique: of two concurrent calls the second is a conflict.
InsertIntegration(c) ==
  /\ regCall[c].pc = "create"
  /\ \/ /\ integration = NoIntegration
        /\ integration' = [status |-> "DRAFT", revision |-> 1, config |-> regCall[c].config]
        /\ configs' = <<regCall[c].config>>
     \/ integration # NoIntegration /\ UNCHANGED <<integration, configs>>
  /\ RegistryEnds(c)
  /\ UNCHANGED <<operations, executions, vault, hookVars, regCalls>>

\* update compares the request with the row it has read and keeps what differs;
\* an auth profile is always a change.
BeginUpdate(c, config) ==
  /\ integration # NoIntegration
  /\ config # integration.config /\ RequireCredential(config.ref)
  /\ Enters(c, "update", None, config)

Changed(c) ==
  [url |-> IF regCall[c].config.url = regCall[c].row.config.url
           THEN integration.config.url ELSE regCall[c].config.url,
   ref |-> IF regCall[c].config.ref = regCall[c].row.config.ref
           THEN integration.config.ref ELSE regCall[c].config.ref]

Bug_ApplyUpdate(c) ==
  /\ regCall[c].pc = "update" /\ integration.revision < MaxConfigs
  /\ integration' = [integration EXCEPT !.config = Changed(c), !.revision = regCall[c].row.revision + 1]
  /\ configs' = Append(configs, Changed(c))
  /\ RegistryEnds(c)
  /\ UNCHANGED <<operations, executions, vault, hookVars, regCalls>>
\* One UPDATE of the changed columns, which increments the revision in place.
ApplyUpdate(c) ==
  /\ regCall[c].pc = "update" /\ integration.revision < MaxConfigs
  /\ integration' = [integration EXCEPT !.config = Changed(c), !.revision = @ + 1]
  /\ configs' = Append(configs, Changed(c))
  /\ RegistryEnds(c)
  /\ UNCHANGED <<operations, executions, vault, hookVars, regCalls>>

SetIntegrationStatus(status) ==
  /\ integration # NoIntegration
  /\ status \in {"ACTIVE", "DISABLED"} \ {integration.status}
  /\ regCalls < MaxRegistry /\ regCalls' = regCalls + 1
  /\ integration' = [integration EXCEPT !.status = status]
  /\ UNCHANGED <<configs, operations, executions, vault, hookVars, regCall>>

-----------------------------------------------------------------------------
(* Operations *)

\* set_operation reads the integration and checks the path against its base URL.
BeginOperation(c, k) == integration # NoIntegration /\ Enters(c, "operation", k, integration.config)

\* upsert, first statement.
LookOperation(c) ==
  /\ regCall[c].pc = "operation"
  /\ regCall' = [regCall EXCEPT ![c].pc =
       IF operations[regCall[c].key] = NoOperation THEN "insert" ELSE "overwrite"]
  /\ UNCHANGED <<rowVars, vault, hookVars, regCalls>>

\* upsert, the write.  An insert that meets a row, and an update that meets none,
\* fail the call.
WriteOperation(c) ==
  LET k == regCall[c].key IN
  /\ regCall[c].pc \in {"insert", "overwrite"}
  /\ \/ /\ (operations[k] = NoOperation) <=> (regCall[c].pc = "insert")
        /\ operations' = [operations EXCEPT ![k] = [revision |-> regCall[c].row.revision,
                                                    url |-> regCall[c].row.config.url]]
     \/ /\ (operations[k] = NoOperation) <=> (regCall[c].pc = "overwrite")
        /\ UNCHANGED operations
  /\ RegistryEnds(c)
  /\ UNCHANGED <<integration, configs, executions, vault, hookVars, regCalls>>

RemoveOperation(k) ==
  /\ operations[k] # NoOperation
  /\ regCalls < MaxRegistry /\ regCalls' = regCalls + 1
  /\ operations' = [operations EXCEPT ![k] = NoOperation]
  /\ UNCHANGED <<integration, configs, executions, vault, hookVars, regCall>>

ResolveForExecution(c, k) ==
  /\ integration.status = "ACTIVE" /\ operations[k] # NoOperation
  /\ Enters(c, "execute", k, integration.config)

\* The execution ends and is recorded with the revision it was resolved at; it
\* fails when the vault no longer holds the credential.
RecordExecution(c, ok) ==
  /\ regCall[c].pc = "execute"
  /\ ok => RequireCredential(regCall[c].config.ref)
  /\ executions' = executions \cup {[revision |-> regCall[c].row.revision,
                                     config |-> regCall[c].config, ok |-> ok]}
  /\ RegistryEnds(c)
  /\ UNCHANGED <<integration, configs, operations, vault, hookVars, regCalls>>

-----------------------------------------------------------------------------
(* Credentials *)

StoreCredential(r, secret) ==
  /\ vault[r] # secret
  /\ vault' = [vault EXCEPT ![r] = secret]
  /\ UNCHANGED <<rowVars, hookVars, regCall, regCalls>>

\* Nothing checks who refers to the credential.
DeleteCredential(r) ==
  /\ vault[r] # 0
  /\ vault' = [vault EXCEPT ![r] = 0]
  /\ UNCHANGED <<rowVars, hookVars, regCall, regCalls>>

-----------------------------------------------------------------------------
(* Inbound webhooks *)

RegisterWebhook(row) ==
  /\ integration # NoIntegration /\ endpoint = NoEndpoint
  /\ row.scheme = "HMAC_SHA256" => row.ref # None /\ RequireCredential(row.ref)
  /\ endpoint' = row
  /\ UNCHANGED <<rowVars, vault, receipts, inbound, delivery, regCall, regCalls>>

\* A provider signs with a secret it knows, or not at all (0).
ReceiveWebhook(d, signed) ==
  /\ delivery[d].pc = "new" /\ endpoint # NoEndpoint
  /\ delivery' = [delivery EXCEPT ![d] = [pc |-> "received", signed |-> signed, verified |-> 0]]
  /\ UNCHANGED <<rowVars, vault, endpoint, receipts, inbound, regCall, regCalls>>

Verified(d) ==
  \/ endpoint.scheme = "NONE"
  \/ vault[endpoint.ref] # 0 /\ delivery[d].signed = vault[endpoint.ref]

VerifyWebhook(d) ==
  /\ delivery[d].pc = "received"
  /\ delivery' = [delivery EXCEPT ![d].pc = IF Verified(d) THEN "verified" ELSE "refused",
       ![d].verified = IF endpoint.scheme = "NONE" THEN 0 ELSE vault[endpoint.ref]]
  /\ UNCHANGED <<rowVars, vault, endpoint, receipts, inbound, regCall, regCalls>>

\* The receipt, its ACCEPTED mark and the event are one transaction; a receipt
\* that exists makes the request a replay.
ClaimReceipt(d) ==
  /\ delivery[d].pc = "verified"
  /\ \/ /\ ExternalId[d] \notin receipts
        /\ receipts' = receipts \cup {ExternalId[d]}
        /\ inbound' = Append(inbound, ExternalId[d])
     \/ ExternalId[d] \in receipts /\ UNCHANGED <<receipts, inbound>>
  /\ delivery' = [delivery EXCEPT ![d].pc = "accepted"]
  /\ UNCHANGED <<rowVars, vault, endpoint, regCall, regCalls>>

RegistryNext ==
  \/ \E c \in RegistryCalls :
       \/ \E config \in Config : BeginCreate(c, config) \/ BeginUpdate(c, config)
       \/ InsertIntegration(c) \/ ApplyUpdate(c) \/ LookOperation(c) \/ WriteOperation(c)
       \/ \E k \in OperationKeys : BeginOperation(c, k) \/ ResolveForExecution(c, k)
       \/ \E ok \in BOOLEAN : RecordExecution(c, ok)
  \/ \E status \in {"ACTIVE", "DISABLED"} : SetIntegrationStatus(status)
  \/ \E k \in OperationKeys : RemoveOperation(k)
  \/ \E r \in Refs : DeleteCredential(r) \/ \E secret \in 1..MaxSecrets : StoreCredential(r, secret)
  \/ \E row \in EndpointRow : RegisterWebhook(row)
  \/ \E d \in Deliveries :
       \/ \E signed \in 0..MaxSecrets : ReceiveWebhook(d, signed)
       \/ VerifyWebhook(d) \/ ClaimReceipt(d)

RegistrySpec == RegistryInit /\ [][RegistryNext]_registryVars

-----------------------------------------------------------------------------

RegistryTypeOK ==
  /\ integration \in IntegrationRow \cup {NoIntegration}
  /\ operations \in [OperationKeys -> OperationRow \cup {NoOperation}]
  /\ vault \in [Refs -> SecretRow]
  /\ endpoint \in EndpointRow \cup {NoEndpoint}
  /\ executions \subseteq ExecutionRow
  /\ receipts \subseteq {ExternalId[d] : d \in Deliveries}

\* A revision names one configuration: the row has the configuration its
\* revision was written with, whatever updates ran at the same time.
RevisionNamesConfig ==
  integration # NoIntegration =>
    integration.revision = Len(configs) /\ integration.config = configs[integration.revision]

\* An operation was checked against the base URL of the revision it carries.
OperationRefers ==
  \A k \in OperationKeys : operations[k] # NoOperation =>
    operations[k].revision \in DOMAIN configs /\ operations[k].url = configs[operations[k].revision].url

\* An execution used the configuration of the revision it is recorded under.
ExecutionRefers ==
  \A x \in executions : x.revision \in DOMAIN configs /\ x.config = configs[x.revision]

\* A webhook endpoint that checks signatures names a credential, and its
\* integration exists.
EndpointRefers ==
  endpoint # NoEndpoint =>
    integration # NoIntegration /\ (endpoint.scheme = "HMAC_SHA256" => endpoint.ref # None)

\* Every receipt has its one event, every event its receipt: a request sent
\* again, even while the first is being handled, adds nothing.
ReceiptHasEvent == receipts = ToSet(inbound) /\ IsInjective(inbound)

\* What is accepted by an endpoint that checks signatures was signed with the
\* secret stored when it was checked; unsigned requests never are.
AcceptedIsSigned ==
  \A d \in Deliveries :
    delivery[d].pc = "accepted" /\ endpoint.scheme = "HMAC_SHA256" =>
      delivery[d].signed # 0 /\ delivery[d].signed = delivery[d].verified

\* No update, secret rotation or repeated webhook breaks what the registry's
\* rows say of each other: see the conjuncts.
RegistryIsConsistent ==
  /\ RegistryTypeOK /\ RevisionNamesConfig /\ OperationRefers /\ ExecutionRefers
  /\ EndpointRefers /\ ReceiptHasEvent /\ AcceptedIsSigned
================================================================================
