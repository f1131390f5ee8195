---------------------------- MODULE Provisioning ----------------------------
(***************************************************************************)
(* Organizations: the automatic provisioner (domain/provisioning) and the  *)
(* life cycle of the Organization row (domain/organizations).              *)
(*                                                                         *)
(* A provisioning call claims its idempotency key, creates the whole       *)
(* Organization in one transaction (the row, the link from the request,    *)
(* owner, settings, dashboard and outbox intent commit together or not at  *)
(* all) and then completes the request in a third transaction.  A call     *)
(* that finds the key taken replays, refuses or resumes from the row.      *)
(* Calls interleave and crash between their transactions.  A life-cycle    *)
(* operation reads the row and then updates it where the version is still  *)
(* the one it read.                                                        *)
(***************************************************************************)
EXTENDS Naturals, Sequences, FiniteSets, Common

CONSTANTS ProvCalls,      \* provisioning calls
          ProvKeys,       \* idempotency keys
          Slugs,          \* organization keys
          OrgAdmins,      \* life-cycle operations
          MaxOrgs,        \* bound on organizations
          MaxOrgVersion,  \* bound on the version of a row
          MaxProvFaults   \* bound on crashes

VARIABLES requests,   \* key -> the request row
          orgs,       \* the organizations, in creation order
          provCall, orgAdmin, provFaults

provVars == <<requests, orgs, provCall, orgAdmin, provFaults>>

OrgStatuses == {"PROVISIONING", "ACTIVE", "SUSPENDED", "ARCHIVED"}
OrgEdges == {<<"PROVISIONING", "ACTIVE">>, <<"PROVISIONING", "ARCHIVED">>,
             <<"ACTIVE", "SUSPENDED">>, <<"ACTIVE", "ARCHIVED">>,
             <<"SUSPENDED", "ACTIVE">>, <<"SUSPENDED", "ARCHIVED">>}

\* by: the request whose baseline transaction created the row, None for a bare row.
OrgRow == [slug: Slugs, status: OrgStatuses, version: 1..MaxOrgVersion, by: ProvKeys \cup {None}]
RequestStates == {None, "PENDING", "COMPLETED", "FAILED"}
ProvisioningRow == [status: RequestStates, slug: Slugs \cup {None}, org: 0..MaxOrgs, stale: BOOLEAN]
NoProvisioning == [status |-> None, slug |-> None, org |-> 0, stale |-> FALSE]
IdleProv == [pc |-> "idle", key |-> None, org |-> 0]
IdleAdmin == [pc |-> "idle", org |-> 0, version |-> 0, status |-> None]

ProvInit ==
  /\ requests = [k \in ProvKeys |-> NoProvisioning]
  /\ orgs = <<>>
  /\ provCall = [c \in ProvCalls |-> IdleProv]
  /\ orgAdmin = [a \in OrgAdmins |-> IdleAdmin]
  /\ provFaults = 0

ProvGoto(c, pc, org) == provCall' = [provCall EXCEPT ![c].pc = pc, ![c].org = org]
ProvEnds(c) == provCall' = [provCall EXCEPT ![c] = IdleProv]

-----------------------------------------------------------------------------
(* Provisioning *)

\* The caller holds the platform capability and the owner is an active user.
\* Phase 1: the unique key decides who claims.  A repeated key must come with the
\* same fingerprint; another one is refused and changes nothing.
ClaimKey(c, k, slug) ==
  /\ provCall[c].pc = "idle"
  /\ \/ /\ requests[k].status = None
        /\ requests' = [requests EXCEPT ![k].status = "PENDING", ![k].slug = slug]
        /\ provCall' = [provCall EXCEPT ![c] = [pc |-> "baseline", key |-> k, org |-> 0]]
     \/ /\ requests[k].status # None /\ requests[k].slug = slug
        /\ provCall' = [provCall EXCEPT ![c] = [pc |-> "existing", key |-> k, org |-> 0]]
        /\ UNCHANGED requests
  /\ UNCHANGED <<orgs, orgAdmin, provFaults>>

Bug_HandleExistingKey(c) ==
  LET k == provCall[c].key
      bySlug == {n \in DOMAIN orgs : orgs[n].slug = requests[k].slug}
  IN
  /\ provCall[c].pc = "existing"
  /\ \/ requests[k].status \in {"COMPLETED", "FAILED"} /\ ProvEnds(c)
     \/ requests[k].status = "PENDING" /\ \E n \in bySlug : ProvGoto(c, "finalize", n)
     \/ /\ requests[k].status = "PENDING" /\ bySlug = {}
        /\ \/ requests[k].stale /\ ProvGoto(c, "baseline", 0)
           \/ ~requests[k].stale /\ ProvEnds(c)
  /\ UNCHANGED <<requests, orgs, orgAdmin, provFaults>>
\* A decided request is replayed or refused.  A pending one with its Organization
\* linked is finalized; an unlinked one is run again once its claim is stale.
HandleExistingKey(c) ==
  LET k == provCall[c].key IN
  /\ provCall[c].pc = "existing"
  /\ \/ requests[k].status \in {"COMPLETED", "FAILED"} /\ ProvEnds(c)
     \/ /\ requests[k].status = "PENDING" /\ requests[k].org # 0
        /\ ProvGoto(c, "finalize", requests[k].org)
     \/ /\ requests[k].status = "PENDING" /\ requests[k].org = 0
        /\ \/ requests[k].stale /\ ProvGoto(c, "baseline", 0)
           \/ ~requests[k].stale /\ ProvEnds(c)
  /\ UNCHANGED <<requests, orgs, orgAdmin, provFaults>>

SlugTaken(slug) == \E n \in DOMAIN orgs : orgs[n].slug = slug

\* Phase 2.  A taken slug rolls back to the savepoint and marks the request
\* FAILED, whatever state it is in.
Baseline(c) ==
  LET k == provCall[c].key IN
  /\ provCall[c].pc = "baseline"
  /\ \/ /\ ~SlugTaken(requests[k].slug) /\ Len(orgs) < MaxOrgs
        /\ orgs' = Append(orgs, [slug |-> requests[k].slug, status |-> "ACTIVE", version |-> 2,
                                 by |-> k])
        /\ requests' = [requests EXCEPT ![k].org = Len(orgs) + 1, ![k].stale = FALSE]
        /\ ProvGoto(c, "finalize", Len(orgs) + 1)
     \/ /\ SlugTaken(requests[k].slug)
        /\ requests' = [requests EXCEPT ![k].status = "FAILED", ![k].stale = FALSE]
        /\ ProvEnds(c)
        /\ UNCHANGED orgs
  /\ UNCHANGED <<orgAdmin, provFaults>>

\* Phase 3.
Complete(c) ==
  LET k == provCall[c].key IN
  /\ provCall[c].pc = "finalize"
  /\ requests' = [requests EXCEPT ![k].status = "COMPLETED", ![k].org = provCall[c].org,
                               ![k].stale = FALSE]
  /\ ProvEnds(c)
  /\ UNCHANGED <<orgs, orgAdmin, provFaults>>

CrashProv(c) ==
  /\ provCall[c].pc # "idle"
  /\ provFaults < MaxProvFaults /\ provFaults' = provFaults + 1
  /\ ProvEnds(c)
  /\ UNCHANGED <<requests, orgs, orgAdmin>>

\* pending_stale_seconds pass without a write to the row.
GoesStale(k) ==
  /\ requests[k].status = "PENDING" /\ ~requests[k].stale
  /\ requests' = [requests EXCEPT ![k].stale = TRUE]
  /\ UNCHANGED <<orgs, provCall, orgAdmin, provFaults>>

\* create_core_record: a bare row in PROVISIONING, without owner or request.
\* Its slug conflicts with a provisioned one's, and the other way round.
CreateCoreRecord(slug) ==
  /\ ~SlugTaken(slug) /\ Len(orgs) < MaxOrgs
  /\ orgs' = Append(orgs, [slug |-> slug, status |-> "PROVISIONING", version |-> 1, by |-> None])
  /\ UNCHANGED <<requests, provCall, orgAdmin, provFaults>>

-----------------------------------------------------------------------------
(* The life cycle *)

ReadOrg(a, n) ==
  /\ orgAdmin[a].pc = "idle"
  /\ orgAdmin' = [orgAdmin EXCEPT ![a] = [pc |-> "read", org |-> n, version |-> orgs[n].version,
                                          status |-> orgs[n].status]]
  /\ UNCHANGED <<requests, orgs, provCall, provFaults>>

\* The update matches only the version that was read; otherwise the operation
\* ends with a version conflict.
ApplyOrg(a, status) ==
  LET t == orgAdmin[a] IN
  orgs' = IF orgs[t.org].version = t.version
          THEN [orgs EXCEPT ![t.org].status = status, ![t.org].version = @ + 1]
          ELSE orgs

\* transition, or the update of the profile of an operational organization.
WriteOrg(a) ==
  LET t == orgAdmin[a] IN
  /\ t.pc = "read"
  /\ orgs[t.org].version < MaxOrgVersion
  /\ \/ \E status \in OrgStatuses : <<t.status, status>> \in OrgEdges /\ ApplyOrg(a, status)
     \/ t.status = "ACTIVE" /\ ApplyOrg(a, "ACTIVE")
  /\ orgAdmin' = [orgAdmin EXCEPT ![a] = IdleAdmin]
  /\ UNCHANGED <<requests, provCall, provFaults>>

-----------------------------------------------------------------------------
ProvNext ==
  \/ \E c \in ProvCalls : \/ \E k \in ProvKeys, slug \in Slugs : ClaimKey(c, k, slug)
                          \/ HandleExistingKey(c) \/ Baseline(c) \/ Complete(c) \/ CrashProv(c)
  \/ \E k \in ProvKeys : GoesStale(k)
  \/ \E slug \in Slugs : CreateCoreRecord(slug)
  \/ \E a \in OrgAdmins : (\E n \in DOMAIN orgs : ReadOrg(a, n)) \/ WriteOrg(a)

ProvSpec == ProvInit /\ [][ProvNext]_provVars

-----------------------------------------------------------------------------
(* A request that ends COMPLETED names the Organization its own baseline       *)
(* transaction created, and no key ever creates two: crashes, stale claims run *)
(* again and requests competing for one organization key never adopt each      *)
(* other's work ("a slug can never adopt another request's work",              *)
(* provisioning/service.py _resume_pending).                                   *)
CompletedIsOwn ==
  /\ \A k \in ProvKeys : requests[k].status = "COMPLETED" =>
       requests[k].org \in DOMAIN orgs /\ orgs[requests[k].org].by = k
  /\ \A m, n \in DOMAIN orgs : (orgs[m].by # None /\ orgs[m].by = orgs[n].by) => m = n

(* ARCHIVED is final and the status moves along the life cycle only, although  *)
(* each operation decides on a status it read before its update.               *)
LifeCycleHolds ==
  [][\A n \in DOMAIN orgs :
       orgs'[n].status # orgs[n].status => <<orgs[n].status, orgs'[n].status>> \in OrgEdges
    ]_provVars

(* "The unique slug keeps any concurrent re-run safe" (provisioning/service.py *)
(* _resume_pending): once its calls are over, a request that reads FAILED      *)
(* provisioned nothing.  It does not hold: a stale claim run a second time     *)
(* while the first run commits meets its own slug and marks the completed      *)
(* request FAILED.                                                             *)
FailedProvisionedNothing ==
  \A k \in ProvKeys :
    (requests[k].status = "FAILED" /\ \A c \in ProvCalls : provCall[c].key # k)
      => requests[k].org = 0

ProvTypeOK ==
  /\ requests \in [ProvKeys -> ProvisioningRow]
  /\ orgs \in Seq(OrgRow)

(* The tables' own rules: one Organization per slug, whichever of the two ways *)
(* it was made; a request that is linked names an Organization that exists and *)
(* carries the slug it asked for; a version only grows.                        *)
SlugsUnique == \A m, n \in DOMAIN orgs : orgs[m].slug = orgs[n].slug => m = n
RequestRefers ==
  \A k \in ProvKeys : requests[k].org # 0 =>
    requests[k].org \in DOMAIN orgs /\ orgs[requests[k].org].slug = requests[k].slug
VersionGuard ==
  \A n \in DOMAIN orgs : orgs'[n] # orgs[n] => orgs'[n].version = orgs[n].version + 1

(* An Organization is provisioned once, for the request that asked for it, and *)
(* moves along its life cycle only.                                            *)
OrganizationsAreOwn ==
  /\ [](ProvTypeOK /\ CompletedIsOwn /\ SlugsUnique /\ RequestRefers)
  /\ LifeCycleHolds /\ [][VersionGuard]_provVars
=============================================================================
