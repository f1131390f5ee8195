----------------------------- MODULE Customers -----------------------------
(***************************************************************************)
(* Customers, their channel identities and their conversations             *)
(* (nexus_ai/domain/customers/service.py and repository.py).  The services *)
(* read first and insert afterwards, and leave the race to the unique      *)
(* constraints: the loser of an insert rolls back everything it wrote and  *)
(* re-reads the winner in a new transaction.  A customer is named by the   *)
(* request that creates it.  A read and the insert that trusts it are two  *)
(* steps, because READ COMMITTED lets other requests commit in between.    *)
(* Requests refused without a write change nothing and are left out.       *)
(***************************************************************************)
EXTENDS Integers, FiniteSets, Common

CONSTANTS CustCalls,   \* requests
          Identities,  \* canonical (type, normalized value) pairs
          Threads,     \* external thread keys
          MaxVersions  \* bound on a conversation's version

VARIABLES customers, owner, verification, conversation, timeline, custCall

custVars == <<customers, owner, verification, conversation, timeline, custCall>>

VerificationStates == {"UNVERIFIED", "VERIFIED", "REVOKED"}

ConversationRow == [status: {"PENDING", "OPEN", "CLOSED"}, version: 1..MaxVersions,
                    customer: CustCalls \union {None}]

NoConversation == [status |-> "absent", version |-> 0, customer |-> None]

\* The dedup key of a timeline activity: what happened, to which conversation,
\* at which version.
ActivityKey == {"conversations.opened", "conversations.closed"} \X Threads \X (1..MaxVersions)

ConversationEdges ==
  {<<"PENDING", "OPEN">>, <<"PENDING", "CLOSED">>, <<"OPEN", "CLOSED">>, <<"CLOSED", "OPEN">>}

IdleCall == [pc |-> "idle", op |-> None, on |-> None, named |-> None,
             status |-> None, version |-> 0, got |-> None]

CustInit ==
  /\ customers = {}
  /\ owner = [i \in Identities |-> None]
  /\ verification = [i \in Identities |-> "UNVERIFIED"]
  /\ conversation = [t \in Threads |-> NoConversation]
  /\ timeline = {}
  /\ custCall = [c \in CustCalls |-> IdleCall]

At(c, op, pc) == custCall[c].op = op /\ custCall[c].pc = pc

CallGoto(c, pc) == custCall' = [custCall EXCEPT ![c].pc = pc]

CallGets(c, got) == custCall' = [custCall EXCEPT ![c].pc = "done", ![c].got = got]

CallFails(c, how) == custCall' = [custCall EXCEPT ![c].pc = how]

CallBegins(c, op, on, named, pc) ==
  /\ custCall[c] = IdleCall
  /\ custCall' = [custCall EXCEPT ![c] =
       [IdleCall EXCEPT !.pc = pc, !.op = op, !.on = on, !.named = named]]

-----------------------------------------------------------------------------
(* Resolving or creating a customer. *)

ResolveIdentity(i) == owner[i]

\* The first read: an owner ends the request, no owner leads to the insert.
BeginResolve(c, i) ==
  /\ custCall[c] = IdleCall
  /\ custCall' = [custCall EXCEPT ![c] =
       [IdleCall EXCEPT !.op = "resolve", !.on = i, !.got = ResolveIdentity(i),
                        !.pc = IF ResolveIdentity(i) = None THEN "insert" ELSE "done"]]
  /\ UNCHANGED <<customers, owner, verification, conversation, timeline>>

Bug_InsertCustomer(c) ==
  /\ At(c, "resolve", "insert")
  /\ LET i == custCall[c].on IN
       /\ customers' = customers \union {c}
       /\ IF owner[i] = None
          THEN owner' = [owner EXCEPT ![i] = c] /\ CallGets(c, c)
          ELSE CallGoto(c, "converge") /\ UNCHANGED owner
  /\ UNCHANGED <<verification, conversation, timeline>>

\* The customer, its primary identity, the two activities and the event commit
\* together, or the unique identity is taken and all of it is rolled back.
InsertCustomer(c) ==
  /\ At(c, "resolve", "insert")
  /\ LET i == custCall[c].on IN
       IF owner[i] = None
       THEN /\ customers' = customers \union {c}
            /\ owner' = [owner EXCEPT ![i] = c]
            /\ CallGets(c, c)
       ELSE CallGoto(c, "converge") /\ UNCHANGED <<customers, owner>>
  /\ UNCHANGED <<verification, conversation, timeline>>

ConvergeOnOwner(c) ==
  /\ At(c, "resolve", "converge")
  /\ CallGets(c, ResolveIdentity(custCall[c].on))
  /\ UNCHANGED <<customers, owner, verification, conversation, timeline>>

-----------------------------------------------------------------------------
(* Linking another identity to a customer, and the verification seam. *)

BeginLink(c, i, k) ==
  /\ k \in customers
  /\ ResolveIdentity(i) = None
  /\ CallBegins(c, "link", i, k, "insert")
  /\ UNCHANGED <<customers, owner, verification, conversation, timeline>>

\* An identity owned by anybody else is refused, found before or after the race.
LinkIdentity(c) ==
  /\ At(c, "link", "insert")
  /\ LET i == custCall[c].on IN
       IF owner[i] = None
       THEN owner' = [owner EXCEPT ![i] = custCall[c].named] /\ CallGets(c, custCall[c].named)
       ELSE /\ UNCHANGED owner
            /\ IF owner[i] = custCall[c].named
               THEN CallGets(c, owner[i]) ELSE CallFails(c, "conflict")
  /\ UNCHANGED <<customers, verification, conversation, timeline>>

SetVerification(i, s) ==
  /\ owner[i] # None
  /\ verification' = [verification EXCEPT ![i] = s]
  /\ UNCHANGED <<customers, owner, conversation, timeline, custCall>>

-----------------------------------------------------------------------------
(* Conversations. *)

ByExternalKey(t) == conversation[t]

\* A caller that names no customer accepts the thread's; one that names another
\* is refused.
Compatible(row, named) == named = None \/ row.customer = named

BeginOpen(c, t, k) ==
  /\ k \in customers \union {None}
  /\ CallBegins(c, "open", t, k,
       IF ByExternalKey(t) = NoConversation THEN "insert" ELSE "match")
  /\ UNCHANGED <<customers, owner, verification, conversation, timeline>>

InsertConversation(c) ==
  /\ At(c, "open", "insert")
  /\ LET t == custCall[c].on IN
       IF conversation[t] = NoConversation
       THEN /\ conversation' = [conversation EXCEPT ![t] =
                 [status |-> "PENDING", version |-> 1, customer |-> custCall[c].named]]
            /\ CallGets(c, custCall[c].named)
       ELSE CallGoto(c, "match") /\ UNCHANGED conversation
  /\ UNCHANGED <<customers, owner, verification, timeline>>

MatchThread(c) ==
  /\ At(c, "open", "match")
  /\ LET row == ByExternalKey(custCall[c].on) IN
       IF Compatible(row, custCall[c].named)
       THEN CallGets(c, row.customer) ELSE CallFails(c, "conflict")
  /\ UNCHANGED <<customers, owner, verification, conversation, timeline>>

\* close and reopen read the row without a lock.
BeginMove(c, t, target) ==
  /\ custCall[c] = IdleCall
  /\ <<conversation[t].status, target>> \in ConversationEdges
  /\ conversation[t].version < MaxVersions
  /\ custCall' = [custCall EXCEPT ![c] =
       [IdleCall EXCEPT !.op = target, !.on = t, !.pc = "write",
                        !.status = conversation[t].status,
                        !.version = conversation[t].version]]
  /\ UNCHANGED <<customers, owner, verification, conversation, timeline>>

MoveKey(c) ==
  <<IF custCall[c].op = "CLOSED" THEN "conversations.closed" ELSE "conversations.opened",
    custCall[c].on, custCall[c].version + 1>>

\* The update writes the version it read plus one, whatever the row says now.  A
\* taken dedup key fails the flush: the session is unusable from there on, and
\* the event that follows raises.
MoveConversation(c) ==
  /\ custCall[c].op \in {"OPEN", "CLOSED"} /\ custCall[c].pc = "write"
  /\ IF MoveKey(c) \in timeline
     THEN CallFails(c, "raised") /\ UNCHANGED <<conversation, timeline>>
     ELSE /\ conversation' = [conversation EXCEPT
               ![custCall[c].on].status = custCall[c].op,
               ![custCall[c].on].version = custCall[c].version + 1]
          /\ timeline' = timeline \union {MoveKey(c)}
          /\ CallGoto(c, "done")
  /\ UNCHANGED <<customers, owner, verification>>

CallStep(c) ==
  \/ \E i \in Identities : BeginResolve(c, i)
  \/ InsertCustomer(c)
  \/ ConvergeOnOwner(c)
  \/ \E i \in Identities : \E k \in customers : BeginLink(c, i, k)
  \/ LinkIdentity(c)
  \/ \E t \in Threads : \E k \in customers \union {None} : BeginOpen(c, t, k)
  \/ InsertConversation(c)
  \/ MatchThread(c)
  \/ \E t \in Threads, s \in {"OPEN", "CLOSED"} : BeginMove(c, t, s)
  \/ MoveConversation(c)

CustNext ==
  \/ \E c \in CustCalls : CallStep(c)
  \/ \E i \in Identities, s \in VerificationStates : SetVerification(i, s)

CustSpec == CustInit /\ [][CustNext]_custVars

-----------------------------------------------------------------------------
(* The rows, and what the tables demand of them. *)

CustTypeOK ==
  /\ customers \subseteq CustCalls
  /\ verification \in [Identities -> VerificationStates]
  /\ conversation \in [Threads -> ConversationRow \union {NoConversation}]
  /\ timeline \subseteq ActivityKey

IdentityRefers == \A i \in Identities : owner[i] \in customers \union {None}

ConversationRefers == \A t \in Threads : conversation[t].customer \in customers \union {None}

ActivityRefers == \A a \in timeline : conversation[a[2]].status # "absent"

-----------------------------------------------------------------------------
(* Properties. *)

\* Every customer owns an identity, so a lost race leaves no orphan; every
\* request that resolved an identity holds its one owner; and every request that
\* opened a thread holds the customer the thread resolves to (resolve_or_create,
\* link_identity, open_or_resolve).  The rows refer to rows that exist.
CallersConverge ==
  /\ CustTypeOK /\ IdentityRefers /\ ConversationRefers /\ ActivityRefers
  /\ \A k \in customers : \E i \in Identities : owner[i] = k
  /\ \A c \in CustCalls : custCall[c].pc = "done" =>
       /\ custCall[c].op = "resolve" => custCall[c].got = owner[custCall[c].on]
       /\ custCall[c].op = "open" => custCall[c].got = conversation[custCall[c].on].customer

\* What the services say of closing a conversation: a repeated close is no error
\* ("Idempotent close"), and an activity recorded before is a success.
\* The code does not keep it (README, Divergences).
CloseIsIdempotent == \A c \in CustCalls : custCall[c].pc # "raised"
=============================================================================
