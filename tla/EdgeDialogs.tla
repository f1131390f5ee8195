----------------------------- MODULE EdgeDialogs -----------------------------
(***************************************************************************)
(* The SIP edge process (infrastructure/kamailio/edge.py): admission of    *)
(* new dialogs against the shared bounds, the dialog table and the replies *)
(* that end a dialog.                                                      *)
(*                                                                         *)
(* Kamailio runs several worker processes over shared hash tables.  A lock *)
(* protects each single table operation and nothing wider, so a worker's   *)
(* route is a sequence of steps: reserve a dialog slot, ask the resolver   *)
(* (once outbound, twice inbound), take the dialog identity, relay.  The   *)
(* resolver grants each route or permit one initial relay (SipRoutes,      *)
(* Telephony).  Parsing, pinning of peers and header checks refuse before  *)
(* a slot is taken and are left out.                                       *)
(***************************************************************************)
EXTENDS Naturals, FiniteSets, Common

CONSTANTS EdgeWorkers,     \* worker processes
          DialogKeys,      \* (Call-ID, From tag) pairs
          Grants,          \* routes and permits, each granted once
          DialogLimit,     \* limits.dialogs
          PendingLimit,    \* limits.pending_resolvers
          MaxCSeq,         \* bound on the sequence numbers
          MaxEdgeLosses    \* bound on lost reports, silent peers and failed relays

VARIABLES slots,      \* nxs_bounds["dialogs"]
          pending,    \* nxs_bounds["pending"]
          table,      \* nxs_dialogs: key -> owner and last sequence numbers
          dialogs,    \* grant -> the dialog relayed for it
          edgeWorker, \* worker -> its state
          edgeLosses

edgeVars == <<slots, pending, table, dialogs, edgeWorker, edgeLosses>>

Directions == {"forward", "reverse"}
FreeEntry == [owner |-> None, seq |-> [d \in Directions |-> 0]]
NoDialog == [state |-> "unused", key |-> None]
IdleEdge == [pc |-> "idle", key |-> None, grant |-> None]

EdgeInit ==
  /\ slots = 0
  /\ pending = 0
  /\ table = [k \in DialogKeys |-> FreeEntry]
  /\ dialogs = [o \in Grants |-> NoDialog]
  /\ edgeWorker = [w \in EdgeWorkers |-> IdleEdge]
  /\ edgeLosses = 0

EdgeGoto(w, pc) == edgeWorker' = [edgeWorker EXCEPT ![w].pc = pc]
EdgeEnds(w) == edgeWorker' = [edgeWorker EXCEPT ![w] = IdleEdge]
Less(n) == IF n = 0 THEN 0 ELSE n - 1
Loses == edgeLosses < MaxEdgeLosses /\ edgeLosses' = edgeLosses + 1

-----------------------------------------------------------------------------
(* A new INVITE *)

ReserveDialog(w, k) ==
  /\ edgeWorker[w].pc = "idle"
  /\ slots < DialogLimit
  /\ slots' = slots + 1
  /\ edgeWorker' = [edgeWorker EXCEPT ![w] = [pc |-> "reserved", key |-> k, grant |-> None]]
  /\ UNCHANGED <<pending, table, dialogs, edgeLosses>>

\* The denial, and the finally of ksr_request_route that gives the slot back.
Deny(w) == slots' = Less(slots) /\ EdgeEnds(w)

\* resolver: no capacity is an exception, answered 503.
AskResolver(w) ==
  /\ edgeWorker[w].pc \in {"reserved", "issue"}
  /\ \/ /\ pending < PendingLimit
        /\ pending' = pending + 1
        /\ EdgeGoto(w, IF edgeWorker[w].pc = "issue" THEN "issuing" ELSE "asking")
        /\ UNCHANGED slots
     \/ pending >= PendingLimit /\ Deny(w) /\ UNCHANGED pending
  /\ UNCHANGED <<table, dialogs, edgeLosses>>

\* The decision: outbound it carries the relay grant, inbound the grant is a
\* second request.  A refusal, a timeout or a repeated grant denies.
ResolverAnswers(w) ==
  /\ edgeWorker[w].pc \in {"asking", "issuing"}
  /\ pending' = Less(pending)
  /\ \/ /\ edgeWorker[w].pc = "asking"
        /\ EdgeGoto(w, "issue") /\ UNCHANGED <<slots, dialogs>>
     \/ \E o \in Grants :
          /\ dialogs[o].state = "unused"
          /\ dialogs' = [dialogs EXCEPT ![o] = [state |-> "granted", key |-> edgeWorker[w].key]]
          /\ edgeWorker' = [edgeWorker EXCEPT ![w].pc = "granted", ![w].grant = o]
          /\ UNCHANGED slots
     \/ Deny(w) /\ UNCHANGED dialogs
  /\ UNCHANGED <<table, edgeLosses>>

\* The dialog identity is taken under the lock of its entry.
OwnDialog(w) ==
  LET e == edgeWorker[w] IN
  /\ e.pc = "granted"
  /\ \/ /\ table[e.key].owner = None
        /\ \E n \in 1..MaxCSeq :
             table' = [table EXCEPT ![e.key] = [owner |-> e.grant,
                                                seq |-> [FreeEntry.seq EXCEPT !["forward"] = n]]]
        /\ EdgeGoto(w, "owned")
        /\ UNCHANGED <<slots, dialogs>>
     \/ /\ table[e.key].owner # None
        /\ dialogs' = [dialogs EXCEPT ![e.grant].state = "refused"]
        /\ Deny(w) /\ UNCHANGED table
  /\ UNCHANGED <<pending, edgeLosses>>

\* t_relay.  When it fails the slot is given back and the entry stays.
Relay(w) ==
  LET o == edgeWorker[w].grant IN
  /\ edgeWorker[w].pc = "owned"
  /\ \/ /\ dialogs' = [dialogs EXCEPT ![o].state = "live"]
        /\ EdgeEnds(w) /\ UNCHANGED <<slots, edgeLosses>>
     \/ /\ Loses
        /\ dialogs' = [dialogs EXCEPT ![o].state = "refused"]
        /\ Deny(w)
  /\ UNCHANGED <<pending, table>>

-----------------------------------------------------------------------------
(* Inside a dialog *)

\* validate_dialog_sequence: a request other than ACK (which changes nothing)
\* carries a higher number than the last one of its direction.
SequenceValid(o, d, n) ==
  LET e == table[dialogs[o].key] IN e.owner = o /\ n > e.seq[d]

InDialog(o, d, n) ==
  LET k == dialogs[o].key IN
  /\ dialogs[o].state = "live"
  /\ SequenceValid(o, d, n)
  /\ table' = [table EXCEPT ![k].seq[d] = n]
  /\ UNCHANGED <<slots, pending, dialogs, edgeWorker, edgeLosses>>

\* ksr_route_reply: a reply ends the dialog (BYE answered, or the initial INVITE
\* refused).  The result is reported first; when the report fails the handler
\* is left and finish_dialog does not run.  A reply may be repeated.
FinalReply(w, o) ==
  /\ edgeWorker[w].pc = "idle"
  /\ dialogs[o].state \in {"live", "over"}
  /\ dialogs' = [dialogs EXCEPT ![o].state = "over"]
  /\ \/ /\ pending < PendingLimit
        /\ edgeWorker' = [edgeWorker EXCEPT ![w] = [pc |-> "finish", key |-> dialogs[o].key,
                                                    grant |-> o]]
        /\ UNCHANGED edgeLosses
     \/ Loses /\ UNCHANGED edgeWorker
  /\ UNCHANGED <<slots, pending, table>>

\* No reply that ends the dialog ever comes (a timeout, a BYE refused).
DialogVanishes(o) ==
  /\ dialogs[o].state = "live"
  /\ Loses
  /\ dialogs' = [dialogs EXCEPT ![o].state = "silent"]
  /\ UNCHANGED <<slots, pending, table, edgeWorker>>

Bug_OwnsEntry(w) == table[edgeWorker[w].key].owner # None
OwnsEntry(w) == table[edgeWorker[w].key].owner = edgeWorker[w].grant

\* finish_dialog: only the owner of the entry removes it and releases the slot.
FinishDialog(w) ==
  /\ edgeWorker[w].pc = "finish"
  /\ \/ OwnsEntry(w) /\ table' = [table EXCEPT ![edgeWorker[w].key] = FreeEntry] /\ EdgeGoto(w, "release")
     \/ ~OwnsEntry(w) /\ EdgeEnds(w) /\ UNCHANGED table
  /\ UNCHANGED <<slots, pending, dialogs, edgeLosses>>

ReleaseDialog(w) ==
  /\ edgeWorker[w].pc = "release"
  /\ slots' = Less(slots)
  /\ EdgeEnds(w)
  /\ UNCHANGED <<pending, table, dialogs, edgeLosses>>

-----------------------------------------------------------------------------
EdgeNext ==
  \/ \E w \in EdgeWorkers :
       \/ \E k \in DialogKeys : ReserveDialog(w, k)
       \/ AskResolver(w) \/ ResolverAnswers(w) \/ OwnDialog(w) \/ Relay(w)
       \/ \E o \in Grants : FinalReply(w, o)
       \/ FinishDialog(w) \/ ReleaseDialog(w)
  \/ \E o \in Grants : \/ DialogVanishes(o)
                       \/ \E d \in Directions, n \in 1..MaxCSeq : InDialog(o, d, n)

EdgeSpec == EdgeInit /\ [][EdgeNext]_edgeVars

-----------------------------------------------------------------------------
(* Every reserved slot belongs to a request on its way in, to the table entry  *)
(* of a dialog that was relayed, or to one being released, and every dialog    *)
(* that is up has its entry.  So no more dialogs are up than limits.dialogs    *)
(* allows, with repeated replies and reused dialog identities included         *)
(* (edge.py reserve, release, finish_dialog).                                  *)
SlotsAccounted ==
  LET entering == {w \in EdgeWorkers :
                     edgeWorker[w].pc \in {"reserved", "asking", "issue", "issuing", "granted",
                                           "owned"}}
      releasing == {w \in EdgeWorkers : edgeWorker[w].pc = "release"}
      held == {k \in DialogKeys : \E o \in Grants :
                 table[k].owner = o /\ dialogs[o].state \in {"live", "over", "silent"}}
  IN
  /\ slots = Cardinality(entering) + Cardinality(held) + Cardinality(releasing)
  /\ \A o \in Grants : dialogs[o].state = "live" => table[dialogs[o].key].owner = o
=============================================================================
