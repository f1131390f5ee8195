----------------------------- MODULE SipRoutes -----------------------------
(***************************************************************************)
(* The SIP edge's control plane for inbound calls: the registry of a       *)
(* cell's SIP targets (TargetRegistry), the peers (PeerRegistry), the      *)
(* projection of numbers into the global locator (triggers of the          *)
(* sip_did_locator migration), and one-use inbound routes (InboundRouting) *)
(* with their dialogs.                                                     *)
(*                                                                         *)
(* One cell, one number, one peer.  An edge request reads the locator, the *)
(* placement and the peer in transactions of their own and presents what   *)
(* it read to the authorizing transaction.                                 *)
(***************************************************************************)
EXTENDS Integers, FiniteSets, Common

CONSTANTS Targets,         \* targets that can be registered
          Routes,          \* SIP transactions, one route each
          EdgeBoots,       \* boots of the edge
          RouteDialogs,
          MaxControl       \* control operations

VARIABLES targets,   \* cell_sip_targets: state by target
          head,      \* cell_sip_target_heads: revision, active target
          number,    \* telephony_phone_numbers and its account: what makes it routable
          locator,   \* sip_did_locators
          numberTx,  \* a number update in flight, holding the account row shared
          peer,      \* sip_peer_profiles
          placed,    \* the organization's placement
          edge,      \* what each request read before it is authorized
          routes,    \* sip_route_authorizations with their dialog binding
          issues,    \* relays granted per route
          sipControls

targetVars == <<targets, head>>
sourceVars == <<number, locator, numberTx>>
routeVars == <<edge, routes, issues>>
sipVars == <<targetVars, sourceVars, peer, placed, routeVars, sipControls>>

TargetStates == {"absent", "REGISTERED", "ACTIVE", "DRAINING", "RETIRED"}
HeadRow == [revision : Nat, active : Targets \cup {None}]
LocatorRow == [revision : Nat, active : BOOLEAN]
PeerRow == [revision : Nat, active : BOOLEAN]
RouteStates == {"none", "AUTHORIZED", "ISSUED", "ESTABLISHED", "ENDED", "FAILED", "AMBIGUOUS",
                "EXPIRED"}
RouteRow == [state : RouteStates, target : Targets \cup {None}, boot : EdgeBoots \cup {None},
             late : BOOLEAN, dialog : RouteDialogs \cup {None}]
NoRoute == [state |-> "none", target |-> None, boot |-> None, late |-> FALSE, dialog |-> None]
NoEdge == [at |-> "idle", boot |-> None, did |-> 0, peer |-> 0, gen |-> 0]

SipInit ==
  /\ targets = [t \in Targets |-> "absent"]
  /\ head = [revision |-> 0, active |-> None]
  /\ number = [verified |-> FALSE, account |-> TRUE]
  /\ locator = [revision |-> 1, active |-> FALSE]
  /\ numberTx = None
  /\ peer = [revision |-> 1, active |-> TRUE]
  /\ placed = [generation |-> 1, active |-> TRUE]
  /\ edge = [r \in Routes |-> NoEdge]
  /\ routes = [r \in Routes |-> NoRoute]
  /\ issues = [r \in Routes |-> 0]
  /\ sipControls = 0

Controlled == sipControls < MaxControl /\ sipControls' = sipControls + 1

-----------------------------------------------------------------------------
(* Targets.  Every mutation locks the cell, then compares the revision.     *)

RegisterTarget(t) ==
  /\ Controlled
  /\ targets[t] = "absent"
  /\ targets' = [targets EXCEPT ![t] = "REGISTERED"]
  /\ head' = [head EXCEPT !.revision = @ + 1]
  /\ UNCHANGED <<sourceVars, peer, placed, routeVars>>

\* The target that was active drains in the same transaction.
ActivateTarget(t) ==
  /\ Controlled
  /\ targets[t] = "REGISTERED"
  /\ head.active # None => targets[head.active] = "ACTIVE"
  /\ targets' = [u \in Targets |-> CASE u = t -> "ACTIVE"
                                     [] u = head.active -> "DRAINING"
                                     [] OTHER -> targets[u]]
  /\ head' = [revision |-> head.revision + 1, active |-> t]
  /\ UNCHANGED <<sourceVars, peer, placed, routeVars>>

DrainTarget(t) ==
  /\ Controlled
  /\ targets[t] = "ACTIVE" /\ head.active = t
  /\ targets' = [targets EXCEPT ![t] = "DRAINING"]
  /\ head' = [revision |-> head.revision + 1, active |-> None]
  /\ UNCHANGED <<sourceVars, peer, placed, routeVars>>

Bug_References(t) ==
  {r \in Routes : routes[r].target = t
                    /\ routes[r].state \in {"AUTHORIZED", "ISSUED", "ESTABLISHED"}}

\* sip_target_route_references: a route is referenced until it is known over.
References(t) ==
  {r \in Routes : routes[r].target = t
                    /\ routes[r].state \in {"AUTHORIZED", "ISSUED", "ESTABLISHED", "AMBIGUOUS"}}

\* nxs_sip_retirement_fence refuses a target with outstanding routes.
RetireTarget(t) ==
  /\ Controlled
  /\ targets[t] \in {"REGISTERED", "DRAINING"} /\ References(t) = {}
  /\ targets' = [targets EXCEPT ![t] = "RETIRED"]
  /\ head' = [head EXCEPT !.revision = @ + 1]
  /\ UNCHANGED <<sourceVars, peer, placed, routeVars>>

\* PeerRegistry.register of a new revision; suspend and resume of the placement.
ChangePeer(on) ==
  /\ Controlled
  /\ peer' = [revision |-> peer.revision + 1, active |-> on]
  /\ UNCHANGED <<targetVars, sourceVars, placed, routeVars>>

ChangePlacement ==
  /\ Controlled
  /\ placed' = [generation |-> placed.generation + 1, active |-> ~placed.active]
  /\ UNCHANGED <<targetVars, sourceVars, peer, routeVars>>

-----------------------------------------------------------------------------
(* The locator follows the number and its account by triggers.              *)

Routable(n) == n.verified /\ n.account

\* TelephonyPhoneNumberRepository.apply: the account is locked shared first ...
BeginNumberUpdate ==
  /\ Controlled /\ numberTx = None
  /\ numberTx' = IF number.account THEN "ACTIVE" ELSE "DISABLED"
  /\ UNCHANGED <<targetVars, number, locator, peer, placed, routeVars>>

\* ... then the number changes and nxs_sip_number_projection rewrites the
\* locator from the account state read under that lock.
FinishNumberUpdate ==
  /\ numberTx # None
  /\ number' = [number EXCEPT !.verified = ~@]
  /\ locator' = [revision |-> locator.revision + 1,
                 active |-> ~number.verified /\ numberTx = "ACTIVE"]
  /\ numberTx' = None
  /\ UNCHANGED <<targetVars, peer, placed, routeVars, sipControls>>

\* nxs_sip_account_projection: the account row exclusively, then its numbers.
SetSipAccount ==
  /\ Controlled /\ numberTx = None
  /\ number' = [number EXCEPT !.account = ~@]
  /\ locator' = [revision |-> locator.revision + 1, active |-> Routable(number')]
  /\ UNCHANGED <<targetVars, numberTx, peer, placed, routeVars>>

-----------------------------------------------------------------------------
(* An inbound INVITE: discover, then authorize, then issue, then the dialog.*)

\* discover, snapshot and resolve, before the authorizing transaction.
Discover(r, b) ==
  /\ edge[r].at = "idle"
  /\ locator.active /\ peer.active
  /\ edge' = [edge EXCEPT ![r] = [at |-> "found", boot |-> b, did |-> locator.revision,
                                  peer |-> peer.revision, gen |-> placed.generation]]
  /\ UNCHANGED <<targetVars, sourceVars, peer, placed, routes, issues, sipControls>>

\* revalidate_source, require_peer_revision and admit: nothing moved meanwhile.
StillCurrent(e) ==
  /\ locator.active /\ locator.revision = e.did /\ Routable(number)
  /\ peer.active /\ peer.revision = e.peer
  /\ placed.active /\ placed.generation = e.gen

\* nxs_sip_route_fence on insert: an ACTIVE target, a five second window.
AuthorizeRoute(r) ==
  /\ edge[r].at = "found"
  /\ edge' = [edge EXCEPT ![r] = NoEdge]
  /\ IF routes[r].state = "none" /\ StillCurrent(edge[r]) /\ head.active # None
        /\ targets[head.active] = "ACTIVE"
       THEN routes' = [routes EXCEPT ![r] = [NoRoute EXCEPT !.state = "AUTHORIZED",
                                               !.target = head.active, !.boot = edge[r].boot]]
       ELSE UNCHANGED routes
  /\ UNCHANGED <<targetVars, sourceVars, peer, placed, issues, sipControls>>

DeadlinePasses(r) ==
  /\ routes[r].state = "AUTHORIZED" /\ ~routes[r].late
  /\ routes' = [routes EXCEPT ![r].late = TRUE]
  /\ UNCHANGED <<targetVars, sourceVars, peer, placed, edge, issues, sipControls>>

\* _issue: only the boot that asked, once, within the window.
IssueRoute(r, b) ==
  /\ routes[r].boot = b /\ routes[r].state = "AUTHORIZED"
  /\ routes' = [routes EXCEPT ![r].state = IF routes[r].late THEN "EXPIRED" ELSE "ISSUED"]
  /\ issues' = IF routes[r].late THEN issues ELSE [issues EXCEPT ![r] = @ + 1]
  /\ UNCHANGED <<targetVars, sourceVars, peer, placed, edge, sipControls>>

DialogEdges == {<<"ISSUED", "ESTABLISHED">>, <<"ISSUED", "FAILED">>, <<"ISSUED", "AMBIGUOUS">>,
                <<"ESTABLISHED", "ENDED">>, <<"ESTABLISHED", "AMBIGUOUS">>}

\* record_dialog_result with nxs_sip_dialog_fence and nxs_sip_established_fence:
\* the dialog is bound when established, and only that dialog ends it.
RecordDialog(r, b, s, d) ==
  /\ routes[r].boot = b
  /\ <<routes[r].state, s>> \in DialogEdges
  /\ s = "ENDED" => routes[r].dialog = d
  /\ routes' = [routes EXCEPT ![r].state = s,
                              ![r].dialog = IF s = "ESTABLISHED" THEN d ELSE @]
  /\ UNCHANGED <<targetVars, sourceVars, peer, placed, edge, issues, sipControls>>

-----------------------------------------------------------------------------
SipNext ==
  \/ \E t \in Targets : RegisterTarget(t) \/ ActivateTarget(t) \/ DrainTarget(t) \/ RetireTarget(t)
  \/ \E on \in BOOLEAN : ChangePeer(on)
  \/ ChangePlacement
  \/ BeginNumberUpdate \/ FinishNumberUpdate \/ SetSipAccount
  \/ \E r \in Routes :
       \/ AuthorizeRoute(r) \/ DeadlinePasses(r)
       \/ \E b \in EdgeBoots :
            \/ Discover(r, b) \/ IssueRoute(r, b)
            \/ \E s \in RouteStates, d \in RouteDialogs : RecordDialog(r, b, s, d)

SipSpec == SipInit /\ [][SipNext]_sipVars

-----------------------------------------------------------------------------
\* The head names the cell's one active target and nothing else does: an
\* activation drains the previous target in the same transaction
\* (uq_cell_sip_target_active, cell_sip_target_heads).
HeadIsActive == \A t \in Targets : targets[t] = "ACTIVE" <=> head.active = t

\* Retiring a target never strands a call: no route that was authorized, issued,
\* established or left ambiguous points at a retired target, and a route is
\* relayed at most once, by the boot it was authorized for.
NoRouteToRetired ==
  \A r \in Routes :
    /\ issues[r] <= 1
    /\ issues[r] = 0 => routes[r].state \in {"none", "AUTHORIZED", "EXPIRED"}
    /\ routes[r].state \in {"AUTHORIZED", "ISSUED", "ESTABLISHED", "AMBIGUOUS"} =>
         routes[r].target \in Targets /\ targets[routes[r].target] \in {"ACTIVE", "DRAINING"}

\* Between transactions the locator says exactly whether the number can be
\* routed, whichever of the number and its account changed last.
LocatorAgrees == locator.active = Routable(number)

\* What the tables and their triggers demand: at most one active target, which the
\* head can name; a route that names its target and its boot; a dialog binding for
\* every established call; and revisions that move by one.
SipTypeOK ==
  /\ targets \in [Targets -> TargetStates] /\ head \in HeadRow
  /\ locator \in LocatorRow /\ peer \in PeerRow
  /\ routes \in [Routes -> RouteRow]
OneActiveTarget == \A t, u \in Targets : targets[t] = "ACTIVE" /\ targets[u] = "ACTIVE" => t = u
HeadRefers == head.active # None => targets[head.active] # "absent"
RouteRefers ==
  \A r \in Routes : routes[r].state # "none" =>
    /\ routes[r].boot # None /\ routes[r].target # None
    /\ targets[routes[r].target] # "absent"
EstablishedFence ==
  \A r \in Routes : routes[r].state \in {"ESTABLISHED", "ENDED"} => routes[r].dialog # None

TargetEdges == {<<"absent", "REGISTERED">>, <<"REGISTERED", "ACTIVE">>, <<"REGISTERED", "RETIRED">>,
                <<"ACTIVE", "DRAINING">>, <<"DRAINING", "RETIRED">>}
TargetFence ==
  \A t \in Targets : targets'[t] # targets[t] => <<targets[t], targets'[t]>> \in TargetEdges
HeadFence == head' # head => head'.revision = head.revision + 1
LocatorFence ==
  locator' # locator => /\ locator'.revision = locator.revision + 1
                        /\ locator'.active = Routable(number')
PeerFence == peer' # peer => peer'.revision = peer.revision + 1
RouteFence ==
  \A r \in Routes : routes'[r].state # routes[r].state =>
    /\ routes[r].state # "none" => /\ routes'[r].target = routes[r].target
                                   /\ routes'[r].boot = routes[r].boot
    /\ \/ <<routes[r].state, routes'[r].state>> \in DialogEdges
       \/ /\ routes[r].state = "none" /\ routes'[r].state = "AUTHORIZED"
          /\ targets[routes'[r].target] = "ACTIVE"
       \/ /\ routes[r].state = "AUTHORIZED"
          /\ routes'[r].state = IF routes[r].late THEN "EXPIRED" ELSE "ISSUED"
BindingFence ==
  \A r \in Routes : routes'[r].dialog # routes[r].dialog =>
    routes[r].dialog = None /\ routes[r].state = "ISSUED"

\* What the edge is told is current: one active target, no call at a retired one,
\* the locator in step with the number, and no write the tables would refuse.
RoutingIsCurrent ==
  /\ [](SipTypeOK /\ HeadIsActive /\ NoRouteToRetired /\ LocatorAgrees
         /\ OneActiveTarget /\ HeadRefers /\ RouteRefers /\ EstablishedFence)
  /\ [][TargetFence /\ HeadFence /\ LocatorFence /\ PeerFence /\ RouteFence /\ BindingFence]_sipVars
============================================================================
