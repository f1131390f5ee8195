------------------------------- MODULE Access -------------------------------
(***************************************************************************)
(* Authentication and membership in one Organization (domain/auth).        *)
(*                                                                         *)
(* A session row holds the hash of its current refresh token and of the    *)
(* one before it.  The token of generation g is <<s, g>>: it is current    *)
(* when g is the row's generation and previous when g is one less.  Access *)
(* tokens carry the session; every request revalidates the live state.     *)
(*                                                                         *)
(* A login is three transactions, a refresh one transaction whose          *)
(* statements interleave with the others' (READ COMMITTED), a request four *)
(* reads, a membership operation a permission check and then a change in   *)
(* another transaction.  A call refused before it writes leaves no trace.  *)
(* Password checks and key material are left out.                          *)
(***************************************************************************)
EXTENDS Naturals, Sequences, FiniteSets, Common

CONSTANTS Users,
          Manager,         \* the user who holds a managing role at the start
          AuthCalls,       \* concurrent requests
          MaxSessions,     \* bound on session rows
          MaxRotations,    \* bound on the generation of a session
          MaxAuthChanges   \* bound on administrative changes

VARIABLES user,        \* user -> "ACTIVE" | "SUSPENDED"
          membership,  \* user -> none | "ACTIVE" | "SUSPENDED" | "REVOKED"
          roles,       \* the users holding an active managing role assignment
          operational, \* the Organization accepts normal operations
          sessions,    \* the refresh sessions, in creation order
          authCall,    \* call -> its state
          passed,      \* history: token -> refreshes that saw it current and live
          rotated,     \* history: token -> successors issued for it
          lockedIn,    \* history: something was granted to a call begun after revocation
          authChanges

accountVars == <<user, membership, roles, operational>>
historyVars == <<passed, rotated, lockedIn>>
accessVars == <<user, membership, roles, operational, sessions, authCall, passed, rotated,
                lockedIn, authChanges>>

UserStates == {"ACTIVE", "SUSPENDED"}
MembershipStates == {None, "ACTIVE", "SUSPENDED", "REVOKED"}
SessionRecord == [user: Users, generation: 1..MaxRotations, revoked: BOOLEAN, expired: BOOLEAN]
Tokens == (1..MaxSessions) \X (1..MaxRotations)
IdleAuth == [pc |-> "idle", user |-> None, token |-> <<0, 0>>, late |-> FALSE]

AccessInit ==
  /\ user = [u \in Users |-> "ACTIVE"]
  /\ membership = [u \in Users |-> IF u = Manager THEN "ACTIVE" ELSE None]
  /\ roles = {Manager}
  /\ operational = TRUE
  /\ sessions = <<>>
  /\ authCall = [c \in AuthCalls |-> IdleAuth]
  /\ passed = [t \in Tokens |-> 0]
  /\ rotated = [t \in Tokens |-> 0]
  /\ lockedIn = FALSE
  /\ authChanges = 0

AuthGoto(c, pc) == authCall' = [authCall EXCEPT ![c].pc = pc]
AuthEnds(c) == authCall' = [authCall EXCEPT ![c] = IdleAuth]
AuthBegins(c, pc, u, t) ==
  /\ authCall[c].pc = "idle"
  /\ authCall' = [authCall EXCEPT ![c] =
       [pc |-> pc, user |-> u, token |-> t,
        late |-> t[1] \in DOMAIN sessions /\ sessions[t[1]].revoked]]
\* Every token that was issued: the row's generations up to the current one.
Issued == {t \in Tokens : t[1] \in DOMAIN sessions /\ t[2] <= sessions[t[1]].generation}
RevokeSession(s) == sessions' = [sessions EXCEPT ![s].revoked = TRUE]

-----------------------------------------------------------------------------
(* Login *)

\* The credentials are right and the user is active.
AuthenticateUser(c, u) ==
  /\ user[u] = "ACTIVE"
  /\ AuthBegins(c, "authenticated", u, <<0, 0>>)
  /\ UNCHANGED <<accountVars, sessions, historyVars, authChanges>>

SelectOrganization(c) ==
  /\ authCall[c].pc = "authenticated"
  /\ \/ membership[authCall[c].user] = "ACTIVE" /\ AuthGoto(c, "selected")
     \/ membership[authCall[c].user] # "ACTIVE" /\ AuthEnds(c)
  /\ UNCHANGED <<accountVars, sessions, historyVars, authChanges>>

\* The Organization and the membership are read again before the session exists.
EstablishSession(c) ==
  LET u == authCall[c].user IN
  /\ authCall[c].pc = "selected"
  /\ \/ /\ operational /\ membership[u] = "ACTIVE" /\ Len(sessions) < MaxSessions
        /\ sessions' = Append(sessions, [user |-> u, generation |-> 1, revoked |-> FALSE,
                                         expired |-> FALSE])
     \/ /\ ~operational \/ membership[u] # "ACTIVE"
        /\ UNCHANGED sessions
  /\ AuthEnds(c)
  /\ UNCHANGED <<accountVars, historyVars, authChanges>>

-----------------------------------------------------------------------------
(* Refresh *)

BeginRefresh(c, t) ==
  /\ t \in Issued
  /\ AuthBegins(c, "refresh", None, t)
  /\ UNCHANGED <<accountVars, sessions, historyVars, authChanges>>

\* by_token_hash, with the tests of the row it returned.
LookupCurrent(c) ==
  LET t == authCall[c].token
      row == sessions[t[1]]
  IN
  /\ authCall[c].pc = "refresh"
  /\ \/ row.generation # t[2] /\ AuthGoto(c, "previous")
     \/ row.generation = t[2] /\ (row.revoked \/ row.expired) /\ AuthEnds(c)
     \/ row.generation = t[2] /\ ~row.revoked /\ ~row.expired /\ AuthGoto(c, "found")
  /\ UNCHANGED <<accountVars, sessions, historyVars, authChanges>>

\* by_previous_token_hash: a token already rotated revokes the family, and the
\* revocation commits before the error is raised.
LookupPrevious(c) ==
  LET t == authCall[c].token IN
  /\ authCall[c].pc = "previous"
  /\ IF sessions[t[1]].generation = t[2] + 1 THEN RevokeSession(t[1]) ELSE UNCHANGED sessions
  /\ AuthEnds(c)
  /\ UNCHANGED <<accountVars, historyVars, authChanges>>

\* The user and the membership behind the row.
CheckHolder(c) ==
  LET t == authCall[c].token
      u == sessions[t[1]].user
  IN
  /\ authCall[c].pc = "found"
  /\ \/ user[u] # "ACTIVE" /\ RevokeSession(t[1]) /\ AuthEnds(c) /\ UNCHANGED passed
     \/ /\ user[u] = "ACTIVE" /\ membership[u] # "ACTIVE"
        /\ AuthEnds(c) /\ UNCHANGED <<sessions, passed>>
     \/ /\ user[u] = "ACTIVE" /\ membership[u] = "ACTIVE"
        /\ AuthGoto(c, "rotate")
        /\ passed' = [passed EXCEPT ![t] = @ + 1]
        /\ UNCHANGED sessions
  /\ UNCHANGED <<accountVars, rotated, lockedIn, authChanges>>

Bug_Rotates(t) == ~sessions[t[1]].revoked
\* The conditional update matches the row.
Rotates(t) == sessions[t[1]].generation = t[2] /\ ~sessions[t[1]].revoked

Rotate(c) ==
  LET t == authCall[c].token IN
  /\ authCall[c].pc = "rotate"
  /\ \/ /\ Rotates(t) /\ sessions[t[1]].generation < MaxRotations
        /\ sessions' = [sessions EXCEPT ![t[1]].generation = @ + 1]
        /\ rotated' = [rotated EXCEPT ![t] = @ + 1]
        /\ lockedIn' = (lockedIn \/ authCall[c].late)
     \/ /\ ~Rotates(t)
        /\ RevokeSession(t[1])
        /\ UNCHANGED <<rotated, lockedIn>>
  /\ AuthEnds(c)
  /\ UNCHANGED <<accountVars, passed, authChanges>>

\* logout: by the current hash or the previous one.
Logout(t) ==
  /\ t \in Issued
  /\ sessions[t[1]].generation \in {t[2], t[2] + 1}
  /\ ~sessions[t[1]].revoked
  /\ RevokeSession(t[1])
  /\ UNCHANGED <<accountVars, authCall, historyVars, authChanges>>

-----------------------------------------------------------------------------
(* Requests *)

BeginRequest(c, s) ==
  /\ AuthBegins(c, "session", sessions[s].user, <<s, sessions[s].generation>>)
  /\ UNCHANGED <<accountVars, sessions, historyVars, authChanges>>

SessionValid(s) == ~sessions[s].revoked /\ ~sessions[s].expired

\* require_valid_in: one statement after the other, the first bad one refuses.
RequireValid(c) ==
  LET a == authCall[c]
      Reads(pc, ok, next) == a.pc = pc /\ IF ok THEN AuthGoto(c, next) ELSE AuthEnds(c)
  IN
  /\ \/ Reads("session", SessionValid(a.token[1]), "user")
     \/ Reads("user", user[a.user] = "ACTIVE", "membership")
     \/ Reads("membership", membership[a.user] = "ACTIVE", "organization")
     \/ Reads("organization", operational, "admitted")
  /\ UNCHANGED <<accountVars, sessions, historyVars, authChanges>>

\* The handler runs with the tenant scope it was given.
Admitted(c) ==
  /\ authCall[c].pc = "admitted"
  /\ lockedIn' = (lockedIn \/ authCall[c].late)
  /\ AuthEnds(c)
  /\ UNCHANGED <<accountVars, sessions, passed, rotated, authChanges>>

-----------------------------------------------------------------------------
(* Administration *)

Changes == authChanges < MaxAuthChanges /\ authChanges' = authChanges + 1

\* _require_manage, in a transaction of its own.  The catalogue reads role
\* assignments only: an actor's own membership is tested at the API.
RequireManage(c, u) ==
  /\ u \in roles
  /\ AuthBegins(c, "manage", u, <<0, 0>>)
  /\ UNCHANGED <<accountVars, sessions, historyVars, authChanges>>

\* create: the check, the membership and its first role in one transaction.
CreateMembership(u, managing) ==
  /\ roles # {} /\ membership[u] = None
  /\ Changes
  /\ membership' = [membership EXCEPT ![u] = "ACTIVE"]
  /\ roles' = IF managing THEN roles \union {u} ELSE roles
  /\ UNCHANGED <<user, operational, sessions, authCall, historyVars>>

\* suspend, revoke and restore.
SetMembership(c, u, status) ==
  /\ authCall[c].pc = "manage" /\ membership[u] # None
  /\ Changes
  /\ membership' = [membership EXCEPT ![u] = status]
  /\ AuthEnds(c)
  /\ UNCHANGED <<user, roles, operational, sessions, historyVars>>

\* assign_role and suspend_assignment of the managing role.
AssignRole(c, u) ==
  /\ authCall[c].pc = "manage"
  /\ membership[u] = "ACTIVE" /\ u \notin roles
  /\ Changes
  /\ roles' = roles \union {u}
  /\ AuthEnds(c)
  /\ UNCHANGED <<user, membership, operational, sessions, historyVars>>

SuspendAssignment(c, u) ==
  /\ authCall[c].pc = "manage" /\ u \in roles
  /\ Changes
  /\ roles' = roles \ {u}
  /\ AuthEnds(c)
  /\ UNCHANGED <<user, membership, operational, sessions, historyVars>>

SuspendUser(u) ==
  /\ Changes
  /\ user' = [user EXCEPT ![u] = IF @ = "ACTIVE" THEN "SUSPENDED" ELSE "ACTIVE"]
  /\ UNCHANGED <<membership, roles, operational, sessions, authCall, historyVars>>

TransitionOrganization ==
  /\ Changes
  /\ operational' = ~operational
  /\ UNCHANGED <<user, membership, roles, sessions, authCall, historyVars>>

SessionExpires(s) ==
  /\ ~sessions[s].expired
  /\ sessions' = [sessions EXCEPT ![s].expired = TRUE]
  /\ UNCHANGED <<accountVars, authCall, historyVars, authChanges>>

-----------------------------------------------------------------------------
AuthStep(c) ==
  \/ \E u \in Users : AuthenticateUser(c, u) \/ RequireManage(c, u)
  \/ SelectOrganization(c) \/ EstablishSession(c)
  \/ \E t \in Tokens : BeginRefresh(c, t)
  \/ LookupCurrent(c) \/ LookupPrevious(c) \/ CheckHolder(c) \/ Rotate(c)
  \/ \E s \in DOMAIN sessions : BeginRequest(c, s)
  \/ RequireValid(c) \/ Admitted(c)
  \/ \E u \in Users : \/ \E status \in MembershipStates \ {None} : SetMembership(c, u, status)
                      \/ AssignRole(c, u) \/ SuspendAssignment(c, u)

AccessNext ==
  \/ \E c \in AuthCalls : AuthStep(c)
  \/ \E t \in Tokens : Logout(t)
  \/ \E u \in Users : SuspendUser(u) \/ \E managing \in BOOLEAN : CreateMembership(u, managing)
  \/ TransitionOrganization
  \/ \E s \in DOMAIN sessions : SessionExpires(s)

AccessSpec == AccessInit /\ [][AccessNext]_accessVars

-----------------------------------------------------------------------------
(* A refresh token is exchanged once: at most one successor is issued for it,  *)
(* and when two refreshes took it for current, the session family is revoked   *)
(* once both have ended ("exactly one winner", the loser is treated as reuse   *)
(* and its revocation commits, domain/auth/service.py refresh).                *)
RefreshIsSingleUse ==
  \A t \in Tokens :
    /\ rotated[t] <= 1
    /\ (passed[t] > 1 /\ \A c \in AuthCalls : ~(authCall[c].pc = "rotate" /\ authCall[c].token = t))
         => sessions[t[1]].revoked

(* A revoked session is over: no request and no refresh that begins after the  *)
(* revocation is granted anything, however its reads interleave.               *)
RevokedIsLockedOut == ~lockedIn

AccessTypeOK ==
  /\ user \in [Users -> UserStates] /\ membership \in [Users -> MembershipStates]
  /\ roles \in SUBSET Users /\ sessions \in Seq(SessionRecord)

(* The rows of an Organization hang together although each is written by a     *)
(* call of its own: a session and a role assignment belong to somebody who is  *)
(* or was a member, and no row is ever taken back (users, memberships and      *)
(* sessions are ended by a status, never deleted).                             *)
SessionRefers == \A s \in DOMAIN sessions : membership[sessions[s].user] # None
RoleRefers == \A u \in roles : membership[u] # None
RowsKept ==
  /\ \A u \in Users : membership[u] # None => membership'[u] # None
  /\ \A s \in DOMAIN sessions :
       /\ s \in DOMAIN sessions' /\ sessions'[s].user = sessions[s].user
       /\ sessions'[s].generation >= sessions[s].generation
       /\ sessions[s].revoked => sessions'[s].revoked

(* A session lives through one chain of refreshes, and revoked it is over.     *)
SessionsAreFenced ==
  /\ [](AccessTypeOK /\ RefreshIsSingleUse /\ RevokedIsLockedOut /\ SessionRefers /\ RoleRefers)
  /\ [][RowsKept]_accessVars
=============================================================================
